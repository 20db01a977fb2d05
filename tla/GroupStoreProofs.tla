--------------------------- MODULE GroupStoreProofs ----------------------------
(***************************************************************************)
(* Proofs about a group, for every set of users, every clock and every     *)
(* number of concurrent requests.  First what the statements of requests   *)
(* that may overlap preserve, from what the holder of a row's lock may     *)
(* have written to it; then that requests that do not overlap implement    *)
(* the atomic operations of Groups; last, what those operations keep.      *)
(***************************************************************************)
EXTENDS GroupStore, TLAPS

(* What a request knows of itself. *)
Departing(r) == call[r].op \in {"leave", "remove"}
Leaving == {"leaveInvite", "leaveList", "leaveInvites", "leaveGroup", "leavePromote", "commit"}

CallOK(r) ==
  /\ pc[r] = "idle" \/ call[r].target \in Users
  /\ pc[r] = "checkTarget" => /\ call[r].op \in {"invite", "role", "remove"}
                              /\ call[r].op = "role" => call[r].role \in {"admin", "member"}
  /\ pc[r] = "checkOwner" => call[r].op = "remove"
  /\ pc[r] = "setRole" => call[r].op = "role" /\ call[r].role \in {"admin", "member"}
  /\ pc[r] \in {"inviteSelect", "inviteUpdate", "inviteInsert"} => call[r].op = "invite"
  /\ pc[r] = "acceptInsert" => call[r].op = "accept" /\ invite[call[r].target].holder = r
  /\ call[r].op = "accept" => call[r].by = call[r].target
  /\ pc[r] \in {"leaveSelect", "leaveDelete"} \cup (Leaving \ {"commit"}) => Departing(r)
  /\ pc[r] = "leavePromote" => call[r].role = "owner" /\ call[r].heir \in Users

(* A membership row is held by the one who accepts, by the departure of *)
(* its user, whose invitation is gone by then, or by a succession.      *)
MemberHeld(r, u) ==
  member[u].holder = r =>
    \/ /\ call[r].op = "accept" /\ pc[r] = "commit" /\ call[r].target = u
       /\ member[u].row = NoMember /\ member[u].draft.role = "member"
       /\ invite[u].holder = r
    \/ /\ Departing(r) /\ pc[r] \in Leaving /\ call[r].target = u
       /\ member[u].draft = NoMember
       /\ pc[r] = "leaveInvite" \/ invite[u].holder = r \/ invite[u].row.status # "accepted"
    \/ /\ Departing(r) /\ pc[r] = "commit" /\ call[r].role = "owner" /\ call[r].heir = u
       /\ member[u].row.role # "none" /\ member[u].draft.role = "owner"

(* An invitation is accepted together with a membership row. *)
InviteHeld(r, u) ==
  invite[u].holder = r =>
    \/ /\ call[r].op = "invite" /\ pc[r] = "commit" /\ invite[u].draft.status = "pending"
    \/ /\ call[r].op = "accept" /\ pc[r] \in {"acceptInsert", "commit"} /\ call[r].target = u
       /\ invite[u].row.status = "pending" /\ invite[u].draft.status = "accepted"
       /\ pc[r] = "commit" => member[u].holder = r
    \/ /\ Departing(r) /\ pc[r] \in Leaving /\ invite[u].draft = NoInvite

GroupHeld(r) == group.holder = r => Departing(r) /\ pc[r] = "commit" /\ group.draft = FALSE

(* A row without a role, or without a status, is no row. *)
RowsOK ==
  \A u \in Users :
    /\ member[u].row.role = "none" => member[u].row = NoMember
    /\ member[u].draft.role = "none" => member[u].draft = NoMember
    /\ invite[u].row.status = "none" => invite[u].row = NoInvite
    /\ invite[u].draft.status = "none" => invite[u].draft = NoInvite

RequestOK(r) ==
  /\ CallOK(r) /\ GroupHeld(r)
  /\ \A u \in Users : MemberHeld(r, u) /\ InviteHeld(r, u)

IInv == TypeOK /\ RowsOK /\ AcceptedMeansMember /\ \A r \in Requests : RequestOK(r)

--------------------------------------------------------------------------------
(* Requests that do not overlap. *)

(* No two requests are at work at a time. *)
NoOverlap == \A r, s \in Requests : pc[r] # "idle" /\ pc[s] # "idle" => r = s

Same(r, x) == Sees(r, x) = x.row
IsAdmin(u) == RoleOf(u) \in {"owner", "admin"}
Left(r) == {u \in Users : RoleOf(u) # "none" /\ u # call[r].target}

MayDepart(r) ==
  LET by == call[r].by
      u == call[r].target
  IN \/ call[r].op = "leave" /\ RoleOf(u) # "none"
     \/ /\ call[r].op = "remove" /\ by # u /\ by \in Users
        /\ \/ IsAdmin(by) /\ RoleOf(u) = "member"
           \/ RoleOf(by) = "owner" /\ RoleOf(u) = "admin"

(* How far a request has got with what its commit is to do. *)
Checked(r) ==
  LET by == call[r].by
      u == call[r].target
  IN /\ pc[r] = "checkTarget" => by \in Users /\ IsAdmin(by) /\ (call[r].op = "remove" => by # u)
     /\ pc[r] = "checkOwner" => by \in Users /\ by # u /\ RoleOf(u) = "admin"
     /\ pc[r] = "setRole" => by \in Users /\ IsAdmin(by) /\ RoleOf(u) \in {"admin", "member"}
     /\ pc[r] \in {"inviteSelect", "inviteUpdate", "inviteInsert"} =>
          by \in Users /\ IsAdmin(by) /\ RoleOf(u) = "none"
     /\ pc[r] = "inviteUpdate" => invite[u].row.id = call[r].id
     /\ pc[r] = "leaveSelect" => call[r].op = "leave" \/ MayDepart(r)
     /\ pc[r] \in {"leaveDelete"} \cup (Leaving \ {"commit"}) =>
          MayDepart(r) /\ call[r].role = RoleOf(u)

Gone(r) == /\ Sees(r, member[call[r].target]) = NoMember
           /\ Sees(r, invite[call[r].target]) = NoInvite

OnlyHolds(r, us, vs) ==
  /\ \A u \in Users \ us : Same(r, member[u])
  /\ \A u \in Users \ vs : Same(r, invite[u])

Earlier(u, v) == member[u].row.joined <= member[v].row.joined

Heir(r) == /\ call[r].heir \in Left(r) /\ \A v \in Left(r) : Earlier(call[r].heir, v)

Progress(r) ==
  LET u == call[r].target
  IN /\ pc[r] \in {"idle", "checkTarget", "checkOwner", "setRole", "inviteSelect", "inviteUpdate",
                   "inviteInsert", "leaveSelect", "leaveDelete"} => OnlyHolds(r, {}, {})
     /\ pc[r] = "acceptInsert" => OnlyHolds(r, {}, {u})
     /\ pc[r] = "leaveInvite" => OnlyHolds(r, {u}, {}) /\ Sees(r, member[u]) = NoMember
     /\ pc[r] = "leaveList" => OnlyHolds(r, {u}, {u}) /\ Gone(r)
     /\ pc[r] = "leaveInvites" => OnlyHolds(r, {u}, {u}) /\ Gone(r) /\ Left(r) = {}
     /\ pc[r] = "leaveGroup" => /\ OnlyHolds(r, {u}, Users) /\ Gone(r) /\ Left(r) = {}
                                /\ \A v \in Users : Sees(r, invite[v]) = NoInvite
     /\ pc[r] = "leavePromote" => OnlyHolds(r, {u}, {u}) /\ Gone(r) /\ Heir(r)

Outcome(r) ==
  LET by == call[r].by
      u == call[r].target
      heir == call[r].heir
  IN pc[r] = "commit" =>
       \/ /\ call[r].op = "invite" /\ by \in Users /\ IsAdmin(by) /\ RoleOf(u) = "none"
          /\ Same(r, group) /\ OnlyHolds(r, {}, {u}) /\ invite[u].holder = r
       \/ /\ call[r].op = "accept" /\ Same(r, group) /\ OnlyHolds(r, {u}, {u})
          /\ invite[u].row.status = "pending" /\ Sees(r, invite[u]).status = "accepted"
          /\ Sees(r, member[u]).role = "member" /\ Sees(r, member[u]).joined \in Times
       \/ /\ MayDepart(r) /\ Gone(r)
          /\ \/ /\ Left(r) = {} /\ ~Sees(r, group) /\ OnlyHolds(r, {u}, Users)
                /\ \A v \in Users : Sees(r, invite[v]) = NoInvite
             \/ /\ Left(r) # {} /\ RoleOf(u) # "owner" /\ Same(r, group) /\ OnlyHolds(r, {u}, {u})
             \/ /\ RoleOf(u) = "owner" /\ Heir(r) /\ Same(r, group) /\ OnlyHolds(r, {u, heir}, {u})
                /\ Sees(r, member[heir]) = [member[heir].row EXCEPT !.role = "owner"]

SerialOK(r) == Checked(r) /\ Progress(r) /\ Outcome(r)
SerialInv == \A r \in Requests : SerialOK(r)

--------------------------------------------------------------------------------
(* Rows and steps. *)

LEMMA RowOps ==
  ASSUME NEW S, NEW x \in Versioned(S), NEW r \in Requests, NEW v \in S
  PROVE  /\ Written(r, x, v) \in Versioned(S)
         /\ Written(r, x, v).row = x.row /\ Written(r, x, v).draft = v
         /\ Written(r, x, v).holder = r
         /\ Committed(v) \in Versioned(S)
         /\ Committed(v).row = v /\ Committed(v).draft = v /\ Committed(v).holder = NoRequest
BY DEF Versioned, Written, Committed

LEMMA SettleOps ==
  ASSUME NEW S, NEW x \in Versioned(S), NEW r \in Requests, NEW kept \in BOOLEAN
  PROVE  /\ Settled(r, x, kept) \in Versioned(S)
         /\ Settled(r, x, kept).holder # r
         /\ x.holder # r => Settled(r, x, kept) = x
         /\ x.holder = r => /\ Settled(r, x, kept).holder = NoRequest
                            /\ Settled(r, x, kept).row = IF kept THEN x.draft ELSE x.row
                            /\ Settled(r, x, kept).draft = IF kept THEN x.draft ELSE x.row
BY GroupStoreAssumption DEF Versioned, Settled, Committed

LEMMA EndEffect ==
  ASSUME TypeOK, NEW r \in Requests, End(r)
  PROVE  /\ pc' \in [Requests -> PC] /\ call' \in [Requests -> Call]
         /\ pc'[r] = "idle" /\ call'[r] = NoCall
         /\ \A s \in Requests : s # r => pc'[s] = pc[s] /\ call'[s] = call[s]
         /\ CallOK(r)'
<1>1. NoCall \in Call
  BY DEF NoCall, Call, Op
<1>2. /\ pc' \in [Requests -> PC] /\ call' \in [Requests -> Call]
      /\ pc'[r] = "idle" /\ call'[r] = NoCall
      /\ \A s \in Requests : s # r => pc'[s] = pc[s] /\ call'[s] = call[s]
  BY <1>1 DEF End, Goto, TypeOK, PC
<1> QED
  BY <1>2 DEF CallOK, NoCall, Leaving

LEMMA GotoEffect ==
  ASSUME TypeOK, NEW r \in Requests, NEW l \in PC, Goto(r, l)
  PROVE  /\ pc' \in [Requests -> PC] /\ pc'[r] = l
         /\ \A s \in Requests : s # r => pc'[s] = pc[s]
BY DEF Goto, TypeOK

LEMMA StartEffect ==
  ASSUME TypeOK, NEW r \in Requests, NEW l \in PC, NEW op \in Op, NEW by \in Users,
         NEW target \in Users, NEW role \in Role \cup {"none"}, Start(r, l, op, by, target, role)
  PROVE  /\ pc' \in [Requests -> PC] /\ call' \in [Requests -> Call]
         /\ pc[r] = "idle" /\ pc'[r] = l
         /\ call'[r].op = op /\ call'[r].by = by /\ call'[r].target = target
         /\ call'[r].role = role
         /\ \A s \in Requests : s # r => pc'[s] = pc[s] /\ call'[s] = call[s]
<1> DEFINE c == [NoCall EXCEPT !.op = op, !.by = by, !.target = target, !.role = role]
<1>1. c \in Call /\ c.op = op /\ c.by = by /\ c.target = target /\ c.role = role
  BY DEF NoCall, Call
<1>2. call' = [call EXCEPT ![r] = c]
  BY DEF Start
<1> HIDE DEF c
<1>3. /\ call' \in [Requests -> Call] /\ call'[r] = c
      /\ \A s \in Requests : s # r => call'[s] = call[s]
  BY <1>1, <1>2 DEF TypeOK
<1>4. pc[r] = "idle" /\ pc' \in [Requests -> PC] /\ pc'[r] = l
      /\ \A s \in Requests : s # r => pc'[s] = pc[s]
  BY DEF Start, Goto, TypeOK
<1> QED
  BY <1>1, <1>3, <1>4

--------------------------------------------------------------------------------
(* What a step of one request leaves to the others. *)

(* Locks are respected: y is what r may have made of the row x. *)
Touches(r, x, y) ==
  IF x.holder \in {NoRequest, r} THEN y.holder \in {NoRequest, r} ELSE y = x

LEMMA OthersKeep ==
  ASSUME IInv, NEW r \in Requests, NEW s \in Requests, s # r,
         pc'[s] = pc[s], call'[s] = call[s],
         Touches(r, group, group'),
         \A u \in Users : /\ Touches(r, member[u], member'[u])
                          /\ Touches(r, invite[u], invite'[u])
                          /\ invite'[u].row.status = "accepted" =>
                               invite[u].row.status = "accepted" \/ member[u].holder = r
  PROVE  RequestOK(s)'
<1>1. s # NoRequest
  BY GroupStoreAssumption
<1>2. RequestOK(s)
  BY DEF IInv
<1>3. GroupHeld(s)'
  BY <1>1, <1>2 DEF RequestOK, GroupHeld, Touches, Departing
<1>4. ASSUME NEW u \in Users
      PROVE  /\ member[u].holder = s => member'[u] = member[u]
             /\ member'[u].holder = s => member[u].holder = s
             /\ invite[u].holder = s => invite'[u] = invite[u]
             /\ invite'[u].holder = s => invite[u].holder = s
  BY <1>1 DEF Touches
<1>5. CallOK(s)'
  BY <1>2, <1>4 DEF RequestOK, CallOK, Departing
<1>6. ASSUME NEW u \in Users PROVE MemberHeld(s, u)'
  BY <1>2, <1>4 DEF RequestOK, MemberHeld, Departing
<1>7. ASSUME NEW u \in Users PROVE InviteHeld(s, u)'
  BY <1>2, <1>4 DEF RequestOK, InviteHeld, Departing
<1> QED
  BY <1>3, <1>5, <1>6, <1>7 DEF RequestOK

(* A step that commits nothing. *)
LEMMA NothingCommitted ==
  ASSUME IInv, NEW r \in Requests, TypeOK', RequestOK(r)',
         \A s \in Requests : s # r => pc'[s] = pc[s] /\ call'[s] = call[s],
         Touches(r, group, group'),
         \A u \in Users : /\ Touches(r, member[u], member'[u])
                          /\ Touches(r, invite[u], invite'[u])
                          /\ member'[u].row = member[u].row /\ invite'[u].row = invite[u].row
                          /\ member'[u].draft.role = "none" => member'[u].draft = NoMember
                          /\ invite'[u].draft.status = "none" => invite'[u].draft = NoInvite
  PROVE  IInv'
<1>1. \A s \in Requests : RequestOK(s)'
  BY OthersKeep
<1>2. RowsOK'
  BY DEF IInv, RowsOK
<1>3. AcceptedMeansMember'
  BY DEF IInv, AcceptedMeansMember, RoleOf
<1> QED
  BY <1>1, <1>2, <1>3 DEF IInv

(* Nor writes. *)
LEMMA NothingWritten ==
  ASSUME IInv, NEW r \in Requests, UNCHANGED <<group, member, invite>>,
         pc' \in [Requests -> PC], call' \in [Requests -> Call],
         \A s \in Requests : s # r => pc'[s] = pc[s] /\ call'[s] = call[s],
         RequestOK(r)'
  PROVE  IInv'
<1>1. TypeOK'
  BY DEF IInv, TypeOK
<1>2. /\ Touches(r, group, group')
      /\ \A u \in Users : Touches(r, member[u], member'[u]) /\ Touches(r, invite[u], invite'[u])
  BY DEF Touches
<1>3. \A u \in Users : /\ member'[u].draft.role = "none" => member'[u].draft = NoMember
                       /\ invite'[u].draft.status = "none" => invite'[u].draft = NoInvite
  BY DEF IInv, RowsOK
<1> QED
  BY <1>1, <1>2, <1>3, NothingCommitted

(* Outside a transaction a request holds no row. *)
HoldsNothing(r) ==
  group.holder # r /\ \A u \in Users : member[u].holder # r /\ invite[u].holder # r

LEMMA NoLocks ==
  ASSUME IInv, NEW r \in Requests, pc[r] \notin Leaving \cup {"acceptInsert"}
  PROVE  HoldsNothing(r)
<1>1. RequestOK(r)
  BY DEF IInv
<1>2. group.holder # r
  BY <1>1 DEF RequestOK, GroupHeld, Leaving
<1>3. \A u \in Users : member[u].holder # r /\ invite[u].holder # r
  BY <1>1 DEF RequestOK, MemberHeld, InviteHeld, Leaving
<1> QED
  BY <1>2, <1>3 DEF HoldsNothing

LEMMA NoLocksOK ==
  ASSUME NEW r \in Requests, CallOK(r)', HoldsNothing(r)'
  PROVE  RequestOK(r)'
BY DEF RequestOK, HoldsNothing, GroupHeld, MemberHeld, InviteHeld

--------------------------------------------------------------------------------
LEMMA InitStep == Init => IInv
<1> SUFFICES ASSUME Init PROVE IInv
  OBVIOUS
<1>1. PICK creator \in Users, direct \in SUBSET Users, now \in Times :
        member = [u \in Users |->
                    Committed(IF u = creator THEN [role |-> "owner", joined |-> now]
                              ELSE IF u \in direct THEN [role |-> "member", joined |-> now]
                              ELSE NoMember)]
  BY DEF Init
<1> DEFINE first(u) == IF u = creator THEN [role |-> "owner", joined |-> now]
                       ELSE IF u \in direct THEN [role |-> "member", joined |-> now] ELSE NoMember
<1>2. \A u \in Users : /\ first(u) \in MemberRow
                       /\ first(u).role = "none" => first(u) = NoMember
  BY DEF MemberRow, Role, NoMember
<1> HIDE DEF first
<1>3. \A u \in Users : member[u] = Committed(first(u))
  BY <1>1 DEF first
<1>4. /\ member \in [Users -> Versioned(MemberRow)]
      /\ \A u \in Users : /\ member[u].holder = NoRequest
                          /\ member[u].row = first(u) /\ member[u].draft = first(u)
  BY <1>1, <1>2, <1>3 DEF Committed, Versioned, first
<1>5. NoInvite \in InviteRow
  BY DEF NoInvite, InviteRow
<1>6. /\ group \in Versioned(BOOLEAN) /\ group.holder = NoRequest
      /\ invite \in [Users -> Versioned(InviteRow)]
      /\ \A u \in Users : /\ invite[u].holder = NoRequest
                          /\ invite[u].row = NoInvite /\ invite[u].draft = NoInvite
  BY <1>5 DEF Init, Committed, Versioned
<1>7. NoCall \in Call /\ NoCall.op = "none"
  BY DEF NoCall, Call, Op
<1>8. TypeOK
  BY <1>4, <1>6, <1>7 DEF Init, TypeOK, PC
<1>9. RowsOK
  BY <1>2, <1>4, <1>6 DEF RowsOK
<1>10. AcceptedMeansMember
  BY <1>6 DEF AcceptedMeansMember, NoInvite
<1>11. ASSUME NEW r \in Requests PROVE RequestOK(r)
  <2>1. CallOK(r)
    BY <1>7 DEF Init, CallOK, Leaving
  <2> QED
    BY <1>4, <1>6, <2>1, GroupStoreAssumption DEF RequestOK, GroupHeld, MemberHeld, InviteHeld
<1> QED
  BY <1>8, <1>9, <1>10, <1>11 DEF IInv

--------------------------------------------------------------------------------
(* Requests that end, for whatever reason. *)

LEMMA SettleEffect ==
  ASSUME TypeOK, NEW r \in Requests, NEW kept \in BOOLEAN, Settle(r, kept)
  PROVE  /\ group' \in Versioned(BOOLEAN)
         /\ member' \in [Users -> Versioned(MemberRow)]
         /\ invite' \in [Users -> Versioned(InviteRow)]
         /\ HoldsNothing(r)'
         /\ Touches(r, group, group')
         /\ kept => group'.row = IF group.holder = r THEN group.draft ELSE group.row
         /\ ~kept => group'.row = group.row
         /\ \A u \in Users :
              /\ Touches(r, member[u], member'[u]) /\ Touches(r, invite[u], invite'[u])
              /\ kept =>
                   /\ member'[u].row =
                        IF member[u].holder = r THEN member[u].draft ELSE member[u].row
                   /\ invite'[u].row =
                        IF invite[u].holder = r THEN invite[u].draft ELSE invite[u].row
              /\ ~kept => member'[u].row = member[u].row /\ invite'[u].row = invite[u].row
              /\ member'[u].draft \in {member[u].row, member[u].draft}
              /\ invite'[u].draft \in {invite[u].row, invite[u].draft}
<1>1. /\ group' = Settled(r, group, kept) /\ group \in Versioned(BOOLEAN)
      /\ member' = [u \in Users |-> Settled(r, member[u], kept)]
      /\ invite' = [u \in Users |-> Settled(r, invite[u], kept)]
  BY DEF Settle, TypeOK
<1>2. \A u \in Users : member[u] \in Versioned(MemberRow) /\ invite[u] \in Versioned(InviteRow)
  BY DEF TypeOK
<1>3. ASSUME NEW S, NEW x \in Versioned(S)
      PROVE  /\ Settled(r, x, kept) \in Versioned(S) /\ Settled(r, x, kept).holder # r
             /\ Touches(r, x, Settled(r, x, kept))
             /\ kept => Settled(r, x, kept).row = IF x.holder = r THEN x.draft ELSE x.row
             /\ ~kept => Settled(r, x, kept).row = x.row
             /\ Settled(r, x, kept).draft \in {x.row, x.draft}
  BY SettleOps DEF Touches
<1> QED
  BY <1>1, <1>2, <1>3 DEF HoldsNothing

(* A rollback. *)
LEMMA RollbackStep ==
  ASSUME IInv, NEW r \in Requests, End(r), Settle(r, FALSE)
  PROVE  IInv'
<1> USE DEF IInv
<1>1. /\ pc' \in [Requests -> PC] /\ call' \in [Requests -> Call] /\ CallOK(r)'
      /\ \A s \in Requests : s # r => pc'[s] = pc[s] /\ call'[s] = call[s]
  BY EndEffect
<1>2. TypeOK'
  BY <1>1, SettleEffect DEF TypeOK
<1>3. RequestOK(r)'
  BY <1>1, SettleEffect, NoLocksOK
<1>4. ASSUME NEW u \in Users
      PROVE  /\ Touches(r, member[u], member'[u]) /\ Touches(r, invite[u], invite'[u])
             /\ member'[u].row = member[u].row /\ invite'[u].row = invite[u].row
             /\ member'[u].draft \in {member[u].row, member[u].draft}
             /\ invite'[u].draft \in {invite[u].row, invite[u].draft}
  BY SettleEffect
<1>5. \A u \in Users : /\ member'[u].draft.role = "none" => member'[u].draft = NoMember
                       /\ invite'[u].draft.status = "none" => invite'[u].draft = NoInvite
  BY <1>4 DEF RowsOK
<1>6. Touches(r, group, group')
  BY SettleEffect
<1> QED
  BY <1>1, <1>2, <1>3, <1>4, <1>5, <1>6, NothingCommitted

(* What a commit makes of the rows. *)
LEMMA CommitEffect ==
  ASSUME NEW r \in Requests, NEW u \in Users, Settle(r, TRUE)
  PROVE  /\ group'.row = Sees(r, group)
         /\ member'[u].row = Sees(r, member[u])
         /\ invite'[u].row = Sees(r, invite[u])
<1>1. /\ group' = Settled(r, group, TRUE)
      /\ member'[u] = Settled(r, member[u], TRUE)
      /\ invite'[u] = Settled(r, invite[u], TRUE)
  BY DEF Settle
<1>2. \A x : Settled(r, x, TRUE).row = Sees(r, x)
  BY DEF Settled, Committed, Sees
<1> QED
  BY <1>1, <1>2

LEMMA CommitStep ==
  ASSUME IInv, NEW r \in Requests, Commit(r)
  PROVE  IInv'
<1> USE DEF IInv
<1>1. End(r) /\ Settle(r, TRUE) /\ pc[r] = "commit"
  BY DEF Commit
<1>2. /\ pc' \in [Requests -> PC] /\ call' \in [Requests -> Call] /\ CallOK(r)'
      /\ \A s \in Requests : s # r => pc'[s] = pc[s] /\ call'[s] = call[s]
  BY <1>1, EndEffect
<1>3. ASSUME NEW u \in Users
      PROVE  /\ Touches(r, member[u], member'[u]) /\ Touches(r, invite[u], invite'[u])
             /\ member'[u].row = IF member[u].holder = r THEN member[u].draft ELSE member[u].row
             /\ invite'[u].row = IF invite[u].holder = r THEN invite[u].draft ELSE invite[u].row
             /\ member'[u].draft \in {member[u].row, member[u].draft}
             /\ invite'[u].draft \in {invite[u].row, invite[u].draft}
  <2>1. /\ Touches(r, member[u], member'[u]) /\ Touches(r, invite[u], invite'[u])
        /\ member'[u].draft \in {member[u].row, member[u].draft}
        /\ invite'[u].draft \in {invite[u].row, invite[u].draft}
    <3>1. TypeOK /\ Settle(r, TRUE)
      BY <1>1
    <3>2. TRUE \in BOOLEAN
      OBVIOUS
    <3> QED
      BY ONLY <3>1, <3>2, r \in Requests, u \in Users, SettleEffect
  <2>2. /\ member'[u].row = Sees(r, member[u])
        /\ invite'[u].row = Sees(r, invite[u])
    BY <1>1, CommitEffect
  <2> QED
    BY <2>1, <2>2 DEF Sees
<1>4. TypeOK'
  BY <1>1, <1>2, SettleEffect DEF TypeOK
<1>5. Touches(r, group, group') /\ HoldsNothing(r)'
  BY <1>1, SettleEffect
<1>6. RequestOK(r) /\ RequestOK(r)'
  BY <1>2, <1>5, NoLocksOK
<1>7. RowsOK'
  BY <1>3 DEF RowsOK
<1>8. ASSUME NEW u \in Users, invite'[u].row.status = "accepted", invite[u].holder = r
      PROVE  member[u].holder = r /\ member[u].draft.role = "member"
  <2>1. InviteHeld(r, u) /\ MemberHeld(r, u) /\ invite[u].draft.status = "accepted"
    BY <1>3, <1>6, <1>8 DEF RequestOK
  <2>2. call[r].op = "accept" /\ member[u].holder = r
    BY <1>1, <1>8, <2>1 DEF InviteHeld, NoInvite
  <2> QED
    BY <2>1, <2>2 DEF MemberHeld, Departing
<1>9. AcceptedMeansMember'
  <2> SUFFICES ASSUME NEW u \in Users, invite'[u].row.status = "accepted"
               PROVE  member'[u].row.role # "none"
    BY DEF AcceptedMeansMember, RoleOf
  <2>1. CASE invite[u].holder = r
    BY <1>3, <1>8, <2>1
  <2>2. CASE invite[u].holder # r
    <3>1. invite[u].row.status = "accepted" /\ member[u].row.role # "none"
      BY <1>3, <2>2 DEF AcceptedMeansMember, RoleOf
    <3>2. member[u].holder = r => member[u].draft.role # "none"
      BY <1>1, <1>6, <2>2, <3>1 DEF RequestOK, MemberHeld, NoMember
    <3> QED
      BY <1>3, <3>1, <3>2
  <2> QED
    BY <2>1, <2>2
<1>10. \A s \in Requests : RequestOK(s)'
  <2>1. \A u \in Users : invite'[u].row.status = "accepted" =>
                           invite[u].row.status = "accepted" \/ member[u].holder = r
    BY <1>3, <1>8
  <2> QED
    BY <1>2, <1>3, <1>5, <1>6, <2>1, OthersKeep
<1> QED
  BY <1>4, <1>7, <1>9, <1>10

--------------------------------------------------------------------------------
(* The checks. *)

LEMMA ReadStep ==
  ASSUME IInv, NEW r \in Requests, pc[r] \notin Leaving \cup {"acceptInsert"},
         UNCHANGED <<group, member, invite>>,
         pc' \in [Requests -> PC], call' \in [Requests -> Call],
         \A s \in Requests : s # r => pc'[s] = pc[s] /\ call'[s] = call[s],
         CallOK(r)'
  PROVE  IInv'
<1>1. HoldsNothing(r)'
  BY NoLocks DEF HoldsNothing
<1> QED
  BY <1>1, NoLocksOK, NothingWritten

LEMMA EndRead ==
  ASSUME IInv, NEW r \in Requests, pc[r] \notin Leaving \cup {"acceptInsert"},
         UNCHANGED <<group, member, invite>>, End(r)
  PROVE  IInv'
BY EndEffect, ReadStep DEF IInv

LEMMA RequireGroupAdminStep ==
  ASSUME IInv, NEW r \in Requests, NEW by \in Users, NEW target \in Users,
         RequireGroupAdmin(r, by, target)
  PROVE  IInv'
<1>1. PICK op \in {"invite", "remove", "role"}, role \in {"none", "admin", "member"} :
        /\ Start(r, "checkTarget", op, by, target, role)
        /\ op = "role" => role \in {"admin", "member"}
  BY DEF RequireGroupAdmin
<1>2. "checkTarget" \in PC /\ op \in Op /\ role \in Role \cup {"none"}
  BY DEF PC, Op, Role
<1>3. /\ pc' \in [Requests -> PC] /\ call' \in [Requests -> Call]
      /\ pc[r] = "idle" /\ pc'[r] = "checkTarget"
      /\ call'[r].op = op /\ call'[r].target = target /\ call'[r].role = role
      /\ \A s \in Requests : s # r => pc'[s] = pc[s] /\ call'[s] = call[s]
  BY <1>1, <1>2, StartEffect DEF IInv
<1>4. CallOK(r)'
  BY <1>1, <1>3 DEF CallOK, Leaving
<1> QED
  BY <1>3, <1>4, ReadStep DEF RequireGroupAdmin, Leaving

LEMMA LeaveStep ==
  ASSUME IInv, NEW r \in Requests, NEW u \in Users, Leave(r, u)
  PROVE  IInv'
<1>1. "leaveSelect" \in PC /\ "leave" \in Op
  BY DEF PC, Op
<1>2. /\ pc' \in [Requests -> PC] /\ call' \in [Requests -> Call]
      /\ pc[r] = "idle" /\ pc'[r] = "leaveSelect"
      /\ call'[r].op = "leave" /\ call'[r].target = u
      /\ \A s \in Requests : s # r => pc'[s] = pc[s] /\ call'[s] = call[s]
  BY <1>1, StartEffect DEF IInv, Leave
<1>3. CallOK(r)'
  BY <1>2 DEF CallOK, Leaving, Departing
<1> QED
  BY <1>2, <1>3, ReadStep DEF Leave, Leaving

(* A request that goes on with the parameters it has. *)
LEMMA GoOn ==
  ASSUME IInv, NEW r \in Requests, pc[r] \notin Leaving \cup {"acceptInsert"},
         NEW l \in PC, Goto(r, l),
         UNCHANGED <<group, member, invite, call>>, CallOK(r)'
  PROVE  IInv'
<1>1. TypeOK /\ call' \in [Requests -> Call]
  BY DEF IInv, TypeOK
<1> QED
  BY <1>1, GotoEffect, ReadStep

LEMMA CheckTargetStep ==
  ASSUME IInv, NEW r \in Requests, CheckTarget(r)
  PROVE  IInv'
<1>1. pc[r] = "checkTarget" /\ CallOK(r)
  BY DEF CheckTarget, IInv, RequestOK
<1>2. CASE End(r)
  BY <1>1, <1>2, EndRead DEF CheckTarget, Leaving
<1>3. ASSUME NEW l \in {"inviteSelect", "setRole", "checkOwner", "leaveSelect"}, Goto(r, l),
             call' = call,
             \/ call[r].op = "invite" /\ l = "inviteSelect"
             \/ call[r].op = "role" /\ l = "setRole"
             \/ call[r].op = "remove" /\ l \in {"checkOwner", "leaveSelect"}
      PROVE  IInv'
  <2>1. l \in PC
    BY DEF PC
  <2>2. pc'[r] = l
    BY <1>3, <2>1, GotoEffect DEF IInv
  <2>3. CallOK(r)'
    BY <1>1, <1>3, <2>2 DEF CallOK, Leaving, Departing
  <2> QED
    BY <1>1, <1>3, <2>1, <2>3, GoOn DEF CheckTarget, Leaving
<1> QED
  BY <1>1, <1>2, <1>3 DEF CheckTarget, CallOK

LEMMA CheckOwnerStep ==
  ASSUME IInv, NEW r \in Requests, CheckOwner(r)
  PROVE  IInv'
<1>1. pc[r] = "checkOwner" /\ CallOK(r)
  BY DEF CheckOwner, IInv, RequestOK
<1>2. CASE End(r)
  BY <1>1, <1>2, EndRead DEF CheckOwner, Leaving
<1>3. CASE Goto(r, "leaveSelect") /\ call' = call
  <2>1. "leaveSelect" \in PC
    BY DEF PC
  <2>2. pc'[r] = "leaveSelect"
    BY <1>3, <2>1, GotoEffect DEF IInv
  <2>3. CallOK(r)'
    BY <1>1, <1>3, <2>2 DEF CallOK, Leaving, Departing
  <2> QED
    BY <1>1, <1>3, <2>1, <2>3, GoOn DEF CheckOwner, Leaving
<1> QED
  BY <1>2, <1>3 DEF CheckOwner

LEMMA InviteSelectStep ==
  ASSUME IInv, NEW r \in Requests, InviteSelect(r)
  PROVE  IInv'
<1> DEFINE u == call[r].target
           existing == Sees(r, invite[u])
<1>1. pc[r] = "inviteSelect" /\ CallOK(r) /\ u \in Users
  BY DEF InviteSelect, IInv, RequestOK, CallOK
<1>2. invite[u] \in Versioned(InviteRow) /\ existing \in InviteRow
  BY <1>1 DEF IInv, TypeOK, Versioned, Sees
<1>3. existing.id \in InviteIds \cup {NoId}
  BY <1>2 DEF InviteRow
<1> HIDE DEF existing
<1>4. CASE End(r)
  BY <1>1, <1>4, EndRead DEF InviteSelect, Leaving
<1>5. CASE Goto(r, "inviteInsert") /\ call' = call
  <2>1. "inviteInsert" \in PC
    BY DEF PC
  <2>2. pc'[r] = "inviteInsert"
    BY <1>5, <2>1, GotoEffect DEF IInv
  <2>3. CallOK(r)'
    BY <1>1, <1>5, <2>2 DEF CallOK, Leaving, Departing
  <2> QED
    BY <1>1, <1>5, <2>1, <2>3, GoOn DEF InviteSelect, Leaving
<1>6. CASE Goto(r, "inviteUpdate") /\ call' = [call EXCEPT ![r].id = existing.id]
  <2>1. "inviteUpdate" \in PC
    BY DEF PC
  <2>2. /\ pc' \in [Requests -> PC] /\ pc'[r] = "inviteUpdate"
        /\ \A s \in Requests : s # r => pc'[s] = pc[s]
    BY <1>6, <2>1, GotoEffect DEF IInv
  <2>3. call[r] \in Call /\ [call[r] EXCEPT !.id = existing.id] \in Call
    BY <1>3 DEF IInv, TypeOK, Call
  <2>4. /\ call' \in [Requests -> Call] /\ call'[r] = [call[r] EXCEPT !.id = existing.id]
        /\ \A s \in Requests : s # r => call'[s] = call[s]
    BY <1>6, <2>3 DEF IInv, TypeOK
  <2>5. call'[r].op = call[r].op /\ call'[r].by = call[r].by /\ call'[r].target = call[r].target
    BY <2>3, <2>4 DEF Call
  <2>6. CallOK(r)'
    BY <1>1, <2>2, <2>5 DEF CallOK, Leaving, Departing
  <2> QED
    BY <1>1, <2>2, <2>4, <2>6, ReadStep DEF InviteSelect, Leaving
<1> QED
  BY <1>4, <1>5, <1>6 DEF InviteSelect, existing

LEMMA LeaveSelectStep ==
  ASSUME IInv, NEW r \in Requests, LeaveSelect(r)
  PROVE  IInv'
<1> DEFINE u == call[r].target
           leaving == Sees(r, member[u])
<1>1. pc[r] = "leaveSelect" /\ CallOK(r) /\ u \in Users
  BY DEF LeaveSelect, IInv, RequestOK, CallOK
<1>2. member[u] \in Versioned(MemberRow) /\ leaving \in MemberRow
  BY <1>1 DEF IInv, TypeOK, Versioned, Sees
<1>3. leaving.role \in Role \cup {"none"}
  BY <1>2 DEF MemberRow
<1> HIDE DEF leaving
<1>4. CASE End(r)
  BY <1>1, <1>4, EndRead DEF LeaveSelect, Leaving
<1>5. CASE Goto(r, "leaveDelete") /\ call' = [call EXCEPT ![r].role = leaving.role]
  <2>1. "leaveDelete" \in PC
    BY DEF PC
  <2>2. /\ pc' \in [Requests -> PC] /\ pc'[r] = "leaveDelete"
        /\ \A s \in Requests : s # r => pc'[s] = pc[s]
    BY <1>5, <2>1, GotoEffect DEF IInv
  <2>3. call[r] \in Call /\ [call[r] EXCEPT !.role = leaving.role] \in Call
    BY <1>3 DEF IInv, TypeOK, Call
  <2>4. /\ call' \in [Requests -> Call] /\ call'[r] = [call[r] EXCEPT !.role = leaving.role]
        /\ \A s \in Requests : s # r => call'[s] = call[s]
    BY <1>5, <2>3 DEF IInv, TypeOK
  <2>5. call'[r].op = call[r].op /\ call'[r].by = call[r].by /\ call'[r].target = call[r].target
    BY <2>3, <2>4 DEF Call
  <2>6. CallOK(r)'
    BY <1>1, <2>2, <2>5 DEF CallOK, Leaving, Departing
  <2> QED
    BY <1>1, <2>2, <2>4, <2>6, ReadStep DEF LeaveSelect, Leaving
<1> QED
  BY <1>4, <1>5 DEF LeaveSelect, leaving

--------------------------------------------------------------------------------
(* Statements that write. *)

LEMMA WriteMember ==
  ASSUME TypeOK, NEW r \in Requests, NEW u \in Users, NEW v \in MemberRow, Free(r, member[u]),
         member' = [member EXCEPT ![u] = Written(r, member[u], v)]
  PROVE  /\ member' \in [Users -> Versioned(MemberRow)]
         /\ member'[u].draft = v /\ member'[u].holder = r
         /\ \A w \in Users : w # u => member'[w] = member[w]
         /\ \A w \in Users : /\ Touches(r, member[w], member'[w])
                             /\ member'[w].row = member[w].row
<1>1. member \in [Users -> Versioned(MemberRow)]
  BY DEF TypeOK
<1>2. /\ Written(r, member[u], v) \in Versioned(MemberRow)
      /\ Written(r, member[u], v).row = member[u].row /\ Written(r, member[u], v).draft = v
      /\ Written(r, member[u], v).holder = r
  BY <1>1, RowOps
<1>3. /\ member' \in [Users -> Versioned(MemberRow)] /\ member'[u] = Written(r, member[u], v)
      /\ \A w \in Users : w # u => member'[w] = member[w]
  BY <1>1, <1>2
<1>4. \A w \in Users : Touches(r, member[w], member'[w]) /\ member'[w].row = member[w].row
  BY <1>2, <1>3 DEF Touches, Free
<1> QED
  BY <1>2, <1>3, <1>4

LEMMA WriteInvite ==
  ASSUME TypeOK, NEW r \in Requests, NEW u \in Users, NEW v \in InviteRow, Free(r, invite[u]),
         invite' = [invite EXCEPT ![u] = Written(r, invite[u], v)]
  PROVE  /\ invite' \in [Users -> Versioned(InviteRow)]
         /\ invite'[u].draft = v /\ invite'[u].holder = r
         /\ \A w \in Users : w # u => invite'[w] = invite[w]
         /\ \A w \in Users : /\ Touches(r, invite[w], invite'[w])
                             /\ invite'[w].row = invite[w].row
<1>1. invite \in [Users -> Versioned(InviteRow)]
  BY DEF TypeOK
<1>2. /\ Written(r, invite[u], v) \in Versioned(InviteRow)
      /\ Written(r, invite[u], v).row = invite[u].row /\ Written(r, invite[u], v).draft = v
      /\ Written(r, invite[u], v).holder = r
  BY <1>1, RowOps
<1>3. /\ invite' \in [Users -> Versioned(InviteRow)] /\ invite'[u] = Written(r, invite[u], v)
      /\ \A w \in Users : w # u => invite'[w] = invite[w]
  BY <1>1, <1>2
<1>4. \A w \in Users : Touches(r, invite[w], invite'[w]) /\ invite'[w].row = invite[w].row
  BY <1>2, <1>3 DEF Touches, Free
<1> QED
  BY <1>2, <1>3, <1>4

LEMMA CommitMember ==
  ASSUME TypeOK, NEW r \in Requests, NEW u \in Users, NEW v \in MemberRow, Free(r, member[u]),
         member' = [member EXCEPT ![u] = Committed(v)]
  PROVE  /\ member' \in [Users -> Versioned(MemberRow)]
         /\ member'[u].row = v /\ member'[u].draft = v /\ member'[u].holder = NoRequest
         /\ \A w \in Users : w # u => member'[w] = member[w]
         /\ \A w \in Users : Touches(r, member[w], member'[w])
<1>1. member \in [Users -> Versioned(MemberRow)]
  BY DEF TypeOK
<1>2. /\ Committed(v) \in Versioned(MemberRow)
      /\ Committed(v).row = v /\ Committed(v).draft = v /\ Committed(v).holder = NoRequest
  BY DEF Committed, Versioned
<1>3. /\ member' \in [Users -> Versioned(MemberRow)] /\ member'[u] = Committed(v)
      /\ \A w \in Users : w # u => member'[w] = member[w]
  BY <1>1, <1>2
<1>4. \A w \in Users : Touches(r, member[w], member'[w])
  BY <1>2, <1>3 DEF Touches, Free
<1> QED
  BY <1>2, <1>3, <1>4

LEMMA CommitInvite ==
  ASSUME TypeOK, NEW r \in Requests, NEW u \in Users, NEW v \in InviteRow, Free(r, invite[u]),
         invite' = [invite EXCEPT ![u] = Committed(v)]
  PROVE  /\ invite' \in [Users -> Versioned(InviteRow)]
         /\ invite'[u].row = v /\ invite'[u].draft = v /\ invite'[u].holder = NoRequest
         /\ \A w \in Users : w # u => invite'[w] = invite[w]
         /\ \A w \in Users : Touches(r, invite[w], invite'[w])
<1>1. invite \in [Users -> Versioned(InviteRow)]
  BY DEF TypeOK
<1>2. /\ Committed(v) \in Versioned(InviteRow)
      /\ Committed(v).row = v /\ Committed(v).draft = v /\ Committed(v).holder = NoRequest
  BY DEF Committed, Versioned
<1>3. /\ invite' \in [Users -> Versioned(InviteRow)] /\ invite'[u] = Committed(v)
      /\ \A w \in Users : w # u => invite'[w] = invite[w]
  BY <1>1, <1>2
<1>4. \A w \in Users : Touches(r, invite[w], invite'[w])
  BY <1>2, <1>3 DEF Touches, Free
<1> QED
  BY <1>2, <1>3, <1>4

LEMMA Untouched == \A r, x : Touches(r, x, x)
BY DEF Touches

LEMMA SetRoleStep ==
  ASSUME IInv, NEW r \in Requests, SetRole(r)
  PROVE  IInv'
<1> DEFINE u == call[r].target
           v == [member[u].row EXCEPT !.role = call[r].role]
<1>1. /\ pc[r] = "setRole" /\ u \in Users /\ call[r].role \in {"admin", "member"}
      /\ RequestOK(r) /\ HoldsNothing(r)
  BY NoLocks DEF SetRole, IInv, RequestOK, CallOK, Leaving
<1>2. CASE UNCHANGED member
  BY <1>1, <1>2, EndRead DEF SetRole, Leaving
<1>3. CASE /\ RoleOf(u) \notin {"none", "owner"} /\ Free(r, member[u])
           /\ member' = [member EXCEPT ![u] = Committed(v)]
  <2>1. member \in [Users -> Versioned(MemberRow)] /\ v \in MemberRow /\ v.role \in {"admin", "member"}
    BY <1>1 DEF IInv, TypeOK, Versioned, MemberRow, Role
  <2> HIDE DEF v
  <2>2. /\ member' \in [Users -> Versioned(MemberRow)]
        /\ member'[u].row = v /\ member'[u].draft = v /\ member'[u].holder = NoRequest
        /\ \A w \in Users : w # u => member'[w] = member[w]
        /\ \A w \in Users : Touches(r, member[w], member'[w])
    BY <1>1, <1>3, <2>1, CommitMember DEF IInv
  <2>3. /\ pc' \in [Requests -> PC] /\ call' \in [Requests -> Call] /\ CallOK(r)'
        /\ \A s \in Requests : s # r => pc'[s] = pc[s] /\ call'[s] = call[s]
    BY EndEffect DEF IInv, SetRole
  <2>4. UNCHANGED <<group, invite>>
    BY DEF SetRole
  <2>5. TypeOK'
    BY <2>2, <2>3, <2>4 DEF IInv, TypeOK
  <2>6. RowsOK' /\ AcceptedMeansMember'
    BY <2>1, <2>2, <2>4 DEF IInv, RowsOK, AcceptedMeansMember, RoleOf
  <2>7. RequestOK(r)'
    BY <1>1, <2>2, <2>3, <2>4, NoLocksOK, GroupStoreAssumption DEF HoldsNothing
  <2>8. \A s \in Requests : s # r => RequestOK(s)'
    BY <2>2, <2>3, <2>4, Untouched, OthersKeep
  <2> QED
    BY <2>5, <2>6, <2>7, <2>8 DEF IInv
<1> QED
  BY <1>2, <1>3 DEF SetRole, RoleOf

LEMMA DeclineStep ==
  ASSUME IInv, NEW r \in Requests, NEW u \in Users, Decline(r, u)
  PROVE  IInv'
<1> DEFINE v == [invite[u].row EXCEPT !.status = "declined"]
<1>1. /\ pc[r] = "idle" /\ Free(r, invite[u]) /\ RequestOK(r) /\ HoldsNothing(r)
      /\ invite' = [invite EXCEPT ![u] = Committed(v)]
      /\ UNCHANGED <<group, member, pc, call>>
  BY NoLocks DEF Decline, IInv, Leaving
<1>2. invite \in [Users -> Versioned(InviteRow)] /\ v \in InviteRow /\ v.status = "declined"
  BY DEF IInv, TypeOK, Versioned, InviteRow, Status
<1> HIDE DEF v
<1>3. /\ invite' \in [Users -> Versioned(InviteRow)]
      /\ invite'[u].row = v /\ invite'[u].draft = v /\ invite'[u].holder = NoRequest
      /\ \A w \in Users : w # u => invite'[w] = invite[w]
      /\ \A w \in Users : Touches(r, invite[w], invite'[w])
  BY <1>1, <1>2, CommitInvite DEF IInv
<1>4. TypeOK'
  BY <1>1, <1>3 DEF IInv, TypeOK
<1>5. RowsOK' /\ AcceptedMeansMember'
  BY <1>1, <1>2, <1>3 DEF IInv, RowsOK, AcceptedMeansMember, RoleOf
<1>6. RequestOK(r)'
  <2>1. CallOK(r)'
    BY <1>1 DEF RequestOK, CallOK, Leaving, Departing
  <2>2. HoldsNothing(r)'
    BY <1>1, <1>3, GroupStoreAssumption DEF HoldsNothing
  <2> QED
    BY <2>1, <2>2, NoLocksOK
<1>7. \A s \in Requests : s # r => RequestOK(s)'
  BY <1>1, <1>2, <1>3, Untouched, OthersKeep
<1> QED
  BY <1>4, <1>5, <1>6, <1>7 DEF IInv

LEMMA AcceptUpdateStep ==
  ASSUME IInv, NEW r \in Requests, NEW u \in Users, AcceptUpdate(r, u)
  PROVE  IInv'
<1> DEFINE v == [invite[u].row EXCEPT !.status = "accepted"]
<1>1. "acceptInsert" \in PC /\ "accept" \in Op
  BY DEF PC, Op
<1>2. /\ pc' \in [Requests -> PC] /\ call' \in [Requests -> Call]
      /\ pc[r] = "idle" /\ pc'[r] = "acceptInsert"
      /\ call'[r].op = "accept" /\ call'[r].by = u /\ call'[r].target = u
      /\ \A s \in Requests : s # r => pc'[s] = pc[s] /\ call'[s] = call[s]
  BY <1>1, StartEffect DEF IInv, AcceptUpdate
<1>3. /\ HoldsNothing(r) /\ Free(r, invite[u]) /\ UNCHANGED <<group, member>>
      /\ Sees(r, invite[u]).status = "pending"
      /\ invite' = [invite EXCEPT ![u] = Written(r, invite[u], v)]
  BY <1>2, NoLocks DEF AcceptUpdate, Leaving
<1>4. invite[u].row.status = "pending"
  BY <1>3 DEF Sees, HoldsNothing
<1>5. v \in InviteRow /\ v.status = "accepted"
  <2>1. invite[u].row \in InviteRow
    BY DEF IInv, TypeOK, Versioned
  <2> QED
    BY <2>1 DEF InviteRow, Status
<1> HIDE DEF v
<1>6. /\ invite' \in [Users -> Versioned(InviteRow)]
      /\ invite'[u].draft = v /\ invite'[u].holder = r
      /\ \A w \in Users : w # u => invite'[w] = invite[w]
      /\ \A w \in Users : Touches(r, invite[w], invite'[w]) /\ invite'[w].row = invite[w].row
  BY <1>3, <1>5, WriteInvite DEF IInv
<1>7. TypeOK'
  BY <1>2, <1>3, <1>6 DEF IInv, TypeOK
<1>8. CallOK(r)'
  BY <1>2, <1>6 DEF CallOK, Leaving
<1>9. ASSUME NEW w \in Users PROVE MemberHeld(r, w)' /\ InviteHeld(r, w)'
  BY <1>2, <1>3, <1>4, <1>5, <1>6 DEF MemberHeld, InviteHeld, HoldsNothing
<1>10. RequestOK(r)'
  BY <1>3, <1>8, <1>9 DEF RequestOK, GroupHeld, HoldsNothing
<1>11. \A w \in Users : /\ member'[w].draft.role = "none" => member'[w].draft = NoMember
                        /\ invite'[w].draft.status = "none" => invite'[w].draft = NoInvite
  BY <1>3, <1>5, <1>6 DEF IInv, RowsOK
<1> QED
  BY <1>2, <1>3, <1>6, <1>7, <1>10, <1>11, Untouched, NothingCommitted

LEMMA AcceptInsertStep ==
  ASSUME IInv, NEW r \in Requests, AcceptInsert(r)
  PROVE  IInv'
<1> DEFINE u == call[r].target
<1>1. /\ pc[r] = "acceptInsert" /\ RequestOK(r) /\ u \in Users /\ Free(r, member[u])
      /\ call[r].op = "accept" /\ invite[u].holder = r
  BY DEF AcceptInsert, IInv, RequestOK, CallOK
<1>2. CASE End(r) /\ Settle(r, FALSE)
  BY <1>2, RollbackStep
<1>3. ASSUME NEW now \in Times, Sees(r, member[u]) = NoMember,
             member' = [member EXCEPT ![u] =
                          Written(r, member[u], [role |-> "member", joined |-> now])],
             Goto(r, "commit"), UNCHANGED <<group, invite, call>>
      PROVE  IInv'
  <2> DEFINE v == [role |-> "member", joined |-> now]
  <2>1. member \in [Users -> Versioned(MemberRow)] /\ v \in MemberRow /\ v.role = "member"
    BY DEF IInv, TypeOK, Versioned, MemberRow, Role
  <2>2. member' = [member EXCEPT ![u] = Written(r, member[u], v)]
    BY <1>3
  <2> HIDE DEF v
  <2>3. /\ member' \in [Users -> Versioned(MemberRow)]
        /\ member'[u].draft = v /\ member'[u].holder = r
        /\ \A w \in Users : w # u => member'[w] = member[w]
        /\ \A w \in Users : Touches(r, member[w], member'[w]) /\ member'[w].row = member[w].row
    BY <1>1, <2>1, <2>2, WriteMember DEF IInv
  <2>4. "commit" \in PC
    BY DEF PC
  <2>5. /\ pc' \in [Requests -> PC] /\ pc'[r] = "commit"
        /\ \A s \in Requests : s # r => pc'[s] = pc[s]
    BY <1>3, <2>4, GotoEffect DEF IInv
  <2>6. TypeOK'
    BY <1>3, <2>3, <2>5 DEF IInv, TypeOK
  <2>7. CallOK(r)'
    BY <1>1, <1>3, <2>5 DEF RequestOK, CallOK, Leaving
  <2>8. \A w \in Users : member[w].holder # r
    BY <1>1 DEF RequestOK, MemberHeld, Leaving
  <2>9. member[u].row = NoMember
    BY <1>1, <1>3, <2>8 DEF Sees
  <2>10. ASSUME NEW w \in Users PROVE MemberHeld(r, w)'
    BY <1>1, <1>3, <2>1, <2>3, <2>5, <2>8, <2>9 DEF MemberHeld
  <2>11. ASSUME NEW w \in Users PROVE InviteHeld(r, w)'
    BY <1>1, <1>3, <2>3, <2>5 DEF RequestOK, InviteHeld, Departing
  <2>12. GroupHeld(r)'
    BY <1>1, <1>3 DEF RequestOK, GroupHeld
  <2>13. \A w \in Users : /\ member'[w].draft.role = "none" => member'[w].draft = NoMember
                          /\ invite'[w].draft.status = "none" => invite'[w].draft = NoInvite
    BY <1>3, <2>1, <2>3 DEF IInv, RowsOK
  <2>14. RequestOK(r)'
    BY <2>7, <2>10, <2>11, <2>12 DEF RequestOK
  <2> QED
    BY <1>3, <2>3, <2>5, <2>6, <2>13, <2>14, Untouched, NothingCommitted
<1> QED
  BY <1>2, <1>3 DEF AcceptInsert

LEMMA InviteUpdateStep ==
  ASSUME IInv, NEW r \in Requests, InviteUpdate(r)
  PROVE  IInv'
<1> DEFINE u == call[r].target
           v == [Sees(r, invite[u]) EXCEPT !.status = "pending"]
<1>1. /\ pc[r] = "inviteUpdate" /\ u \in Users /\ RequestOK(r) /\ HoldsNothing(r)
      /\ call[r].op = "invite" /\ UNCHANGED <<group, member, call>>
  BY NoLocks DEF InviteUpdate, IInv, RequestOK, CallOK, Leaving
<1>2. "commit" \in PC
  BY DEF PC
<1>3. /\ pc' \in [Requests -> PC] /\ pc'[r] = "commit"
      /\ \A s \in Requests : s # r => pc'[s] = pc[s]
  BY <1>2, GotoEffect DEF IInv, InviteUpdate
<1>4. CallOK(r)'
  BY <1>1, <1>3 DEF RequestOK, CallOK, Leaving
<1>5. CASE UNCHANGED invite
  BY <1>1, <1>2, <1>4, <1>5, GoOn DEF InviteUpdate, Leaving
<1>6. CASE Free(r, invite[u]) /\ invite' = [invite EXCEPT ![u] = Written(r, invite[u], v)]
  <2>1. v \in InviteRow /\ v.status = "pending"
    <3>1. Sees(r, invite[u]) \in InviteRow
      BY <1>1 DEF IInv, TypeOK, Versioned, Sees
    <3> QED
      BY <3>1 DEF InviteRow, Status
  <2> HIDE DEF v
  <2>2. /\ invite' \in [Users -> Versioned(InviteRow)]
        /\ invite'[u].draft = v /\ invite'[u].holder = r
        /\ \A w \in Users : w # u => invite'[w] = invite[w]
        /\ \A w \in Users : Touches(r, invite[w], invite'[w]) /\ invite'[w].row = invite[w].row
    BY <1>1, <1>6, <2>1, WriteInvite DEF IInv
  <2>3. TypeOK'
    BY <1>1, <1>3, <2>2 DEF IInv, TypeOK
  <2>4. ASSUME NEW w \in Users PROVE MemberHeld(r, w)' /\ InviteHeld(r, w)'
    BY <1>1, <1>3, <2>1, <2>2 DEF MemberHeld, InviteHeld, HoldsNothing
  <2>5. RequestOK(r)'
    BY <1>1, <1>4, <2>4 DEF RequestOK, GroupHeld, HoldsNothing
  <2>6. \A w \in Users : /\ member'[w].draft.role = "none" => member'[w].draft = NoMember
                         /\ invite'[w].draft.status = "none" => invite'[w].draft = NoInvite
    BY <1>1, <2>1, <2>2 DEF IInv, RowsOK
  <2> QED
    BY <1>1, <1>3, <2>2, <2>3, <2>5, <2>6, Untouched, NothingCommitted
<1> QED
  BY <1>5, <1>6 DEF InviteUpdate

LEMMA InviteInsertStep ==
  ASSUME IInv, NEW r \in Requests, InviteInsert(r)
  PROVE  IInv'
<1> DEFINE u == call[r].target
<1>1. /\ pc[r] = "inviteInsert" /\ u \in Users /\ RequestOK(r) /\ HoldsNothing(r)
      /\ call[r].op = "invite" /\ UNCHANGED <<group, member>> /\ Free(r, invite[u])
  BY NoLocks DEF InviteInsert, IInv, RequestOK, CallOK, Leaving
<1>2. CASE End(r) /\ UNCHANGED invite
  BY <1>1, <1>2, EndRead DEF Leaving
<1>3. ASSUME NEW id \in InviteIds, Goto(r, "commit"), call' = call,
             invite' = [invite EXCEPT ![u] =
                          Written(r, invite[u], [status |-> "pending", id |-> id])]
      PROVE  IInv'
  <2> DEFINE v == [status |-> "pending", id |-> id]
  <2>1. v \in InviteRow /\ v.status = "pending"
    BY DEF InviteRow, Status
  <2>2. invite' = [invite EXCEPT ![u] = Written(r, invite[u], v)]
    BY <1>3
  <2> HIDE DEF v
  <2>3. /\ invite' \in [Users -> Versioned(InviteRow)]
        /\ invite'[u].draft = v /\ invite'[u].holder = r
        /\ \A w \in Users : w # u => invite'[w] = invite[w]
        /\ \A w \in Users : Touches(r, invite[w], invite'[w]) /\ invite'[w].row = invite[w].row
    BY <1>1, <2>1, <2>2, WriteInvite DEF IInv
  <2>4. "commit" \in PC
    BY DEF PC
  <2>5. /\ pc' \in [Requests -> PC] /\ pc'[r] = "commit"
        /\ \A s \in Requests : s # r => pc'[s] = pc[s]
    BY <1>3, <2>4, GotoEffect DEF IInv
  <2>6. TypeOK'
    BY <1>1, <1>3, <2>3, <2>5 DEF IInv, TypeOK
  <2>7. CallOK(r)'
    BY <1>1, <1>3, <2>5 DEF RequestOK, CallOK, Leaving
  <2>8. ASSUME NEW w \in Users PROVE MemberHeld(r, w)' /\ InviteHeld(r, w)'
    BY <1>1, <1>3, <2>1, <2>3, <2>5 DEF MemberHeld, InviteHeld, HoldsNothing
  <2>9. RequestOK(r)'
    BY <1>1, <2>7, <2>8 DEF RequestOK, GroupHeld, HoldsNothing
  <2>10. \A w \in Users : /\ member'[w].draft.role = "none" => member'[w].draft = NoMember
                          /\ invite'[w].draft.status = "none" => invite'[w].draft = NoInvite
    BY <1>1, <2>1, <2>3 DEF IInv, RowsOK
  <2> QED
    BY <1>1, <1>3, <2>3, <2>5, <2>6, <2>9, <2>10, Untouched, NothingCommitted
<1> QED
  BY <1>2, <1>3 DEF InviteInsert

LEMMA LeaveDeleteStep ==
  ASSUME IInv, NEW r \in Requests, LeaveDelete(r)
  PROVE  IInv'
<1> DEFINE u == call[r].target
<1>1. /\ pc[r] = "leaveDelete" /\ u \in Users /\ RequestOK(r) /\ HoldsNothing(r)
      /\ Departing(r) /\ UNCHANGED <<group, invite, call>>
  BY NoLocks DEF LeaveDelete, IInv, RequestOK, CallOK, Leaving
<1>2. "leaveInvite" \in PC
  BY DEF PC
<1>3. /\ pc' \in [Requests -> PC] /\ pc'[r] = "leaveInvite"
      /\ \A s \in Requests : s # r => pc'[s] = pc[s]
  BY <1>2, GotoEffect DEF IInv, LeaveDelete
<1>4. CallOK(r)'
  BY <1>1, <1>3 DEF RequestOK, CallOK, Leaving, Departing
<1>5. CASE UNCHANGED member
  BY <1>1, <1>2, <1>4, <1>5, GoOn DEF LeaveDelete, Leaving
<1>6. CASE Free(r, member[u]) /\ member' = [member EXCEPT ![u] = Written(r, member[u], NoMember)]
  <2>1. NoMember \in MemberRow
    BY DEF MemberRow, NoMember
  <2>2. /\ member' \in [Users -> Versioned(MemberRow)]
        /\ member'[u].draft = NoMember /\ member'[u].holder = r
        /\ \A w \in Users : w # u => member'[w] = member[w]
        /\ \A w \in Users : Touches(r, member[w], member'[w]) /\ member'[w].row = member[w].row
    BY <1>1, <1>6, <2>1, WriteMember DEF IInv
  <2>3. TypeOK'
    BY <1>1, <1>3, <2>2 DEF IInv, TypeOK
  <2>4. ASSUME NEW w \in Users PROVE MemberHeld(r, w)' /\ InviteHeld(r, w)'
    BY <1>1, <1>3, <2>2 DEF MemberHeld, InviteHeld, HoldsNothing, Departing, Leaving
  <2>5. RequestOK(r)'
    BY <1>1, <1>4, <2>4 DEF RequestOK, GroupHeld, HoldsNothing
  <2>6. \A w \in Users : /\ member'[w].draft.role = "none" => member'[w].draft = NoMember
                         /\ invite'[w].draft.status = "none" => invite'[w].draft = NoInvite
    BY <1>1, <2>2 DEF IInv, RowsOK
  <2> QED
    BY <1>1, <1>3, <2>2, <2>3, <2>5, <2>6, Untouched, NothingCommitted
<1> QED
  BY <1>5, <1>6 DEF LeaveDelete

(* What the requests of a departure hold before the last statement. *)
LEMMA DepartureHolds ==
  ASSUME IInv, NEW r \in Requests,
         pc[r] \in {"leaveInvite", "leaveList", "leaveInvites", "leaveGroup", "leavePromote"}
  PROVE  /\ RequestOK(r) /\ Departing(r) /\ call[r].target \in Users /\ group.holder # r
         /\ \A u \in Users : member[u].holder = r =>
              /\ call[r].target = u /\ member[u].draft = NoMember
              /\ pc[r] = "leaveInvite" \/ invite[u].holder = r \/ invite[u].row.status # "accepted"
         /\ \A u \in Users : invite[u].holder = r => invite[u].draft = NoInvite
<1>1. RequestOK(r)
  BY DEF IInv
<1>2. Departing(r) /\ call[r].target \in Users /\ group.holder # r
  BY <1>1 DEF RequestOK, CallOK, GroupHeld, Leaving
<1>3. ASSUME NEW u \in Users, member[u].holder = r
      PROVE  /\ call[r].target = u /\ member[u].draft = NoMember
             /\ pc[r] = "leaveInvite" \/ invite[u].holder = r \/ invite[u].row.status # "accepted"
  BY <1>1, <1>2, <1>3 DEF RequestOK, MemberHeld
<1>4. ASSUME NEW u \in Users, invite[u].holder = r PROVE invite[u].draft = NoInvite
  BY <1>1, <1>2, <1>4 DEF RequestOK, InviteHeld, Departing
<1> QED
  BY <1>1, <1>2, <1>3, <1>4

LEMMA DeleteEffect ==
  ASSUME TypeOK, NEW r \in Requests, NEW us \in SUBSET Users, DeleteInvites(r, us)
  PROVE  /\ invite' \in [Users -> Versioned(InviteRow)]
         /\ \A u \in Users : /\ Touches(r, invite[u], invite'[u])
                             /\ invite'[u].row = invite[u].row
                             /\ \/ u \in us /\ invite'[u].holder = r /\ invite'[u].draft = NoInvite
                                \/ invite'[u] = invite[u] /\ (u \in us => Sees(r, invite[u]) = NoInvite)
<1> DEFINE seen == {u \in us : Sees(r, invite[u]) # NoInvite}
<1>1. /\ \A u \in seen : Free(r, invite[u])
      /\ invite' = [u \in Users |-> IF u \in seen THEN Written(r, invite[u], NoInvite) ELSE invite[u]]
  BY DEF DeleteInvites
<1>2. NoInvite \in InviteRow
  BY DEF NoInvite, InviteRow
<1>3. ASSUME NEW u \in Users
      PROVE  /\ invite[u] \in Versioned(InviteRow)
             /\ Written(r, invite[u], NoInvite) \in Versioned(InviteRow)
             /\ Written(r, invite[u], NoInvite).row = invite[u].row
             /\ Written(r, invite[u], NoInvite).draft = NoInvite
             /\ Written(r, invite[u], NoInvite).holder = r
  BY <1>2, RowOps DEF TypeOK
<1>4. invite' \in [Users -> Versioned(InviteRow)]
  BY <1>1, <1>3
<1>5. ASSUME NEW u \in Users
      PROVE  /\ Touches(r, invite[u], invite'[u])
             /\ invite'[u].row = invite[u].row
             /\ \/ u \in us /\ invite'[u].holder = r /\ invite'[u].draft = NoInvite
                \/ invite'[u] = invite[u] /\ (u \in us => Sees(r, invite[u]) = NoInvite)
  <2>1. CASE u \in seen
    BY <1>1, <1>3, <2>1 DEF Touches, Free
  <2>2. CASE u \notin seen
    BY <1>1, <2>2, Untouched
  <2> QED
    BY <2>1, <2>2
<1> QED
  BY <1>4, <1>5

(* LeaveInvite and LeaveInvites. *)
LEMMA DeleteInvitesStep ==
  ASSUME IInv, NEW r \in Requests, pc[r] \in {"leaveInvite", "leaveInvites"},
         NEW us \in SUBSET Users, DeleteInvites(r, us), call[r].target \in us,
         NEW l \in {"leaveList", "leaveGroup"}, Goto(r, l), UNCHANGED <<group, member, call>>
  PROVE  IInv'
<1> DEFINE u == call[r].target
<1>1. /\ RequestOK(r) /\ Departing(r) /\ u \in Users /\ group.holder # r
      /\ \A w \in Users : member[w].holder = r => u = w /\ member[w].draft = NoMember
      /\ \A w \in Users : invite[w].holder = r => invite[w].draft = NoInvite
  BY DepartureHolds
<1>2. l \in PC
  BY DEF PC
<1>3. /\ pc' \in [Requests -> PC] /\ pc'[r] = l
      /\ \A s \in Requests : s # r => pc'[s] = pc[s]
  BY <1>2, GotoEffect DEF IInv
<1>4. /\ invite' \in [Users -> Versioned(InviteRow)]
      /\ \A w \in Users : /\ Touches(r, invite[w], invite'[w])
                          /\ invite'[w].row = invite[w].row
                          /\ \/ w \in us /\ invite'[w].holder = r /\ invite'[w].draft = NoInvite
                             \/ invite'[w] = invite[w] /\ (w \in us => Sees(r, invite[w]) = NoInvite)
  BY DeleteEffect DEF IInv
<1>5. TypeOK'
  BY <1>3, <1>4 DEF IInv, TypeOK
<1>6. CallOK(r)'
  BY <1>1, <1>3 DEF RequestOK, CallOK, Leaving, Departing
<1>7. invite'[u].holder = r \/ invite'[u].row.status # "accepted"
  BY <1>1, <1>4 DEF Sees, NoInvite
<1>8. ASSUME NEW w \in Users PROVE MemberHeld(r, w)'
  BY <1>1, <1>3, <1>7 DEF MemberHeld, Departing, Leaving
<1>9. ASSUME NEW w \in Users PROVE InviteHeld(r, w)'
  BY <1>1, <1>3, <1>4 DEF InviteHeld, Departing, Leaving
<1>10. RequestOK(r)'
  BY <1>1, <1>6, <1>8, <1>9 DEF RequestOK, GroupHeld
<1>11. \A w \in Users : /\ member'[w].draft.role = "none" => member'[w].draft = NoMember
                        /\ invite'[w].draft.status = "none" => invite'[w].draft = NoInvite
  BY <1>4 DEF IInv, RowsOK
<1> QED
  BY <1>3, <1>4, <1>5, <1>10, <1>11, Untouched, NothingCommitted

LEMMA LeaveInviteStep ==
  ASSUME IInv, NEW r \in Requests, LeaveInvite(r) \/ LeaveInvites(r)
  PROVE  IInv'
<1>1. pc[r] \in {"leaveInvite", "leaveInvites"} /\ call[r].target \in Users
  BY DepartureHolds DEF LeaveInvite, LeaveInvites
<1>2. CASE LeaveInvite(r)
  BY <1>1, <1>2, DeleteInvitesStep DEF LeaveInvite
<1>3. CASE LeaveInvites(r)
  BY <1>1, <1>3, DeleteInvitesStep DEF LeaveInvites
<1> QED
  BY <1>2, <1>3

LEMMA LeaveListStep ==
  ASSUME IInv, NEW r \in Requests, LeaveList(r)
  PROVE  IInv'
<1>1. pc[r] = "leaveList" /\ UNCHANGED <<group, member, invite>>
  BY DEF LeaveList
<1>2. PICK l \in {"leaveInvites", "commit", "leavePromote"}, heir \in Users \cup {Nobody} :
        /\ Goto(r, l)
        /\ call' = call \/ call' = [call EXCEPT ![r].heir = heir]
        /\ l = "leavePromote" => /\ heir \in Users /\ call[r].role = "owner"
                                 /\ call' = [call EXCEPT ![r].heir = heir]
  BY DEF LeaveList, Earliest
<1>3. l \in PC
  BY DEF PC
<1>4. /\ pc' \in [Requests -> PC] /\ pc'[r] = l
      /\ \A s \in Requests : s # r => pc'[s] = pc[s]
  BY <1>2, <1>3, GotoEffect DEF IInv
<1>5. /\ RequestOK(r) /\ Departing(r) /\ call[r].target \in Users /\ group.holder # r
      /\ \A u \in Users : member[u].holder = r =>
           /\ call[r].target = u /\ member[u].draft = NoMember
           /\ invite[u].holder = r \/ invite[u].row.status # "accepted"
      /\ \A u \in Users : invite[u].holder = r => invite[u].draft = NoInvite
  BY <1>1, DepartureHolds
<1>6. call[r] \in Call /\ [call[r] EXCEPT !.heir = heir] \in Call
  BY DEF IInv, TypeOK, Call
<1>7. /\ call' \in [Requests -> Call]
      /\ call'[r] = call[r] \/ call'[r] = [call[r] EXCEPT !.heir = heir]
      /\ l = "leavePromote" => call'[r] = [call[r] EXCEPT !.heir = heir]
      /\ \A s \in Requests : s # r => call'[s] = call[s]
  BY <1>2, <1>6 DEF IInv, TypeOK
<1>8. /\ call'[r].op = call[r].op /\ call'[r].by = call[r].by /\ call'[r].target = call[r].target
      /\ call'[r].role = call[r].role /\ (l = "leavePromote" => call'[r].heir = heir)
  BY <1>6, <1>7 DEF Call
<1>9. CallOK(r)'
  BY <1>2, <1>4, <1>5, <1>8 DEF RequestOK, CallOK, Leaving, Departing
<1>10. ASSUME NEW u \in Users PROVE MemberHeld(r, u)' /\ InviteHeld(r, u)'
  BY <1>1, <1>4, <1>5, <1>8 DEF MemberHeld, InviteHeld, Departing, Leaving
<1>11. RequestOK(r)'
  BY <1>1, <1>5, <1>9, <1>10 DEF RequestOK, GroupHeld
<1> QED
  BY <1>1, <1>4, <1>7, <1>11, NothingWritten

LEMMA LeaveGroupStep ==
  ASSUME IInv, NEW r \in Requests, LeaveGroup(r)
  PROVE  IInv'
<1>1. pc[r] = "leaveGroup" /\ UNCHANGED <<member, invite, call>>
  BY DEF LeaveGroup
<1>2. /\ RequestOK(r) /\ Departing(r) /\ call[r].target \in Users /\ group.holder # r
      /\ \A u \in Users : member[u].holder = r =>
           /\ call[r].target = u /\ member[u].draft = NoMember
           /\ invite[u].holder = r \/ invite[u].row.status # "accepted"
      /\ \A u \in Users : invite[u].holder = r => invite[u].draft = NoInvite
  BY <1>1, DepartureHolds
<1>3. "commit" \in PC
  BY DEF PC
<1>4. /\ pc' \in [Requests -> PC] /\ pc'[r] = "commit"
      /\ \A s \in Requests : s # r => pc'[s] = pc[s]
  BY <1>3, GotoEffect DEF IInv, LeaveGroup
<1>5. /\ group' \in Versioned(BOOLEAN) /\ Touches(r, group, group')
      /\ group'.holder = r => group'.draft = FALSE
  <2>1. CASE UNCHANGED group
    BY <1>2, <2>1, Untouched DEF IInv, TypeOK
  <2>2. CASE Free(r, group) /\ group' = Written(r, group, FALSE)
    BY <2>2 DEF IInv, TypeOK, Versioned, Written, Free, Touches
  <2> QED
    BY <2>1, <2>2 DEF LeaveGroup
<1>6. TypeOK'
  BY <1>1, <1>4, <1>5 DEF IInv, TypeOK
<1>7. CallOK(r)'
  BY <1>1, <1>2, <1>4 DEF RequestOK, CallOK, Leaving, Departing
<1>8. ASSUME NEW u \in Users PROVE MemberHeld(r, u)' /\ InviteHeld(r, u)'
  BY <1>1, <1>2, <1>4 DEF MemberHeld, InviteHeld, Departing, Leaving
<1>9. RequestOK(r)'
  BY <1>1, <1>2, <1>4, <1>5, <1>7, <1>8 DEF RequestOK, GroupHeld, Departing
<1>10. \A w \in Users : /\ member'[w].draft.role = "none" => member'[w].draft = NoMember
                        /\ invite'[w].draft.status = "none" => invite'[w].draft = NoInvite
  BY <1>1 DEF IInv, RowsOK
<1> QED
  BY <1>1, <1>4, <1>5, <1>6, <1>9, <1>10, Untouched, NothingCommitted

LEMMA LeavePromoteStep ==
  ASSUME IInv, NEW r \in Requests, LeavePromote(r)
  PROVE  IInv'
<1> DEFINE heir == call[r].heir
           v == [Sees(r, member[heir]) EXCEPT !.role = "owner"]
<1>1. pc[r] = "leavePromote" /\ UNCHANGED <<group, invite, call>>
  BY DEF LeavePromote
<1>2. /\ RequestOK(r) /\ Departing(r) /\ call[r].target \in Users /\ group.holder # r
      /\ \A u \in Users : member[u].holder = r =>
           /\ call[r].target = u /\ member[u].draft = NoMember
           /\ invite[u].holder = r \/ invite[u].row.status # "accepted"
      /\ \A u \in Users : invite[u].holder = r => invite[u].draft = NoInvite
  BY <1>1, DepartureHolds
<1>3. heir \in Users /\ call[r].role = "owner"
  BY <1>1, <1>2 DEF RequestOK, CallOK
<1>4. "commit" \in PC
  BY DEF PC
<1>5. /\ pc' \in [Requests -> PC] /\ pc'[r] = "commit"
      /\ \A s \in Requests : s # r => pc'[s] = pc[s]
  BY <1>4, GotoEffect DEF IInv, LeavePromote
<1>6. CallOK(r)'
  BY <1>1, <1>2, <1>5 DEF RequestOK, CallOK, Leaving, Departing
<1>7. ASSUME NEW u \in Users PROVE InviteHeld(r, u)'
  BY <1>1, <1>2, <1>5 DEF InviteHeld, Departing, Leaving
<1>8. CASE UNCHANGED member
  <2>1. ASSUME NEW u \in Users PROVE MemberHeld(r, u)'
    BY <1>1, <1>2, <1>5, <1>8 DEF MemberHeld, Departing, Leaving
  <2>2. RequestOK(r)'
    BY <1>1, <1>2, <1>6, <1>7, <2>1 DEF RequestOK, GroupHeld
  <2>3. call' \in [Requests -> Call]
    BY <1>1 DEF IInv, TypeOK
  <2> QED
    BY <1>1, <1>5, <1>8, <2>2, <2>3, NothingWritten
<1>9. CASE /\ Sees(r, member[heir]) # NoMember /\ Free(r, member[heir])
           /\ member' = [member EXCEPT ![heir] = Written(r, member[heir], v)]
  <2>1. v \in MemberRow /\ v.role = "owner"
    <3>1. Sees(r, member[heir]) \in MemberRow
      BY <1>3 DEF IInv, TypeOK, Versioned, Sees
    <3> QED
      BY <3>1 DEF MemberRow, Role
  <2> HIDE DEF v
  <2>2. /\ member' \in [Users -> Versioned(MemberRow)]
        /\ member'[heir].draft = v /\ member'[heir].holder = r
        /\ \A w \in Users : w # heir => member'[w] = member[w]
        /\ \A w \in Users : Touches(r, member[w], member'[w]) /\ member'[w].row = member[w].row
    BY <1>3, <1>9, <2>1, WriteMember DEF IInv
  <2>3. member[heir].row.role # "none"
    <3>1. member[heir].holder # r
      BY <1>2, <1>3, <1>9 DEF Sees
    <3> QED
      BY <1>3, <1>9, <3>1 DEF Sees, IInv, RowsOK
  <2>4. TypeOK'
    BY <1>1, <1>5, <2>2 DEF IInv, TypeOK
  <2>5. ASSUME NEW u \in Users PROVE MemberHeld(r, u)'
    <3>1. CASE u = heir
      BY <1>1, <1>2, <1>3, <1>5, <2>1, <2>2, <2>3, <3>1 DEF MemberHeld, Departing
    <3>2. CASE u # heir
      BY <1>1, <1>2, <1>5, <2>2, <3>2 DEF MemberHeld, Departing, Leaving
    <3> QED
      BY <3>1, <3>2
  <2>6. RequestOK(r)'
    BY <1>1, <1>2, <1>6, <1>7, <2>5 DEF RequestOK, GroupHeld
  <2>7. \A w \in Users : /\ member'[w].draft.role = "none" => member'[w].draft = NoMember
                         /\ invite'[w].draft.status = "none" => invite'[w].draft = NoInvite
    BY <1>1, <2>1, <2>2 DEF IInv, RowsOK
  <2> QED
    BY <1>1, <1>5, <2>2, <2>4, <2>6, <2>7, Untouched, NothingCommitted
<1> QED
  BY <1>8, <1>9 DEF LeavePromote

LEMMA Preserved == IInv /\ [Next]_vars => IInv'
<1> SUFFICES ASSUME IInv, [Next]_vars PROVE IInv'
  OBVIOUS
<1>1. CASE UNCHANGED vars
  <2>1. UNCHANGED <<group, member, invite, pc, call>>
    BY <1>1 DEF vars
  <2>2. TypeOK' /\ RowsOK' /\ AcceptedMeansMember'
    BY <2>1 DEF IInv, TypeOK, RowsOK, AcceptedMeansMember, RoleOf
  <2>3. ASSUME NEW r \in Requests PROVE RequestOK(r)'
    <3>1. RequestOK(r)
      BY DEF IInv
    <3>2. CallOK(r)' /\ GroupHeld(r)'
      BY <2>1, <3>1 DEF RequestOK, CallOK, GroupHeld, Departing
    <3>3. ASSUME NEW u \in Users PROVE MemberHeld(r, u)' /\ InviteHeld(r, u)'
      BY <2>1, <3>1 DEF RequestOK, MemberHeld, InviteHeld, Departing
    <3> QED
      BY <3>2, <3>3 DEF RequestOK
  <2> QED
    BY <2>2, <2>3 DEF IInv
<1>2. ASSUME NEW r \in Requests, NEW u \in Users,
             AcceptUpdate(r, u) \/ Decline(r, u) \/ Leave(r, u)
      PROVE  IInv'
  BY <1>2, AcceptUpdateStep, DeclineStep, LeaveStep
<1>3. ASSUME NEW r \in Requests, NEW by \in Users, NEW target \in Users,
             RequireGroupAdmin(r, by, target)
      PROVE  IInv'
  BY <1>3, RequireGroupAdminStep
<1>4. ASSUME NEW r \in Requests, CheckTarget(r) \/ CheckOwner(r) \/ SetRole(r)
      PROVE  IInv'
  BY <1>4, CheckTargetStep, CheckOwnerStep, SetRoleStep
<1>5. ASSUME NEW r \in Requests,
             InviteSelect(r) \/ InviteUpdate(r) \/ InviteInsert(r) \/ AcceptInsert(r)
      PROVE  IInv'
  BY <1>5, InviteSelectStep, InviteUpdateStep, InviteInsertStep, AcceptInsertStep
<1>6. ASSUME NEW r \in Requests,
             \/ LeaveSelect(r) \/ LeaveDelete(r) \/ LeaveInvite(r) \/ LeaveList(r)
             \/ LeaveInvites(r) \/ LeaveGroup(r) \/ LeavePromote(r)
      PROVE  IInv'
  BY <1>6, LeaveSelectStep, LeaveDeleteStep, LeaveInviteStep, LeaveListStep, LeaveGroupStep,
     LeavePromoteStep
<1>7. ASSUME NEW r \in Requests, Commit(r) PROVE IInv'
  BY <1>7, CommitStep
<1>8. ASSUME NEW r \in Requests, Cancel(r) PROVE IInv'
  BY <1>8, RollbackStep DEF Cancel
<1> QED
  BY <1>1, <1>2, <1>3, <1>4, <1>5, <1>6, <1>7, <1>8 DEF Next

LEMMA Reachable == Spec => []IInv
BY InitStep, Preserved, PTL DEF Spec

(***************************************************************************)
(* Every reachable state of the group's rows and requests is well typed.   *)
(***************************************************************************)
THEOREM TypeCorrect == Spec => []TypeOK
BY Reachable, PTL DEF IInv

(***************************************************************************)
(* However many requests overlap, an accepted invitation is a member's.    *)
(***************************************************************************)
THEOREM AcceptedAreMembers == Spec => []AcceptedMeansMember
BY Reachable, PTL DEF IInv

--------------------------------------------------------------------------------
(* What a step may do to a membership. *)

(* A committed role changes by UPDATE of a role or by a commit. *)
LEMMA RoleChange ==
  ASSUME IInv, [Next]_vars, NEW u \in Users, RoleOf(u)' # RoleOf(u)
  PROVE  \/ \E r \in Requests :
              /\ SetRole(r) /\ RoleOf(u) \notin {"none", "owner"}
              /\ RoleOf(u)' \in {"admin", "member"}
         \/ \E r \in Requests :
              /\ Commit(r) /\ member[u].holder = r /\ RoleOf(u)' = member[u].draft.role
              /\ \A w \in Users : invite[w].holder = r => invite'[w].row = invite[w].draft
<1> USE DEF IInv
<1>1. ~UNCHANGED member
  BY DEF RoleOf
<1>2. ASSUME NEW r \in Requests, SetRole(r)
      PROVE  RoleOf(u) \notin {"none", "owner"} /\ RoleOf(u)' \in {"admin", "member"}
  <2> DEFINE t == call[r].target
             v == [member[t].row EXCEPT !.role = call[r].role]
  <2>1. call[r].role \in {"admin", "member"} /\ t \in Users
    BY <1>2 DEF SetRole, RequestOK, CallOK
  <2>2. /\ RoleOf(t) \notin {"none", "owner"} /\ Free(r, member[t])
        /\ member' = [member EXCEPT ![t] = Committed(v)]
    BY <1>1, <1>2 DEF SetRole, RoleOf
  <2>3. v \in MemberRow /\ v.role \in {"admin", "member"}
    <3>1. member[t].row \in MemberRow
      BY <2>1 DEF TypeOK, Versioned
    <3> QED
      BY <2>1, <3>1 DEF MemberRow, Role
  <2> HIDE DEF v
  <2>4. member'[t].row = v /\ \A w \in Users : w # t => member'[w] = member[w]
    <3>1. Committed(v).row = v
      BY DEF Committed
    <3> QED
      BY <2>1, <2>2, <3>1 DEF TypeOK
  <2>5. u = t
    BY <2>4 DEF RoleOf
  <2> QED
    BY <2>2, <2>3, <2>4, <2>5 DEF RoleOf
<1>3. ASSUME NEW r \in Requests, Commit(r)
      PROVE  /\ member[u].holder = r /\ RoleOf(u)' = member[u].draft.role
             /\ \A w \in Users : invite[w].holder = r => invite'[w].row = invite[w].draft
  <2>1. Settle(r, TRUE)
    BY <1>3 DEF Commit
  <2>2. member'[u].row = Sees(r, member[u])
    BY <2>1, CommitEffect
  <2>3. ASSUME NEW w \in Users PROVE invite'[w].row = Sees(r, invite[w])
    BY <2>1, CommitEffect
  <2> QED
    BY <2>2, <2>3 DEF RoleOf, Sees
<1>4. ASSUME NEW r \in Requests, Settle(r, FALSE) PROVE FALSE
  BY <1>4, SettleEffect DEF RoleOf
<1>5. ASSUME \A w \in Users : member'[w].row = member[w].row PROVE FALSE
  BY <1>5 DEF RoleOf
<1>6. ASSUME NEW r \in Requests, AcceptInsert(r) PROVE FALSE
  <2> DEFINE t == call[r].target
  <2>1. t \in Users /\ Free(r, member[t])
    BY <1>6 DEF AcceptInsert, RequestOK, CallOK
  <2>2. PICK now \in Times :
          member' = [member EXCEPT ![t] =
                       Written(r, member[t], [role |-> "member", joined |-> now])]
    BY <1>4, <1>6 DEF AcceptInsert
  <2>3. [role |-> "member", joined |-> now] \in MemberRow
    BY DEF MemberRow, Role
  <2> QED
    BY <1>5, <2>1, <2>2, <2>3, WriteMember
<1>7. ASSUME NEW r \in Requests, LeaveDelete(r) PROVE FALSE
  <2> DEFINE t == call[r].target
  <2>1. t \in Users
    BY <1>7 DEF LeaveDelete, RequestOK, CallOK
  <2>2. Free(r, member[t]) /\ member' = [member EXCEPT ![t] = Written(r, member[t], NoMember)]
    BY <1>1, <1>7 DEF LeaveDelete
  <2>3. NoMember \in MemberRow
    BY DEF MemberRow, NoMember
  <2> QED
    BY <1>5, <2>1, <2>2, <2>3, WriteMember
<1>8. ASSUME NEW r \in Requests, LeavePromote(r) PROVE FALSE
  <2> DEFINE t == call[r].heir
             v == [Sees(r, member[t]) EXCEPT !.role = "owner"]
  <2>1. t \in Users
    BY <1>8 DEF LeavePromote, RequestOK, CallOK
  <2>2. Free(r, member[t]) /\ member' = [member EXCEPT ![t] = Written(r, member[t], v)]
    BY <1>1, <1>8 DEF LeavePromote
  <2>3. v \in MemberRow
    <3>1. Sees(r, member[t]) \in MemberRow
      BY <2>1 DEF TypeOK, Versioned, Sees
    <3> QED
      BY <3>1 DEF MemberRow, Role
  <2> HIDE DEF v
  <2> QED
    BY <1>5, <2>1, <2>2, <2>3, WriteMember
<1>9. \E r \in Requests : \/ SetRole(r) \/ Commit(r) \/ Settle(r, FALSE)
                          \/ AcceptInsert(r) \/ LeaveDelete(r) \/ LeavePromote(r)
  BY <1>1 DEF Next, vars, AcceptUpdate, Decline, Leave, RequireGroupAdmin, CheckTarget, CheckOwner,
     InviteSelect, InviteUpdate, InviteInsert, LeaveSelect, LeaveInvite, LeaveList, LeaveInvites,
     LeaveGroup, Cancel
<1> QED
  BY <1>2, <1>3, <1>4, <1>6, <1>7, <1>8, <1>9

(* What the transaction that holds a membership row at its commit writes. *)
LEMMA CommitWrites ==
  ASSUME IInv, NEW r \in Requests, pc[r] = "commit", NEW u \in Users, member[u].holder = r
  PROVE  \/ /\ call[r].op = "accept" /\ call[r].by = u
            /\ RoleOf(u) = "none" /\ member[u].draft.role = "member"
            /\ invite[u].holder = r /\ invite[u].row.status = "pending"
            /\ invite[u].draft.status = "accepted"
         \/ member[u].draft.role = "none"
         \/ /\ call[r].op \in {"leave", "remove"} /\ call[r].role = "owner" /\ call[r].heir = u
            /\ RoleOf(u) # "none" /\ member[u].draft.role = "owner"
<1>1. RequestOK(r)
  BY DEF IInv
<1>2. MemberHeld(r, u) /\ InviteHeld(r, u) /\ CallOK(r)
  BY <1>1 DEF RequestOK
<1> QED
  BY <1>2 DEF MemberHeld, InviteHeld, CallOK, Departing, NoMember, RoleOf

(***************************************************************************)
(* However many requests overlap, a user joins only by a commit of their   *)
(* own acceptance, of an invitation that is pending until that commit.     *)
(***************************************************************************)
THEOREM NobodyJoinsUnasked == Spec => JoinByConsent
<1>1. ASSUME IInv, [Next]_vars, NEW u \in Users, RoleOf(u) = "none", RoleOf(u)' # "none"
      PROVE  /\ invite[u].row.status = "pending"
             /\ invite'[u].row.status = "accepted"
             /\ \E r \in Requests : Requesting(r, "accept") /\ call[r].by = u
  <2>1. PICK r \in Requests :
          /\ Commit(r) /\ member[u].holder = r /\ RoleOf(u)' = member[u].draft.role
          /\ \A w \in Users : invite[w].holder = r => invite'[w].row = invite[w].draft
    BY <1>1, RoleChange
  <2>2. pc[r] = "commit"
    BY <2>1 DEF Commit
  <2> QED
    BY <1>1, <2>1, <2>2, CommitWrites DEF Requesting
<1>2. IInv /\ [Next]_vars =>
        [\A u \in Users : RoleOf(u) = "none" /\ RoleOf(u)' # "none" =>
           /\ invite[u].row.status = "pending"
           /\ invite'[u].row.status = "accepted"
           /\ \E r \in Requests : Requesting(r, "accept") /\ call[r].by = u]_vars
  BY <1>1
<1> QED
  BY <1>2, Reachable, PTL DEF Spec, JoinByConsent

(***************************************************************************)
(* However many requests overlap, an owner stays one until leaving.        *)
(***************************************************************************)
THEOREM OwnersAreNotDemoted == Spec => OwnerIsNotDemoted
<1>1. ASSUME IInv, [Next]_vars, NEW u \in Users, RoleOf(u) = "owner"
      PROVE  RoleOf(u)' \in {"owner", "none"}
  <2>1. CASE RoleOf(u)' = RoleOf(u)
    BY <1>1, <2>1
  <2>2. CASE RoleOf(u)' # RoleOf(u)
    <3>1. PICK r \in Requests :
            Commit(r) /\ member[u].holder = r /\ RoleOf(u)' = member[u].draft.role
      BY <1>1, <2>2, RoleChange
    <3>2. pc[r] = "commit"
      BY <3>1 DEF Commit
    <3> QED
      BY <1>1, <3>1, <3>2, CommitWrites
  <2> QED
    BY <2>1, <2>2
<1>2. IInv /\ [Next]_vars =>
        [\A u \in Users : RoleOf(u) = "owner" => RoleOf(u)' \in {"owner", "none"}]_vars
  BY <1>1
<1> QED
  BY <1>2, Reachable, PTL DEF Spec, OwnerIsNotDemoted

(***************************************************************************)
(* However many requests overlap, ownership comes only from the departure  *)
(* of a user who was an owner, and to a user who is a member.              *)
(***************************************************************************)
THEOREM OwnersSucceedOwners == Spec => OwnerBySuccession
<1>1. ASSUME IInv, [Next]_vars, NEW u \in Users, RoleOf(u) # "owner", RoleOf(u)' = "owner"
      PROVE  /\ RoleOf(u) # "none"
             /\ \E r \in Requests : /\ Requesting(r, "leave") \/ Requesting(r, "remove")
                                    /\ call[r].role = "owner"
                                    /\ call[r].heir = u
  <2>1. PICK r \in Requests :
          Commit(r) /\ member[u].holder = r /\ RoleOf(u)' = member[u].draft.role
    BY <1>1, RoleChange
  <2>2. pc[r] = "commit"
    BY <2>1 DEF Commit
  <2> QED
    BY <1>1, <2>1, <2>2, CommitWrites DEF Requesting
<1>2. IInv /\ [Next]_vars =>
        [\A u \in Users : RoleOf(u) # "owner" /\ RoleOf(u)' = "owner" =>
           /\ RoleOf(u) # "none"
           /\ \E r \in Requests : /\ Requesting(r, "leave") \/ Requesting(r, "remove")
                                  /\ call[r].role = "owner"
                                  /\ call[r].heir = u]_vars
  BY <1>1
<1> QED
  BY <1>2, Reachable, PTL DEF Spec, OwnerBySuccession

--------------------------------------------------------------------------------
(* Requests that do not overlap: each step prepares what the commit does. *)

(* What is committed stays as it is. *)
RowsKept ==
  /\ group'.row = group.row
  /\ \A u \in Users : member'[u].row = member[u].row /\ invite'[u].row = invite[u].row

LEMMA IdleSerial ==
  ASSUME IInv', NEW r \in Requests, pc'[r] = "idle"
  PROVE  SerialOK(r)'
<1>1. RequestOK(r)'
  BY DEF IInv
<1>2. \A u \in Users : member'[u].holder # r /\ invite'[u].holder # r
  BY <1>1 DEF RequestOK, MemberHeld, InviteHeld, Leaving
<1>3. OnlyHolds(r, {}, {})'
  BY <1>2 DEF OnlyHolds, Same, Sees
<1> QED
  BY <1>3 DEF SerialOK, Checked, Progress, Outcome, Leaving

(* The requests at rest have nothing to prepare. *)
LEMMA OneAtWork ==
  ASSUME IInv', NoOverlap, NoOverlap', NEW r \in Requests, SerialOK(r)',
         pc[r] # "idle" \/ pc'[r] # "idle",
         \A s \in Requests : s # r => pc'[s] = pc[s]
  PROVE  SerialInv'
<1>1. \A s \in Requests : s # r => pc'[s] = "idle"
  BY DEF NoOverlap
<1> QED
  BY <1>1, IdleSerial DEF SerialInv

LEMMA SerialInit == Init => SerialInv
<1> SUFFICES ASSUME Init, NEW r \in Requests PROVE SerialOK(r)
  BY DEF SerialInv
<1>1. pc[r] = "idle" /\ \A u \in Users : member[u].holder # r /\ invite[u].holder # r
  BY GroupStoreAssumption DEF Init, Committed
<1>2. OnlyHolds(r, {}, {})
  BY <1>1 DEF OnlyHolds, Same, Sees
<1> QED
  BY <1>1, <1>2 DEF SerialOK, Checked, Progress, Outcome, Leaving

(* Steps that only read. *)
LEMMA ReadKeeps ==
  ASSUME UNCHANGED <<group, member, invite>>
  PROVE  /\ RowsKept
         /\ \A u : RoleOf(u)' = RoleOf(u) /\ IsAdmin(u)' = IsAdmin(u)
         /\ \A r : Same(r, group)' = Same(r, group)
         /\ \A r, us, vs : OnlyHolds(r, us, vs)' = OnlyHolds(r, us, vs)
BY DEF RowsKept, RoleOf, IsAdmin, Same, Sees, OnlyHolds

LEMMA StartSerial ==
  ASSUME IInv, NEW r \in Requests, NEW by \in Users, NEW u \in Users,
         RequireGroupAdmin(r, by, u) \/ Leave(r, u)
  PROVE  SerialOK(r)' /\ RowsKept /\ pc'[r] # "idle"
<1>1. HoldsNothing(r) /\ UNCHANGED <<group, member, invite>>
  BY NoLocks DEF RequireGroupAdmin, Leave, Start, Leaving
<1>2. OnlyHolds(r, {}, {})' /\ RowsKept
  BY <1>1 DEF HoldsNothing, OnlyHolds, Same, Sees, RowsKept
<1>3. CASE RequireGroupAdmin(r, by, u)
  <2>1. PICK op \in {"invite", "remove", "role"}, role \in {"none", "admin", "member"} :
          /\ Start(r, "checkTarget", op, by, u, role)
          /\ op = "remove" => by # u
    BY <1>3 DEF RequireGroupAdmin
  <2>2. "checkTarget" \in PC /\ op \in Op /\ role \in Role \cup {"none"}
    BY DEF PC, Op, Role
  <2>3. /\ pc'[r] = "checkTarget"
        /\ call'[r].op = op /\ call'[r].by = by /\ call'[r].target = u
    BY <2>1, <2>2, StartEffect DEF IInv
  <2>4. IsAdmin(by)'
    BY <1>1, <1>3 DEF RequireGroupAdmin, IsAdmin, RoleOf
  <2> QED
    BY <1>2, <2>1, <2>3, <2>4 DEF SerialOK, Checked, Progress, Outcome, Leaving
<1>4. CASE Leave(r, u)
  <2>1. "leaveSelect" \in PC /\ "leave" \in Op /\ "none" \in Role \cup {"none"}
    BY DEF PC, Op
  <2>2. pc'[r] = "leaveSelect" /\ call'[r].op = "leave"
    BY <1>4, <2>1, StartEffect DEF IInv, Leave
  <2> QED
    BY <1>2, <2>2 DEF SerialOK, Checked, Progress, Outcome, Leaving
<1> QED
  BY <1>3, <1>4

(* A step that goes on reading with the same parameters. *)
LEMMA CheckSerial ==
  ASSUME IInv, NEW r \in Requests, SerialOK(r), CheckTarget(r) \/ CheckOwner(r), pc'[r] # "idle"
  PROVE  SerialOK(r)' /\ RowsKept
<1>1. pc[r] \in {"checkTarget", "checkOwner"} /\ UNCHANGED <<group, member, invite>>
  BY DEF CheckTarget, CheckOwner
<1>2. /\ RequestOK(r) /\ call[r].target \in Users /\ Checked(r) /\ OnlyHolds(r, {}, {})
      /\ pc \in [Requests -> PC]
  BY <1>1 DEF IInv, TypeOK, RequestOK, CallOK, SerialOK, Progress
<1>3. OnlyHolds(r, {}, {})' /\ RowsKept
      /\ \A u : RoleOf(u)' = RoleOf(u) /\ IsAdmin(u)' = IsAdmin(u)
  BY <1>1, <1>2, ReadKeeps
<1>4. RoleOf(call[r].target) \in Role \cup {"none"}
  BY <1>2 DEF IInv, TypeOK, Versioned, MemberRow, RoleOf
<1>5. CASE CheckTarget(r)
  <2> DEFINE role == RoleOf(call[r].target)
             op == call[r].op
  <2>1. pc[r] = "checkTarget" /\ op \in {"invite", "role", "remove"}
    BY <1>2, <1>5 DEF CheckTarget, RequestOK, CallOK
  <2>2. ~End(r)
    BY <1>2 DEF End, Goto
  <2>3. (op = "invite") = (role = "none") /\ role # "owner" /\ call' = call
    BY <1>5, <2>2 DEF CheckTarget
  <2>4. pc'[r] = CASE op = "invite" -> "inviteSelect"
                   [] op = "role" -> "setRole"
                   [] op = "remove" -> IF role = "admin" THEN "checkOwner" ELSE "leaveSelect"
    BY <1>2, <1>5, <2>2 DEF CheckTarget, Goto
  <2>5. call[r].by \in Users /\ IsAdmin(call[r].by) /\ (op = "remove" => call[r].by # call[r].target)
    BY <1>2, <2>1 DEF Checked
  <2>6. CASE op = "invite" /\ pc'[r] = "inviteSelect"
    BY <1>3, <2>3, <2>5, <2>6 DEF SerialOK, Checked, Progress, Outcome, Leaving
  <2>7. CASE op = "role" /\ pc'[r] = "setRole"
    BY <1>3, <1>4, <2>3, <2>5, <2>7 DEF SerialOK, Checked, Progress, Outcome, Leaving, Role
  <2>8. CASE op = "remove" /\ role = "admin" /\ pc'[r] = "checkOwner"
    BY <1>3, <2>3, <2>5, <2>8 DEF SerialOK, Checked, Progress, Outcome, Leaving
  <2>9. CASE op = "remove" /\ role # "admin" /\ pc'[r] = "leaveSelect"
    <3>1. role = "member"
      BY <1>4, <2>3, <2>9 DEF Role
    <3>2. MayDepart(r)'
      BY <1>3, <2>3, <2>5, <2>9, <3>1 DEF MayDepart
    <3> QED
      BY <1>3, <2>9, <3>2 DEF SerialOK, Checked, Progress, Outcome, Leaving
  <2> QED
    BY <2>1, <2>4, <2>6, <2>7, <2>8, <2>9
<1>6. CASE CheckOwner(r)
  <2>1. pc'[r] = "leaveSelect" /\ call' = call /\ RoleOf(call[r].by) = "owner" /\ pc[r] = "checkOwner"
    BY <1>2, <1>6 DEF CheckOwner, End, Goto
  <2>2. /\ call[r].by \in Users /\ call[r].by # call[r].target /\ RoleOf(call[r].target) = "admin"
        /\ call[r].op = "remove"
    BY <1>2, <2>1 DEF Checked, RequestOK, CallOK
  <2>3. MayDepart(r)'
    BY <1>3, <2>1, <2>2 DEF MayDepart
  <2> QED
    BY <1>3, <2>1, <2>3 DEF SerialOK, Checked, Progress, Outcome, Leaving
<1> QED
  BY <1>5, <1>6

(* The first write to an invitation. *)
LEMMA InviteHeldAlone ==
  ASSUME NEW r \in Requests, HoldsNothing(r), UNCHANGED <<group, member>>, NEW u \in Users,
         \A w \in Users : w # u => invite'[w] = invite[w],
         \A w \in Users : invite'[w].row = invite[w].row
  PROVE  /\ RowsKept /\ Same(r, group)' /\ OnlyHolds(r, {}, {u})'
         /\ \A w : RoleOf(w)' = RoleOf(w) /\ IsAdmin(w)' = IsAdmin(w)
<1>1. \A w \in Users : Same(r, member[w])'
  BY DEF HoldsNothing, Same, Sees
<1>2. \A w \in Users : w # u => Same(r, invite[w])'
  BY DEF HoldsNothing, Same, Sees
<1> QED
  BY <1>1, <1>2 DEF HoldsNothing, RowsKept, Same, Sees, OnlyHolds, RoleOf, IsAdmin

LEMMA InviteSelectSerial ==
  ASSUME IInv, NEW r \in Requests, SerialOK(r), InviteSelect(r), pc'[r] # "idle"
  PROVE  SerialOK(r)' /\ RowsKept
<1> DEFINE u == call[r].target
           existing == Sees(r, invite[u])
<1>1. pc[r] = "inviteSelect" /\ UNCHANGED <<group, member, invite>>
  BY DEF InviteSelect
<1>2. /\ RequestOK(r) /\ u \in Users /\ call[r].op = "invite" /\ OnlyHolds(r, {}, {})
      /\ call[r].by \in Users /\ IsAdmin(call[r].by) /\ RoleOf(u) = "none"
      /\ pc \in [Requests -> PC] /\ call \in [Requests -> Call]
  BY <1>1 DEF IInv, TypeOK, RequestOK, CallOK, SerialOK, Checked, Progress
<1>3. OnlyHolds(r, {}, {})' /\ RowsKept
      /\ \A w : RoleOf(w)' = RoleOf(w) /\ IsAdmin(w)' = IsAdmin(w)
  BY <1>1, <1>2, ReadKeeps
<1>4. ~End(r)
  BY <1>2 DEF End, Goto
<1>5. CASE Goto(r, "inviteInsert") /\ call' = call
  <2>1. pc'[r] = "inviteInsert"
    BY <1>2, <1>5 DEF Goto
  <2> QED
    BY <1>2, <1>3, <1>5, <2>1 DEF SerialOK, Checked, Progress, Outcome, Leaving
<1>6. CASE Goto(r, "inviteUpdate") /\ call' = [call EXCEPT ![r].id = existing.id]
  <2>1. existing = invite[u].row
    BY <1>2 DEF OnlyHolds, Same
  <2>2. pc'[r] = "inviteUpdate"
    BY <1>2, <1>6 DEF Goto
  <2>3. call'[r].by = call[r].by /\ call'[r].target = u /\ call'[r].id = invite[u].row.id
    BY <1>2, <1>6, <2>1 DEF Call
  <2>4. invite'[u].row.id = call'[r].id
    BY <1>1, <2>3
  <2> QED
    BY <1>2, <1>3, <2>2, <2>3, <2>4 DEF SerialOK, Checked, Progress, Outcome, Leaving
<1> QED
  BY <1>4, <1>5, <1>6 DEF InviteSelect

LEMMA InviteWriteSerial ==
  ASSUME IInv, NEW r \in Requests, SerialOK(r), InviteUpdate(r) \/ InviteInsert(r), pc'[r] # "idle"
  PROVE  SerialOK(r)' /\ RowsKept
<1>1. pc[r] \in {"inviteUpdate", "inviteInsert"} /\ UNCHANGED <<group, member>>
  BY DEF InviteUpdate, InviteInsert
<1>2. PICK u \in Users :
         /\ u = call[r].target /\ RequestOK(r) /\ call[r].op = "invite" /\ OnlyHolds(r, {}, {})
         /\ call[r].by \in Users /\ IsAdmin(call[r].by) /\ RoleOf(u) = "none"
         /\ pc[r] = "inviteUpdate" => invite[u].row.id = call[r].id
         /\ pc \in [Requests -> PC] /\ call \in [Requests -> Call]
  BY <1>1 DEF IInv, TypeOK, RequestOK, CallOK, SerialOK, Checked, Progress
<1>3. HoldsNothing(r)
  BY <1>1, NoLocks DEF Leaving
<1>4. ~End(r)
  BY <1>2 DEF End, Goto
<1>5. PICK v \in InviteRow : /\ Free(r, invite[u]) /\ Goto(r, "commit") /\ call' = call
                             /\ invite' = [invite EXCEPT ![u] = Written(r, invite[u], v)]
  <2>1. CASE InviteUpdate(r)
    <3> DEFINE w == [Sees(r, invite[u]) EXCEPT !.status = "pending"]
    <3>1. Sees(r, invite[u]) = invite[u].row /\ invite[u].row \in InviteRow
      BY <1>2 DEF OnlyHolds, Same, IInv, TypeOK, Versioned
    <3>2. w \in InviteRow
      <4>1. Sees(r, invite[u]) \in InviteRow
        BY <3>1
      <4> QED
        BY <4>1 DEF InviteRow, Status
    <3>3. Sees(r, invite[u]).id = call[r].id
      BY <1>2, <2>1, <3>1 DEF InviteUpdate
    <3> QED
      BY <1>2, <2>1, <3>2, <3>3 DEF InviteUpdate
  <2>2. CASE InviteInsert(r)
    <3>1. PICK id \in InviteIds :
            invite' = [invite EXCEPT ![u] = Written(r, invite[u], [status |-> "pending", id |-> id])]
      BY <1>2, <1>4, <2>2 DEF InviteInsert
    <3>2. [status |-> "pending", id |-> id] \in InviteRow
      BY DEF InviteRow, Status
    <3> QED
      BY <1>2, <1>4, <2>2, <3>1, <3>2 DEF InviteInsert
  <2> QED
    BY <2>1, <2>2
<1>6. /\ invite'[u].holder = r
      /\ \A w \in Users : w # u => invite'[w] = invite[w]
      /\ \A w \in Users : invite'[w].row = invite[w].row
  BY <1>5, WriteInvite DEF IInv
<1>7. /\ RowsKept /\ Same(r, group)' /\ OnlyHolds(r, {}, {u})'
      /\ \A w : RoleOf(w)' = RoleOf(w) /\ IsAdmin(w)' = IsAdmin(w)
  BY <1>1, <1>3, <1>6, InviteHeldAlone
<1>8. pc'[r] = "commit" /\ call' = call
  BY <1>2, <1>5 DEF Goto
<1>9. Outcome(r)'
  BY <1>2, <1>6, <1>7, <1>8 DEF Outcome
<1> QED
  BY <1>7, <1>8, <1>9 DEF SerialOK, Checked, Progress, Leaving

LEMMA AcceptUpdateSerial ==
  ASSUME IInv, NEW r \in Requests, NEW u \in Users, AcceptUpdate(r, u)
  PROVE  SerialOK(r)' /\ RowsKept /\ pc'[r] # "idle"
<1> DEFINE v == [invite[u].row EXCEPT !.status = "accepted"]
<1>1. "acceptInsert" \in PC /\ "accept" \in Op /\ "none" \in Role \cup {"none"}
  BY DEF PC, Op
<1>2. pc[r] = "idle" /\ pc'[r] = "acceptInsert" /\ call'[r].target = u
  BY <1>1, StartEffect DEF IInv, AcceptUpdate
<1>3. /\ HoldsNothing(r) /\ Free(r, invite[u]) /\ UNCHANGED <<group, member>>
      /\ invite' = [invite EXCEPT ![u] = Written(r, invite[u], v)]
  BY <1>2, NoLocks DEF AcceptUpdate, Leaving
<1>4. v \in InviteRow
  <2>1. invite[u].row \in InviteRow
    BY DEF IInv, TypeOK, Versioned
  <2> QED
    BY <2>1 DEF InviteRow, Status
<1> HIDE DEF v
<1>5. /\ \A w \in Users : w # u => invite'[w] = invite[w]
      /\ \A w \in Users : invite'[w].row = invite[w].row
  BY <1>3, <1>4, WriteInvite DEF IInv
<1>6. RowsKept /\ OnlyHolds(r, {}, {u})'
  BY <1>3, <1>5, InviteHeldAlone
<1> QED
  BY <1>2, <1>6 DEF SerialOK, Checked, Progress, Outcome, Leaving

(* A write to a membership by a request that may hold others already. *)
LEMMA MemberWritten ==
  ASSUME NEW r \in Requests, NEW us \in SUBSET Users, NEW vs \in SUBSET Users,
         OnlyHolds(r, us, vs), UNCHANGED <<group, invite>>, NEW u \in Users,
         \A w \in Users : w # u => member'[w] = member[w],
         \A w \in Users : member'[w].row = member[w].row
  PROVE  /\ RowsKept /\ OnlyHolds(r, us \cup {u}, vs)'
         /\ Same(r, group) => Same(r, group)'
         /\ \A w \in Users : RoleOf(w)' = RoleOf(w) /\ IsAdmin(w)' = IsAdmin(w)
<1>1. \A w \in Users \ (us \cup {u}) : Same(r, member[w])'
  BY DEF OnlyHolds, Same, Sees
<1>2. \A w \in Users \ vs : Same(r, invite[w])'
  BY DEF OnlyHolds, Same, Sees
<1> QED
  BY <1>1, <1>2 DEF RowsKept, Same, Sees, OnlyHolds, RoleOf, IsAdmin

LEMMA AcceptInsertSerial ==
  ASSUME IInv, NEW r \in Requests, SerialOK(r), AcceptInsert(r), pc'[r] # "idle"
  PROVE  SerialOK(r)' /\ RowsKept
<1>1. pc[r] = "acceptInsert" /\ pc \in [Requests -> PC] /\ ~End(r)
  BY DEF AcceptInsert, IInv, TypeOK, End, Goto
<1>2. PICK u \in Users :
         /\ u = call[r].target /\ RequestOK(r) /\ call[r].op = "accept"
         /\ invite[u].holder = r /\ OnlyHolds(r, {}, {u}) /\ Free(r, member[u])
  BY <1>1 DEF AcceptInsert, IInv, RequestOK, CallOK, SerialOK, Progress
<1>3. invite[u].row.status = "pending" /\ invite[u].draft.status = "accepted"
  BY <1>1, <1>2 DEF RequestOK, InviteHeld, Departing, Leaving
<1>4. group.holder # r
  BY <1>1, <1>2 DEF RequestOK, GroupHeld
<1>5. PICK now \in Times :
        member' = [member EXCEPT ![u] = Written(r, member[u], [role |-> "member", joined |-> now])]
  BY <1>1, <1>2 DEF AcceptInsert
<1>6. Goto(r, "commit") /\ UNCHANGED <<group, invite, call>>
  BY <1>1 DEF AcceptInsert
<1> DEFINE v == [role |-> "member", joined |-> now]
<1>7. v \in MemberRow /\ v.role = "member" /\ v.joined = now
  BY DEF MemberRow, Role
<1>8. member' = [member EXCEPT ![u] = Written(r, member[u], v)]
  BY <1>5
<1> HIDE DEF v
<1>9. /\ member'[u].draft = v /\ member'[u].holder = r
      /\ \A w \in Users : w # u => member'[w] = member[w]
      /\ \A w \in Users : member'[w].row = member[w].row
  <2>1. TypeOK /\ Free(r, member[u])
    BY <1>2 DEF IInv
  <2> QED
    BY <1>7, <1>8, <2>1, WriteMember
<1>10. RowsKept /\ OnlyHolds(r, {u}, {u})'
  <2>1. {} \in SUBSET Users /\ {u} \in SUBSET Users /\ {} \cup {u} = {u}
    BY <1>2
  <2>2. RowsKept /\ OnlyHolds(r, {} \cup {u}, {u})'
    BY <1>2, <1>6, <1>9, <2>1, MemberWritten
  <2> QED
    BY <2>1, <2>2
<1>11. Sees(r, member[u])' = v /\ Sees(r, invite[u])' = invite[u].draft /\ Same(r, group)'
  BY <1>2, <1>4, <1>6, <1>9 DEF Sees, Same
<1>12. pc'[r] = "commit"
  BY <1>1, <1>6 DEF Goto
<1>13. Outcome(r)'
  BY <1>2, <1>3, <1>6, <1>7, <1>10, <1>11, <1>12 DEF Outcome
<1> QED
  BY <1>10, <1>12, <1>13 DEF SerialOK, Checked, Progress, Leaving

--------------------------------------------------------------------------------
(* The statements of a departure. *)

LEMMA LeaveSelectSerial ==
  ASSUME IInv, NEW r \in Requests, SerialOK(r), LeaveSelect(r), pc'[r] # "idle"
  PROVE  SerialOK(r)' /\ RowsKept
<1>1. /\ pc[r] = "leaveSelect" /\ UNCHANGED <<group, member, invite>>
      /\ pc \in [Requests -> PC] /\ call \in [Requests -> Call]
  BY DEF LeaveSelect, IInv, TypeOK
<1>2. PICK u \in Users :
         /\ u = call[r].target /\ Departing(r) /\ OnlyHolds(r, {}, {})
         /\ call[r].op = "leave" \/ MayDepart(r)
  BY <1>1 DEF IInv, RequestOK, CallOK, SerialOK, Checked, Progress
<1>3. OnlyHolds(r, {}, {})' /\ RowsKept
      /\ \A w : RoleOf(w)' = RoleOf(w) /\ IsAdmin(w)' = IsAdmin(w)
  BY <1>1, <1>2, ReadKeeps
<1>4. Sees(r, member[u]) = member[u].row
  BY <1>2 DEF OnlyHolds, Same
<1>5. /\ member[u].row # NoMember /\ Goto(r, "leaveDelete")
      /\ call' = [call EXCEPT ![r].role = RoleOf(u)]
  <2>1. ~End(r)
    BY <1>1 DEF End, Goto
  <2> QED
    BY <1>2, <1>4, <2>1 DEF LeaveSelect, RoleOf
<1>6. /\ pc'[r] = "leaveDelete" /\ call'[r].op = call[r].op /\ call'[r].by = call[r].by
      /\ call'[r].target = u /\ call'[r].role = RoleOf(u)
  BY <1>1, <1>2, <1>5 DEF Goto, Call
<1>7. RoleOf(u) # "none"
  BY <1>5 DEF IInv, RowsOK, RoleOf
<1>8. MayDepart(r)'
  BY <1>2, <1>3, <1>6, <1>7 DEF MayDepart
<1> QED
  BY <1>3, <1>6, <1>8 DEF SerialOK, Checked, Progress, Outcome, Leaving

(* What a departure has found out, from its DELETE on. *)
LEMMA Departure ==
  ASSUME IInv, NEW r \in Requests, SerialOK(r),
         pc[r] \in {"leaveDelete"} \cup (Leaving \ {"commit"})
  PROVE  /\ RequestOK(r) /\ call[r].target \in Users /\ Departing(r)
         /\ MayDepart(r) /\ call[r].role = RoleOf(call[r].target) /\ Same(r, group)
         /\ RoleOf(call[r].target) # "none"
<1>1. RequestOK(r) /\ call[r].target \in Users /\ Departing(r)
  BY DEF IInv, RequestOK, CallOK, Leaving
<1>2. MayDepart(r) /\ call[r].role = RoleOf(call[r].target)
  BY DEF SerialOK, Checked
<1>3. group.holder # r
  BY <1>1 DEF RequestOK, GroupHeld, Leaving
<1>4. RoleOf(call[r].target) # "none"
  BY <1>2 DEF MayDepart
<1> QED
  BY <1>1, <1>2, <1>3, <1>4 DEF Same, Sees

LEMMA MayStillDepart ==
  ASSUME NEW r, MayDepart(r), call' = call, \A u \in Users : RoleOf(u)' = RoleOf(u),
         call[r].target \in Users
  PROVE  MayDepart(r)' /\ RoleOf(call[r].target)' = RoleOf(call[r].target)
BY DEF MayDepart, IsAdmin, RoleOf

LEMMA LeaveDeleteSerial ==
  ASSUME IInv, NEW r \in Requests, SerialOK(r), LeaveDelete(r)
  PROVE  SerialOK(r)' /\ RowsKept
<1>1. /\ pc[r] = "leaveDelete" /\ UNCHANGED <<group, invite, call>>
      /\ pc \in [Requests -> PC] /\ Goto(r, "leaveInvite")
  BY DEF LeaveDelete, IInv, TypeOK
<1>2. PICK u \in Users :
         /\ u = call[r].target /\ MayDepart(r) /\ call[r].role = RoleOf(u) /\ RoleOf(u) # "none"
  BY <1>1, Departure
<1>3. OnlyHolds(r, {}, {})
  BY <1>1 DEF SerialOK, Progress
<1>4. Free(r, member[u]) /\ member' = [member EXCEPT ![u] = Written(r, member[u], NoMember)]
  <2>1. Sees(r, member[u]) # NoMember
    BY <1>2, <1>3 DEF OnlyHolds, Same, RoleOf, NoMember
  <2> QED
    BY <1>2, <2>1 DEF LeaveDelete
<1>5. NoMember \in MemberRow
  BY DEF MemberRow, NoMember
<1>6. /\ member'[u].draft = NoMember /\ member'[u].holder = r
      /\ \A w \in Users : w # u => member'[w] = member[w]
      /\ \A w \in Users : member'[w].row = member[w].row
  BY <1>4, <1>5, WriteMember DEF IInv
<1>7. /\ RowsKept /\ OnlyHolds(r, {u}, {})'
      /\ \A w \in Users : RoleOf(w)' = RoleOf(w)
  <2>1. {} \in SUBSET Users /\ {} \cup {u} = {u}
    OBVIOUS
  <2>2. /\ RowsKept /\ OnlyHolds(r, {} \cup {u}, {})'
        /\ \A w \in Users : RoleOf(w)' = RoleOf(w)
    BY <1>1, <1>3, <1>6, <2>1, MemberWritten
  <2> QED
    BY <2>1, <2>2
<1>8. Sees(r, member[u])' = NoMember /\ pc'[r] = "leaveInvite"
  BY <1>1, <1>6 DEF Sees, Goto
<1>9. MayDepart(r)' /\ RoleOf(u)' = RoleOf(u)
  BY <1>1, <1>2, <1>7, MayStillDepart
<1>10. Checked(r)'
  BY <1>1, <1>2, <1>8, <1>9 DEF Checked, Leaving
<1>11. Progress(r)' /\ Outcome(r)'
  BY <1>1, <1>2, <1>7, <1>8 DEF Progress, Outcome
<1> QED
  BY <1>7, <1>10, <1>11 DEF SerialOK

(* Invitations deleted by a request that may hold others already. *)
LEMMA InvitesDeleted ==
  ASSUME IInv, NEW r \in Requests, NEW us \in SUBSET Users, NEW vs \in SUBSET Users,
         NEW ws \in SUBSET Users,
         OnlyHolds(r, us, vs), UNCHANGED <<group, member>>, DeleteInvites(r, ws)
  PROVE  /\ RowsKept /\ OnlyHolds(r, us, vs \cup ws)'
         /\ \A u \in Users : /\ RoleOf(u)' = RoleOf(u)
                             /\ Sees(r, member[u])' = Sees(r, member[u])
         /\ \A u \in ws : Sees(r, invite[u])' = NoInvite
<1>1. \A u \in Users : /\ invite'[u].row = invite[u].row
                       /\ \/ u \in ws /\ invite'[u].holder = r /\ invite'[u].draft = NoInvite
                          \/ invite'[u] = invite[u] /\ (u \in ws => Sees(r, invite[u]) = NoInvite)
  BY DeleteEffect DEF IInv
<1>2. \A u \in Users \ us : Same(r, member[u])'
  BY DEF OnlyHolds, Same, Sees
<1>3. \A u \in Users \ (vs \cup ws) : Same(r, invite[u])'
  BY <1>1 DEF OnlyHolds, Same, Sees
<1>4. \A u \in ws : Sees(r, invite[u])' = NoInvite
  BY <1>1 DEF Sees
<1> QED
  BY <1>1, <1>2, <1>3, <1>4 DEF RowsKept, OnlyHolds, RoleOf, Sees

LEMMA LeaveInviteSerial ==
  ASSUME IInv, NEW r \in Requests, SerialOK(r), LeaveInvite(r)
  PROVE  SerialOK(r)' /\ RowsKept
<1>1. /\ pc[r] = "leaveInvite" /\ UNCHANGED <<group, member, call>>
      /\ pc \in [Requests -> PC] /\ Goto(r, "leaveList")
  BY DEF LeaveInvite, IInv, TypeOK
<1>2. PICK u \in Users :
         /\ u = call[r].target /\ MayDepart(r) /\ call[r].role = RoleOf(u)
  BY <1>1, Departure DEF Leaving
<1>3. OnlyHolds(r, {u}, {}) /\ Sees(r, member[u]) = NoMember /\ DeleteInvites(r, {u})
  BY <1>1, <1>2 DEF SerialOK, Progress, LeaveInvite
<1>4. /\ RowsKept /\ OnlyHolds(r, {u}, {u})'
      /\ \A w \in Users : RoleOf(w)' = RoleOf(w)
      /\ Sees(r, member[u])' = NoMember /\ Sees(r, invite[u])' = NoInvite
  <2>1. {u} \in SUBSET Users /\ {} \in SUBSET Users /\ {} \cup {u} = {u} /\ u \in {u}
    OBVIOUS
  <2>2. /\ RowsKept /\ OnlyHolds(r, {u}, {} \cup {u})'
        /\ \A w \in Users : /\ RoleOf(w)' = RoleOf(w)
                            /\ Sees(r, member[w])' = Sees(r, member[w])
        /\ \A w \in {u} : Sees(r, invite[w])' = NoInvite
    BY <1>1, <1>3, <2>1, InvitesDeleted
  <2> QED
    BY <1>3, <2>1, <2>2
<1>5. pc'[r] = "leaveList"
  BY <1>1 DEF Goto
<1>6. MayDepart(r)' /\ RoleOf(u)' = RoleOf(u)
  BY <1>1, <1>2, <1>4, MayStillDepart
<1>7. Gone(r)'
  BY <1>1, <1>2, <1>4 DEF Gone
<1>8. Checked(r)'
  BY <1>1, <1>2, <1>5, <1>6 DEF Checked, Leaving
<1>9. Progress(r)' /\ Outcome(r)'
  BY <1>1, <1>2, <1>4, <1>5, <1>7 DEF Progress, Outcome
<1> QED
  BY <1>4, <1>8, <1>9 DEF SerialOK

LEMMA LeaveInvitesSerial ==
  ASSUME IInv, NEW r \in Requests, SerialOK(r), LeaveInvites(r)
  PROVE  SerialOK(r)' /\ RowsKept
<1>1. /\ pc[r] = "leaveInvites" /\ UNCHANGED <<group, member, call>>
      /\ pc \in [Requests -> PC] /\ Goto(r, "leaveGroup") /\ DeleteInvites(r, Users)
  BY DEF LeaveInvites, IInv, TypeOK
<1>2. PICK u \in Users :
         /\ u = call[r].target /\ MayDepart(r) /\ call[r].role = RoleOf(u)
  BY <1>1, Departure DEF Leaving
<1>3. OnlyHolds(r, {u}, {u}) /\ Sees(r, member[u]) = NoMember /\ Left(r) = {}
  BY <1>1, <1>2 DEF SerialOK, Progress, Gone
<1>4. /\ RowsKept /\ OnlyHolds(r, {u}, Users)'
      /\ \A w \in Users : RoleOf(w)' = RoleOf(w) /\ Sees(r, invite[w])' = NoInvite
      /\ Sees(r, member[u])' = NoMember
  <2>1. {u} \in SUBSET Users /\ Users \in SUBSET Users /\ {u} \cup Users = Users
    OBVIOUS
  <2>2. /\ RowsKept /\ OnlyHolds(r, {u}, {u} \cup Users)'
        /\ \A w \in Users : /\ RoleOf(w)' = RoleOf(w)
                            /\ Sees(r, member[w])' = Sees(r, member[w])
        /\ \A w \in Users : Sees(r, invite[w])' = NoInvite
    BY <1>1, <1>3, <2>1, InvitesDeleted
  <2> QED
    BY <1>3, <2>1, <2>2
<1>5. pc'[r] = "leaveGroup"
  BY <1>1 DEF Goto
<1>6. MayDepart(r)' /\ RoleOf(u)' = RoleOf(u)
  BY <1>1, <1>2, <1>4, MayStillDepart
<1>7. Gone(r)'
  BY <1>1, <1>2, <1>4 DEF Gone
<1>8. Left(r)' = {}
  BY <1>1, <1>3, <1>4 DEF Left
<1>9. Checked(r)'
  BY <1>1, <1>2, <1>5, <1>6 DEF Checked, Leaving
<1>10. Progress(r)' /\ Outcome(r)'
  BY <1>1, <1>2, <1>4, <1>5, <1>7, <1>8 DEF Progress, Outcome
<1> QED
  BY <1>4, <1>9, <1>10 DEF SerialOK

LEMMA LeaveListSerial ==
  ASSUME IInv, NEW r \in Requests, SerialOK(r), LeaveList(r)
  PROVE  SerialOK(r)' /\ RowsKept
<1> DEFINE remaining == {w \in Users : Sees(r, member[w]) # NoMember}
<1>1. /\ pc[r] = "leaveList" /\ UNCHANGED <<group, member, invite>>
      /\ pc \in [Requests -> PC] /\ call \in [Requests -> Call]
  BY DEF LeaveList, IInv, TypeOK
<1>2. PICK u \in Users :
         /\ u = call[r].target /\ MayDepart(r) /\ call[r].role = RoleOf(u) /\ Same(r, group)
  BY <1>1, Departure DEF Leaving
<1>3. OnlyHolds(r, {u}, {u}) /\ Sees(r, member[u]) = NoMember /\ Sees(r, invite[u]) = NoInvite
  BY <1>1, <1>2 DEF SerialOK, Progress, Gone
<1>4. ASSUME NEW w \in Users, w # u
      PROVE  /\ Sees(r, member[w]) = member[w].row
             /\ member[w].row # NoMember <=> RoleOf(w) # "none"
  BY <1>3, <1>4 DEF OnlyHolds, Same, IInv, RowsOK, RoleOf, NoMember
<1>5. remaining = Left(r)
  BY <1>2, <1>3, <1>4 DEF Left
<1>6. /\ RowsKept /\ OnlyHolds(r, {u}, {u})' /\ Same(r, group)'
      /\ \A w \in Users : RoleOf(w)' = RoleOf(w)
      /\ Sees(r, member[u])' = NoMember /\ Sees(r, invite[u])' = NoInvite
  <2>1. /\ RowsKept /\ OnlyHolds(r, {u}, {u})' /\ Same(r, group)'
        /\ \A w \in Users : RoleOf(w)' = RoleOf(w)
    BY <1>1, <1>2, <1>3, ReadKeeps
  <2> QED
    BY <1>1, <1>3, <2>1 DEF Sees
<1>7. ASSUME call'[r].target = u PROVE Left(r)' = Left(r) /\ Gone(r)'
  BY <1>2, <1>6, <1>7 DEF Left, Gone
<1>8. CASE remaining = {} /\ Goto(r, "leaveInvites") /\ call' = call
  <2>1. pc'[r] = "leaveInvites" /\ call'[r].target = u
    BY <1>1, <1>2, <1>8 DEF Goto
  <2>2. MayDepart(r)' /\ RoleOf(u)' = RoleOf(u)
    BY <1>2, <1>6, <1>8, MayStillDepart
  <2>3. Checked(r)'
    BY <1>2, <1>8, <2>1, <2>2 DEF Checked, Leaving
  <2> QED
    BY <1>5, <1>6, <1>7, <1>8, <2>1, <2>3 DEF SerialOK, Progress, Outcome
<1>9. CASE remaining # {} /\ call[r].role # "owner" /\ Goto(r, "commit") /\ call' = call
  <2>1. pc'[r] = "commit" /\ call'[r].target = u
    BY <1>1, <1>2, <1>9 DEF Goto
  <2>2. MayDepart(r)' /\ RoleOf(u)' = RoleOf(u)
    BY <1>2, <1>6, <1>9, MayStillDepart
  <2>3. Outcome(r)'
    BY <1>2, <1>5, <1>6, <1>7, <1>9, <2>1, <2>2 DEF Outcome
  <2> QED
    BY <1>6, <2>1, <2>3 DEF SerialOK, Checked, Progress, Leaving
<1>10. CASE /\ call[r].role = "owner" /\ Goto(r, "leavePromote")
            /\ \E heir \in Earliest(r, remaining) : call' = [call EXCEPT ![r].heir = heir]
  <2>1. PICK heir \in Earliest(r, remaining) : call' = [call EXCEPT ![r].heir = heir]
    BY <1>10
  <2>2. /\ heir \in Left(r) /\ heir \in Users
        /\ \A v \in Left(r) : Sees(r, member[heir]).joined <= Sees(r, member[v]).joined
    BY <1>5, <2>1 DEF Earliest
  <2>3. \A v \in Left(r) : Earlier(heir, v)
    BY <1>2, <1>4, <2>2 DEF Left, Earlier
  <2>4. /\ pc'[r] = "leavePromote" /\ call'[r].heir = heir /\ call'[r].target = u
        /\ call'[r].op = call[r].op /\ call'[r].by = call[r].by /\ call'[r].role = call[r].role
    BY <1>1, <1>2, <1>10, <2>1 DEF Goto, Call
  <2>5. MayDepart(r)'
    BY <1>1, <1>2, <1>6, <2>4 DEF MayDepart, IsAdmin, RoleOf
  <2>6. Heir(r)'
    BY <1>1, <1>7, <2>2, <2>3, <2>4 DEF Heir, Earlier
  <2>7. Checked(r)'
    BY <1>2, <1>6, <2>4, <2>5 DEF Checked, Leaving
  <2> QED
    BY <1>6, <1>7, <2>4, <2>6, <2>7 DEF SerialOK, Progress, Outcome
<1> QED
  BY <1>5, <1>8, <1>9, <1>10 DEF LeaveList

LEMMA LeaveGroupSerial ==
  ASSUME IInv, NEW r \in Requests, SerialOK(r), LeaveGroup(r)
  PROVE  SerialOK(r)' /\ RowsKept
<1>1. /\ pc[r] = "leaveGroup" /\ UNCHANGED <<member, invite, call>>
      /\ pc \in [Requests -> PC] /\ Goto(r, "commit")
  BY DEF LeaveGroup, IInv, TypeOK
<1>2. PICK u \in Users : u = call[r].target /\ MayDepart(r) /\ Same(r, group)
  BY <1>1, Departure DEF Leaving
<1>3. /\ OnlyHolds(r, {u}, Users) /\ Gone(r) /\ Left(r) = {}
      /\ \A v \in Users : Sees(r, invite[v]) = NoInvite
  BY <1>1, <1>2 DEF SerialOK, Progress
<1>4. group'.row = group.row /\ ~Sees(r, group)'
  <2>1. CASE Sees(r, group) /\ group' = Written(r, group, FALSE)
    <3>1. group \in Versioned(BOOLEAN)
      BY DEF IInv, TypeOK
    <3>2. group'.row = group.row /\ group'.draft = FALSE /\ group'.holder = r
      BY <2>1, <3>1 DEF Versioned, Written
    <3> QED
      BY <3>2 DEF Sees
  <2>2. CASE ~Sees(r, group) /\ group' = group
    BY <2>2 DEF Sees
  <2> QED
    BY <2>1, <2>2 DEF LeaveGroup
<1>5. RowsKept /\ \A w \in Users : RoleOf(w)' = RoleOf(w)
  BY <1>1, <1>4 DEF RowsKept, RoleOf
<1>6. /\ OnlyHolds(r, {u}, Users)' /\ Gone(r)' /\ Left(r)' = {}
      /\ \A v \in Users : Sees(r, invite[v])' = NoInvite
  BY <1>1, <1>3, <1>5 DEF OnlyHolds, Same, Gone, Left, Sees
<1>7. pc'[r] = "commit"
  BY <1>1 DEF Goto
<1>8. MayDepart(r)'
  BY <1>1, <1>2, <1>5, MayStillDepart
<1>9. Outcome(r)'
  BY <1>1, <1>2, <1>4, <1>6, <1>7, <1>8 DEF Outcome
<1> QED
  BY <1>5, <1>7, <1>9 DEF SerialOK, Checked, Progress, Leaving

LEMMA LeavePromoteSerial ==
  ASSUME IInv, NEW r \in Requests, SerialOK(r), LeavePromote(r)
  PROVE  SerialOK(r)' /\ RowsKept
<1>1. /\ pc[r] = "leavePromote" /\ UNCHANGED <<group, invite, call>>
      /\ pc \in [Requests -> PC] /\ Goto(r, "commit")
  BY DEF LeavePromote, IInv, TypeOK
<1>2. PICK u \in Users, heir \in Users :
         /\ u = call[r].target /\ heir = call[r].heir /\ Same(r, group)
         /\ MayDepart(r) /\ call[r].role = RoleOf(u) /\ call[r].role = "owner"
  <2>1. RequestOK(r)
    BY DEF IInv
  <2>2. call[r].role = "owner" /\ call[r].heir \in Users
    BY <1>1, <2>1 DEF RequestOK, CallOK
  <2> QED
    BY <1>1, <2>2, Departure DEF Leaving
<1>3. OnlyHolds(r, {u}, {u}) /\ Gone(r) /\ Heir(r)
  BY <1>1, <1>2 DEF SerialOK, Progress
<1>4. heir \in Left(r) /\ heir # u /\ RoleOf(heir) # "none" /\ Sees(r, member[heir]) = member[heir].row
  BY <1>2, <1>3 DEF Heir, Left, OnlyHolds, Same
<1> DEFINE v == [member[heir].row EXCEPT !.role = "owner"]
<1>5. Free(r, member[heir]) /\ member' = [member EXCEPT ![heir] = Written(r, member[heir], v)]
  <2>1. Sees(r, member[heir]) # NoMember
    BY <1>4 DEF RoleOf, NoMember
  <2> QED
    BY <1>2, <1>4, <2>1 DEF LeavePromote
<1>6. v \in MemberRow
  <2>1. member[heir].row \in MemberRow
    BY DEF IInv, TypeOK, Versioned
  <2> QED
    BY <2>1 DEF MemberRow, Role
<1>7. member[heir].row \in MemberRow
  BY DEF IInv, TypeOK, Versioned
<1> HIDE DEF v
<1>8. /\ member'[heir].draft = v /\ member'[heir].holder = r
      /\ \A w \in Users : w # heir => member'[w] = member[w]
      /\ \A w \in Users : member'[w].row = member[w].row
  <2>1. member \in [Users -> Versioned(MemberRow)]
    BY DEF IInv, TypeOK
  <2>2. /\ Written(r, member[heir], v).row = member[heir].row
        /\ Written(r, member[heir], v).draft = v /\ Written(r, member[heir], v).holder = r
    BY <2>1 DEF Versioned, Written
  <2> QED
    BY <1>5, <2>1, <2>2
<1>9. /\ RowsKept /\ OnlyHolds(r, {u, heir}, {u})' /\ Same(r, group)'
      /\ \A w \in Users : RoleOf(w)' = RoleOf(w)
  <2>1. RowsKept /\ \A w \in Users : RoleOf(w)' = RoleOf(w)
    BY <1>1, <1>8 DEF RowsKept, RoleOf
  <2>2. Same(r, group)'
    BY <1>1, <1>2 DEF Same, Sees
  <2>3. \A w \in Users \ {u, heir} : Same(r, member[w])'
    BY <1>3, <1>8 DEF OnlyHolds, Same, Sees
  <2>4. \A w \in Users \ {u} : Same(r, invite[w])'
    BY <1>1, <1>3 DEF OnlyHolds, Same, Sees
  <2> QED
    BY <2>1, <2>2, <2>3, <2>4 DEF OnlyHolds
<1>10. Gone(r)'
  BY <1>1, <1>2, <1>3, <1>4, <1>8 DEF Gone, Sees
<1>11. Left(r)' = Left(r) /\ Heir(r)'
  <2>1. Left(r)' = Left(r)
    BY <1>1, <1>9 DEF Left
  <2> QED
    BY <1>1, <1>3, <1>8, <2>1 DEF Heir, Earlier, Left
<1>12. Sees(r, member[heir])' = [member'[heir].row EXCEPT !.role = "owner"]
  BY <1>8 DEF Sees, v
<1>13. pc'[r] = "commit"
  BY <1>1 DEF Goto
<1>14. MayDepart(r)' /\ RoleOf(u)' = "owner"
  BY <1>1, <1>2, <1>9, MayStillDepart
<1>15. Outcome(r)'
  BY <1>1, <1>2, <1>9, <1>10, <1>11, <1>12, <1>13, <1>14 DEF Outcome
<1> QED
  BY <1>9, <1>13, <1>15 DEF SerialOK, Checked, Progress, Leaving

(* An invitation nobody has written is declined under the request at work. *)
LEMMA DeclineSerial ==
  ASSUME IInv, SerialInv, NEW r \in Requests, NEW u \in Users, Decline(r, u)
  PROVE  SerialInv'
<1> SUFFICES ASSUME NEW s \in Requests PROVE SerialOK(s)'
  BY DEF SerialInv
<1> DEFINE v == [invite[u].row EXCEPT !.status = "declined"]
<1>1. /\ HoldsNothing(r) /\ Free(r, invite[u]) /\ invite[u].row.status = "pending"
      /\ invite' = [invite EXCEPT ![u] = Committed(v)]
      /\ UNCHANGED <<group, member, pc, call>>
  BY NoLocks DEF Decline, Leaving
<1>2. invite[u].holder # s
  BY <1>1, GroupStoreAssumption DEF Free, HoldsNothing
<1>3. v \in InviteRow /\ v.id = invite[u].row.id
  <2>1. invite[u].row \in InviteRow
    BY DEF IInv, TypeOK, Versioned
  <2> QED
    BY <2>1 DEF InviteRow, Status
<1> HIDE DEF v
<1>4. /\ invite'[u].row = v /\ invite'[u].holder = NoRequest
      /\ \A w \in Users : w # u => invite'[w] = invite[w]
  BY <1>1, <1>3, CommitInvite DEF IInv
<1>5. ASSUME NEW us, NEW vs, OnlyHolds(s, us, vs) PROVE OnlyHolds(s, us, vs)'
  <2>1. \A w \in Users \ us : Same(s, member[w])'
    BY <1>1, <1>5 DEF OnlyHolds, Same, Sees
  <2>2. \A w \in Users \ vs : Same(s, invite[w])'
    BY <1>4, <1>5, GroupStoreAssumption DEF OnlyHolds, Same, Sees
  <2> QED
    BY <2>1, <2>2 DEF OnlyHolds
<1>6. ASSUME NEW w \in Users, Sees(s, invite[w]) = NoInvite
      PROVE  Sees(s, invite[w])' = NoInvite
  <2>1. w # u
    BY <1>1, <1>2, <1>6 DEF Sees, NoInvite
  <2> QED
    BY <1>4, <1>6, <2>1 DEF Sees
<1>7. /\ \A w : RoleOf(w)' = RoleOf(w) /\ IsAdmin(w)' = IsAdmin(w)
      /\ \A w \in Users : Sees(s, member[w])' = Sees(s, member[w])
      /\ \A w, z : Earlier(w, z)' = Earlier(w, z)
      /\ Same(s, group)' = Same(s, group) /\ Sees(s, group)' = Sees(s, group)
      /\ Left(s)' = Left(s)
  BY <1>1 DEF RoleOf, IsAdmin, Sees, Earlier, Same, Left
<1>8. MayDepart(s)' = MayDepart(s) /\ Heir(s)' = Heir(s)
  BY <1>1, <1>7 DEF MayDepart, Heir
<1>9. SerialOK(s) /\ CallOK(s)
  BY DEF SerialInv, IInv, RequestOK
<1>10. Gone(s) /\ call[s].target \in Users => Gone(s)'
  BY <1>1, <1>6, <1>7 DEF Gone
<1>11. Checked(s)'
  <2>1. \A w \in Users : invite'[w].row.id = invite[w].row.id
    BY <1>3, <1>4
  <2> QED
    BY <1>1, <1>7, <1>8, <1>9, <2>1 DEF SerialOK, Checked, CallOK
<1>12. CASE pc[s] = "idle"
  BY <1>1, <1>5, <1>9, <1>11, <1>12 DEF SerialOK, Progress, Outcome
<1>13. CASE pc[s] # "idle"
  <2>1. PICK t \in Users : t = call[s].target
    BY <1>9, <1>13 DEF CallOK
  <2>2. Progress(s)'
    BY <1>1, <1>5, <1>6, <1>7, <1>8, <1>9, <1>10, <2>1 DEF SerialOK, Progress
  <2>3. Outcome(s)'
    <3> SUFFICES ASSUME pc[s] = "commit" PROVE Outcome(s)'
      BY <1>1 DEF Outcome
    <3> USE <1>1, <2>1
    <3>1. CASE /\ call[s].op = "invite" /\ call[s].by \in Users /\ IsAdmin(call[s].by)
               /\ RoleOf(t) = "none"
               /\ Same(s, group) /\ OnlyHolds(s, {}, {t}) /\ invite[t].holder = s
      BY <1>2, <1>4, <1>5, <1>7, <3>1 DEF Outcome
    <3>2. CASE /\ call[s].op = "accept" /\ Same(s, group) /\ OnlyHolds(s, {t}, {t})
               /\ invite[t].row.status = "pending" /\ Sees(s, invite[t]).status = "accepted"
               /\ Sees(s, member[t]).role = "member" /\ Sees(s, member[t]).joined \in Times
      <4>1. t # u
        BY <1>2, <3>2 DEF Sees
      <4>2. Sees(s, invite[t])' = Sees(s, invite[t]) /\ invite'[t] = invite[t]
        BY <1>4, <4>1 DEF Sees
      <4> QED
        BY <1>5, <1>7, <3>2, <4>2 DEF Outcome
    <3>3. CASE /\ MayDepart(s) /\ Gone(s) /\ Left(s) = {} /\ ~Sees(s, group)
               /\ OnlyHolds(s, {t}, Users) /\ \A z \in Users : Sees(s, invite[z]) = NoInvite
      BY <1>5, <1>6, <1>7, <1>8, <1>10, <3>3 DEF Outcome
    <3>4. CASE /\ MayDepart(s) /\ Gone(s) /\ Left(s) # {} /\ RoleOf(t) # "owner"
               /\ Same(s, group) /\ OnlyHolds(s, {t}, {t})
      BY <1>5, <1>7, <1>8, <1>10, <3>4 DEF Outcome
    <3>5. CASE /\ MayDepart(s) /\ Gone(s) /\ RoleOf(t) = "owner" /\ Heir(s) /\ Same(s, group)
               /\ OnlyHolds(s, {t, call[s].heir}, {t})
               /\ Sees(s, member[call[s].heir]) = [member[call[s].heir].row EXCEPT !.role = "owner"]
      <4>1. PICK heir \in Users : heir = call[s].heir
        BY <3>5 DEF Heir, Left
      <4>2. OnlyHolds(s, {t, heir}, {t})'
        BY <1>5, <3>5, <4>1
      <4>3. Sees(s, member[heir])' = [member'[heir].row EXCEPT !.role = "owner"]
        BY <1>7, <3>5, <4>1
      <4> QED
        BY <1>7, <1>8, <1>10, <3>5, <4>1, <4>2, <4>3 DEF Outcome
    <3> QED
      BY <1>9, <3>1, <3>2, <3>3, <3>4, <3>5 DEF SerialOK, Outcome
  <2> QED
    BY <1>11, <2>2, <2>3 DEF SerialOK
<1> QED
  BY <1>12, <1>13

(* A rollback, or a refusal. *)
LEMMA EndKeeps ==
  ASSUME IInv, NEW r \in Requests, End(r),
         Settle(r, FALSE) \/ UNCHANGED <<group, member, invite>>
  PROVE  RowsKept
<1>1. CASE Settle(r, FALSE)
  <2>1. \A x : Settled(r, x, FALSE).row = x.row
    BY DEF Settled, Committed
  <2> QED
    BY <1>1, <2>1 DEF Settle, RowsKept
<1> QED
  BY <1>1 DEF RowsKept

--------------------------------------------------------------------------------
(* Each step is an operation of Groups, or none. *)

LEMMA KeptIsStutter == RowsKept => UNCHANGED Group!groupVars
BY DEF RowsKept, Group!groupVars, existsRow, roleRow, joinedRow, inviteRow

LEMMA AtomicView ==
  /\ existsRow = group.row
  /\ \A u \in Users : /\ roleRow[u] = RoleOf(u) /\ joinedRow[u] = member[u].row.joined
                      /\ inviteRow[u] = invite[u].row.status
BY DEF existsRow, roleRow, joinedRow, inviteRow, RoleOf

LEMMA SerialDecline ==
  ASSUME IInv, NEW r \in Requests, NEW u \in Users, Decline(r, u)
  PROVE  Group!Decline(u)
<1> DEFINE v == [invite[u].row EXCEPT !.status = "declined"]
<1>1. /\ Free(r, invite[u]) /\ invite[u].row.status = "pending"
      /\ invite' = [invite EXCEPT ![u] = Committed(v)] /\ UNCHANGED <<group, member>>
  BY DEF Decline
<1>2. v \in InviteRow /\ v.status = "declined"
  <2>1. invite[u].row \in InviteRow
    BY DEF IInv, TypeOK, Versioned
  <2> QED
    BY <2>1 DEF InviteRow, Status
<1> HIDE DEF v
<1>3. invite'[u].row = v /\ \A w \in Users : w # u => invite'[w] = invite[w]
  BY <1>1, <1>2, CommitInvite DEF IInv
<1>4. inviteRow[u] = "pending" /\ inviteRow' = [inviteRow EXCEPT ![u] = "declined"]
  <2>1. \A w \in Users : invite'[w].row.status = IF w = u THEN "declined" ELSE invite[w].row.status
    BY <1>2, <1>3
  <2> QED
    BY <1>1, <2>1 DEF inviteRow
<1>5. UNCHANGED <<existsRow, roleRow, joinedRow>>
  BY <1>1 DEF existsRow, roleRow, joinedRow
<1> QED
  BY <1>4, <1>5 DEF Group!Decline

LEMMA SerialSetRole ==
  ASSUME IInv, NEW r \in Requests, SerialOK(r), SetRole(r)
  PROVE  \E by, u \in Users : Group!SetRole(by, u)
<1>1. pc[r] = "setRole" /\ UNCHANGED <<group, invite>>
  BY DEF SetRole
<1>2. PICK by \in Users, u \in Users, role \in {"admin", "member"} :
         /\ by = call[r].by /\ u = call[r].target /\ role = call[r].role
         /\ IsAdmin(by) /\ RoleOf(u) \in {"admin", "member"}
  BY <1>1 DEF SerialOK, Checked, IInv, RequestOK, CallOK
<1> DEFINE v == [member[u].row EXCEPT !.role = role]
<1>3. Free(r, member[u]) /\ member' = [member EXCEPT ![u] = Committed(v)]
  BY <1>2 DEF SetRole
<1>4. v \in MemberRow /\ v.role = role /\ v.joined = member[u].row.joined
  <2>1. member[u].row \in MemberRow
    BY DEF IInv, TypeOK, Versioned
  <2> QED
    BY <2>1 DEF MemberRow, Role
<1> HIDE DEF v
<1>5. member'[u].row = v /\ \A w \in Users : w # u => member'[w] = member[w]
  BY <1>3, <1>4, CommitMember DEF IInv
<1>6. roleRow' = [roleRow EXCEPT ![u] = role]
  BY <1>4, <1>5 DEF roleRow
<1>7. UNCHANGED <<existsRow, joinedRow, inviteRow>>
  BY <1>1, <1>4, <1>5 DEF existsRow, joinedRow, inviteRow
<1>8. Group!IsAdmin(by) /\ roleRow[u] \in {"admin", "member"}
  BY <1>2, AtomicView DEF IsAdmin, Group!IsAdmin
<1> QED
  BY <1>6, <1>7, <1>8 DEF Group!SetRole

(* What a reader of the rows sees once the request at work commits. *)
LEMMA CommitView ==
  ASSUME NEW r \in Requests, Settle(r, TRUE)
  PROVE  /\ existsRow' = Sees(r, group)
         /\ roleRow' = [u \in Users |-> Sees(r, member[u]).role]
         /\ joinedRow' = [u \in Users |-> Sees(r, member[u]).joined]
         /\ inviteRow' = [u \in Users |-> Sees(r, invite[u]).status]
<1>1. \A x : Settled(r, x, TRUE).row = Sees(r, x)
  BY DEF Settled, Committed, Sees
<1>2. group'.row = Sees(r, group)
  BY <1>1 DEF Settle
<1>3. \A u \in Users : member'[u].row = Sees(r, member[u]) /\ invite'[u].row = Sees(r, invite[u])
  BY <1>1 DEF Settle
<1> QED
  BY <1>2, <1>3 DEF existsRow, roleRow, joinedRow, inviteRow

LEMMA OnlyHeld ==
  ASSUME NEW r, NEW us, NEW vs, OnlyHolds(r, us, vs)
  PROVE  /\ \A w \in Users \ us : /\ Sees(r, member[w]).role = roleRow[w]
                                  /\ Sees(r, member[w]).joined = joinedRow[w]
         /\ \A w \in Users \ vs : Sees(r, invite[w]).status = inviteRow[w]
BY AtomicView DEF OnlyHolds, Same, RoleOf

LEMMA SerialDeparture ==
  ASSUME IInv, NEW r \in Requests, NEW u \in Users, u = call[r].target, Settle(r, TRUE),
         Gone(r),
         \/ /\ Left(r) = {} /\ ~Sees(r, group) /\ OnlyHolds(r, {u}, Users)
            /\ \A v \in Users : Sees(r, invite[v]) = NoInvite
         \/ Left(r) # {} /\ RoleOf(u) # "owner" /\ Same(r, group) /\ OnlyHolds(r, {u}, {u})
         \/ /\ RoleOf(u) = "owner" /\ Heir(r) /\ Same(r, group)
            /\ OnlyHolds(r, {u, call[r].heir}, {u})
            /\ Sees(r, member[call[r].heir]) = [member[call[r].heir].row EXCEPT !.role = "owner"]
  PROVE  Group!Depart(u)
<1> DEFINE left == Group!Members \ {u}
<1>1. left = Left(r)
  BY AtomicView DEF Group!Members, Left
<1>2. /\ existsRow' = Sees(r, group)
      /\ roleRow' = [w \in Users |-> Sees(r, member[w]).role]
      /\ joinedRow' = [w \in Users |-> Sees(r, member[w]).joined]
      /\ inviteRow' = [w \in Users |-> Sees(r, invite[w]).status]
  BY CommitView
<1>3. /\ Sees(r, member[u]).role = "none" /\ Sees(r, member[u]).joined = 0
      /\ Sees(r, invite[u]).status = "none" /\ NoInvite.status = "none"
  BY DEF Gone, NoMember, NoInvite
<1>4. roleRow = [w \in Users |-> roleRow[w]] /\ joinedRow = [w \in Users |-> joinedRow[w]]
      /\ inviteRow = [w \in Users |-> inviteRow[w]]
  BY DEF roleRow, joinedRow, inviteRow
<1>5. group.row \in BOOLEAN /\ Sees(r, group) \in BOOLEAN
  BY DEF IInv, TypeOK, Versioned, Sees
<1>6. CASE /\ Left(r) = {} /\ ~Sees(r, group) /\ OnlyHolds(r, {u}, Users)
           /\ \A v \in Users : Sees(r, invite[v]) = NoInvite
  <2>1. \A w \in Users : w # u => /\ Sees(r, member[w]).role = roleRow[w]
                                 /\ Sees(r, member[w]).joined = joinedRow[w]
    BY <1>6, OnlyHeld
  <2>2. roleRow' = [roleRow EXCEPT ![u] = "none"]
    BY ONLY <1>2, <1>3, <1>4, <2>1
  <2>3. joinedRow' = [joinedRow EXCEPT ![u] = 0]
    BY ONLY <1>2, <1>3, <1>4, <2>1
  <2>4. inviteRow' = [w \in Users |-> "none"] /\ existsRow' = FALSE
    BY <1>2, <1>3, <1>5, <1>6
  <2> QED
    BY <1>1, <1>6, <2>2, <2>3, <2>4 DEF Group!Depart
<1>7. CASE Left(r) # {} /\ RoleOf(u) # "owner" /\ Same(r, group) /\ OnlyHolds(r, {u}, {u})
  <2>1. \A w \in Users : w # u => /\ Sees(r, member[w]).role = roleRow[w]
                                 /\ Sees(r, member[w]).joined = joinedRow[w]
                                 /\ Sees(r, invite[w]).status = inviteRow[w]
    BY <1>7, OnlyHeld
  <2>2. roleRow' = [roleRow EXCEPT ![u] = "none"]
    BY ONLY <1>2, <1>3, <1>4, <2>1
  <2>3. joinedRow' = [joinedRow EXCEPT ![u] = 0]
    BY ONLY <1>2, <1>3, <1>4, <2>1
  <2>4. inviteRow' = [inviteRow EXCEPT ![u] = "none"]
    BY ONLY <1>2, <1>3, <1>4, <2>1
  <2>5. existsRow' = existsRow /\ roleRow[u] # "owner"
    BY <1>2, <1>7, AtomicView DEF Same
  <2> QED
    BY <1>1, <1>7, <2>2, <2>3, <2>4, <2>5 DEF Group!Depart
<1>8. CASE /\ RoleOf(u) = "owner" /\ Heir(r) /\ Same(r, group)
           /\ OnlyHolds(r, {u, call[r].heir}, {u})
           /\ Sees(r, member[call[r].heir]) = [member[call[r].heir].row EXCEPT !.role = "owner"]
  <2>1. PICK heir \in Left(r) : heir = call[r].heir /\ \A v \in Left(r) : Earlier(heir, v)
    BY <1>8 DEF Heir
  <2>2. heir \in Users /\ heir # u
    BY <2>1 DEF Left
  <2>3. member[heir].row \in MemberRow
    BY <2>2 DEF IInv, TypeOK, Versioned
  <2>4. Sees(r, member[heir]).role = "owner" /\ Sees(r, member[heir]).joined = joinedRow[heir]
    BY <1>8, <2>1, <2>2, <2>3, AtomicView DEF MemberRow
  <2>5. OnlyHolds(r, {u, heir}, {u})
    BY <1>8, <2>1
  <2>6. \A w \in Users \ {u, heir} : /\ Sees(r, member[w]).role = roleRow[w]
                                     /\ Sees(r, member[w]).joined = joinedRow[w]
    BY <2>5, OnlyHeld
  <2>7. \A w \in Users \ {u} : Sees(r, invite[w]).status = inviteRow[w]
    BY <2>5, OnlyHeld
  <2>8. roleRow' = [roleRow EXCEPT ![u] = "none", ![heir] = "owner"]
    BY <1>2, <1>3, <1>4, <2>2, <2>4, <2>6
  <2>9. joinedRow' = [joinedRow EXCEPT ![u] = 0]
    BY <1>2, <1>3, <1>4, <2>2, <2>4, <2>6
  <2>10. inviteRow' = [inviteRow EXCEPT ![u] = "none"]
    BY <1>2, <1>3, <1>4, <2>7
  <2>11. existsRow' = existsRow /\ roleRow[u] = "owner"
    BY <1>2, <1>8, AtomicView DEF Same
  <2>12. heir \in Group!Earliest(left)
    BY <1>1, <2>1, AtomicView DEF Group!Earliest, Earlier, Left
  <2> QED
    BY <2>8, <2>9, <2>10, <2>11, <2>12 DEF Group!Depart
<1> QED
  BY <1>6, <1>7, <1>8

LEMMA SerialCommit ==
  ASSUME IInv, NEW r \in Requests, SerialOK(r), Commit(r)
  PROVE  Group!Next
<1>1. pc[r] = "commit" /\ Settle(r, TRUE)
  BY DEF Commit
<1>2. PICK u \in Users : u = call[r].target
  BY <1>1 DEF IInv, RequestOK, CallOK
<1>3. /\ existsRow' = Sees(r, group)
      /\ roleRow' = [w \in Users |-> Sees(r, member[w]).role]
      /\ joinedRow' = [w \in Users |-> Sees(r, member[w]).joined]
      /\ inviteRow' = [w \in Users |-> Sees(r, invite[w]).status]
  BY <1>1, CommitView
<1>4. roleRow = [w \in Users |-> roleRow[w]] /\ joinedRow = [w \in Users |-> joinedRow[w]]
      /\ inviteRow = [w \in Users |-> inviteRow[w]]
  BY DEF roleRow, joinedRow, inviteRow
<1>5. ASSUME call[r].op = "invite", call[r].by \in Users, IsAdmin(call[r].by), RoleOf(u) = "none",
             Same(r, group), OnlyHolds(r, {}, {u}), invite[u].holder = r
      PROVE  Group!Invite(call[r].by, u)
  <2>1. Sees(r, invite[u]).status = "pending"
    BY <1>1, <1>5 DEF IInv, RequestOK, InviteHeld, Departing, Sees
  <2>2. inviteRow' = [inviteRow EXCEPT ![u] = "pending"]
    BY <1>3, <1>4, <1>5, <2>1, OnlyHeld
  <2>3. roleRow' = roleRow /\ joinedRow' = joinedRow
    BY <1>3, <1>4, <1>5, OnlyHeld
  <2>4. existsRow' = existsRow /\ Group!IsAdmin(call[r].by) /\ roleRow[u] = "none"
    BY <1>3, <1>5, AtomicView DEF Same, IsAdmin, Group!IsAdmin
  <2> QED
    BY <2>2, <2>3, <2>4 DEF Group!Invite
<1>6. ASSUME call[r].op = "accept", Same(r, group), OnlyHolds(r, {u}, {u}),
             invite[u].row.status = "pending", Sees(r, invite[u]).status = "accepted",
             Sees(r, member[u]).role = "member", Sees(r, member[u]).joined \in Times
      PROVE  Group!Accept(u)
  <2>1. inviteRow' = [inviteRow EXCEPT ![u] = "accepted"]
    BY <1>3, <1>4, <1>6, OnlyHeld
  <2>2. roleRow' = [roleRow EXCEPT ![u] = "member"]
    BY <1>3, <1>4, <1>6, OnlyHeld
  <2>3. joinedRow' = [joinedRow EXCEPT ![u] = Sees(r, member[u]).joined]
    BY <1>3, <1>4, <1>6, OnlyHeld
  <2>4. existsRow' = existsRow /\ inviteRow[u] = "pending"
    BY <1>3, <1>6, AtomicView DEF Same
  <2> QED
    BY <1>6, <2>1, <2>2, <2>3, <2>4 DEF Group!Accept
<1>7. ASSUME MayDepart(r), Group!Depart(u)
      PROVE  Group!Leave(u) \/ \E by \in Users : Group!Remove(by, u)
  <2>1. CASE call[r].op = "leave" /\ RoleOf(u) # "none"
    BY <1>7, <2>1, AtomicView DEF Group!Leave
  <2>2. ASSUME NEW by \in Users, by # u,
               \/ IsAdmin(by) /\ RoleOf(u) = "member"
               \/ RoleOf(by) = "owner" /\ RoleOf(u) = "admin"
        PROVE  Group!Remove(by, u)
    BY <1>7, <2>2, AtomicView DEF Group!Remove, Group!IsAdmin, IsAdmin
  <2> QED
    BY <1>2, <1>7, <2>1, <2>2 DEF MayDepart
<1>8. CASE /\ MayDepart(r) /\ Gone(r)
           /\ \/ /\ Left(r) = {} /\ ~Sees(r, group) /\ OnlyHolds(r, {u}, Users)
                 /\ \A v \in Users : Sees(r, invite[v]) = NoInvite
              \/ Left(r) # {} /\ RoleOf(u) # "owner" /\ Same(r, group) /\ OnlyHolds(r, {u}, {u})
              \/ /\ RoleOf(u) = "owner" /\ Heir(r) /\ Same(r, group)
                 /\ OnlyHolds(r, {u, call[r].heir}, {u})
                 /\ Sees(r, member[call[r].heir]) =
                      [member[call[r].heir].row EXCEPT !.role = "owner"]
  <2>1. Group!Depart(u)
    BY <1>1, <1>2, <1>8, SerialDeparture
  <2> QED
    BY <1>7, <1>8, <2>1 DEF Group!Next
<1> QED
  BY <1>1, <1>2, <1>5, <1>6, <1>8 DEF SerialOK, Outcome, Group!Next

LEMMA SerialStep ==
  ASSUME IInv, IInv', SerialInv, [Next]_vars, NoOverlap, NoOverlap'
  PROVE  SerialInv' /\ [Group!Next]_(Group!groupVars)
<1>1. pc \in [Requests -> PC]
  BY DEF IInv, TypeOK
(* A step of the request at work that commits nothing. *)
<1>2. ASSUME NEW r \in Requests, NEW l, Goto(r, l), pc[r] # "idle" \/ pc'[r] # "idle",
             pc'[r] # "idle" => SerialOK(r)'
      PROVE  SerialInv'
  <2>1. SerialOK(r)'
    BY <1>2, IdleSerial
  <2>2. \A s \in Requests : s # r => pc'[s] = pc[s]
    BY <1>1, <1>2 DEF Goto
  <2> QED
    BY <1>2, <2>1, <2>2, OneAtWork
<1>3. ASSUME RowsKept, SerialInv' PROVE SerialInv' /\ [Group!Next]_(Group!groupVars)
  BY <1>3, KeptIsStutter
<1>4. \A r \in Requests : SerialOK(r)
  BY DEF SerialInv
<1>5. CASE UNCHANGED vars
  <2>1. SerialInv'
    <3> SUFFICES ASSUME NEW r \in Requests PROVE SerialOK(r)'
      BY DEF SerialInv
    <3>1. UNCHANGED <<group, member, invite, pc, call>>
      BY <1>5 DEF vars
    <3>2. /\ \A x : Sees(r, x)' = Sees(r, x)
          /\ \A u : RoleOf(u)' = RoleOf(u) /\ IsAdmin(u)' = IsAdmin(u)
          /\ \A us, vs : OnlyHolds(r, us, vs)' = OnlyHolds(r, us, vs)
          /\ Same(r, group)' = Same(r, group)
      BY <3>1, ReadKeeps DEF Sees
    <3>3. Left(r)' = Left(r) /\ MayDepart(r)' = MayDepart(r) /\ Gone(r)' = Gone(r)
      BY <3>1, <3>2 DEF Left, MayDepart, Gone, Sees
    <3>4. Heir(r)' = Heir(r)
      BY <3>1, <3>3 DEF Heir, Earlier
    <3>5. Checked(r)'
      <4>1. Checked(r)
        BY <1>4 DEF SerialOK
      <4> QED
        BY ONLY <4>1, <3>1, <3>2, <3>3 DEF Checked
    <3>6. Progress(r)'
      <4>1. Progress(r)
        BY <1>4 DEF SerialOK
      <4> QED
        BY ONLY <4>1, <3>1, <3>2, <3>3, <3>4 DEF Progress
    <3>7. Outcome(r)'
      <4>1. Outcome(r)
        BY <1>4 DEF SerialOK
      <4> QED
        BY ONLY <4>1, <3>1, <3>2, <3>3, <3>4 DEF Outcome
    <3> QED
      BY <3>5, <3>6, <3>7 DEF SerialOK
  <2>2. RowsKept
    BY <1>5 DEF vars, RowsKept
  <2> QED
    BY <1>3, <2>1, <2>2
<1>6. ASSUME NEW r \in Requests, NEW u \in Users, Decline(r, u)
      PROVE  SerialInv' /\ [Group!Next]_(Group!groupVars)
  BY <1>6, DeclineSerial, SerialDecline DEF Group!Next
<1>7. ASSUME NEW r \in Requests, NEW by \in Users, NEW u \in Users,
             RequireGroupAdmin(r, by, u) \/ Leave(r, u)
      PROVE  SerialInv' /\ [Group!Next]_(Group!groupVars)
  <2>1. SerialOK(r)' /\ RowsKept /\ pc'[r] # "idle"
    BY <1>7, StartSerial
  <2>2. \E l : Goto(r, l)
    BY <1>7 DEF RequireGroupAdmin, Leave, Start
  <2> QED
    BY <1>2, <1>3, <2>1, <2>2
<1>8. ASSUME NEW r \in Requests, NEW u \in Users, AcceptUpdate(r, u)
      PROVE  SerialInv' /\ [Group!Next]_(Group!groupVars)
  <2>1. SerialOK(r)' /\ RowsKept /\ pc'[r] # "idle"
    BY <1>8, AcceptUpdateSerial
  <2>2. \E l : Goto(r, l)
    BY <1>8 DEF AcceptUpdate, Start
  <2> QED
    BY <1>2, <1>3, <2>1, <2>2
<1>9. ASSUME NEW r \in Requests, SetRole(r)
      PROVE  SerialInv' /\ [Group!Next]_(Group!groupVars)
  <2>1. pc[r] # "idle" /\ Goto(r, "idle") /\ pc'[r] = "idle"
    BY <1>1, <1>9 DEF SetRole, End, Goto
  <2>2. SerialInv'
    BY <1>2, <2>1
  <2>3. \E by, u \in Users : Group!SetRole(by, u)
    BY <1>4, <1>9, SerialSetRole
  <2> QED
    BY <2>2, <2>3 DEF Group!Next
<1>10. ASSUME NEW r \in Requests, Commit(r)
       PROVE  SerialInv' /\ [Group!Next]_(Group!groupVars)
  <2>1. pc[r] # "idle" /\ Goto(r, "idle") /\ pc'[r] = "idle"
    BY <1>1, <1>10 DEF Commit, End, Goto
  <2>2. SerialInv'
    BY <1>2, <2>1
  <2>3. Group!Next
    BY <1>4, <1>10, SerialCommit
  <2> QED
    BY <2>2, <2>3
<1>11. ASSUME NEW r \in Requests, Cancel(r)
       PROVE  SerialInv' /\ [Group!Next]_(Group!groupVars)
  <2>1. pc[r] # "idle" /\ Goto(r, "idle") /\ pc'[r] = "idle" /\ RowsKept
    BY <1>1, <1>11, EndKeeps DEF Cancel, End, Goto
  <2> QED
    BY <1>2, <1>3, <2>1
(* A check or a statement that refuses, or goes on. *)
<1>12. ASSUME NEW r \in Requests,
              CheckTarget(r) \/ CheckOwner(r) \/ InviteSelect(r) \/ InviteUpdate(r) \/ InviteInsert(r)
       PROVE  SerialInv' /\ [Group!Next]_(Group!groupVars)
  <2>1. \E l : Goto(r, l)
    BY <1>12 DEF CheckTarget, CheckOwner, InviteSelect, InviteUpdate, InviteInsert, End
  <2>2. pc[r] # "idle"
    BY <1>12 DEF CheckTarget, CheckOwner, InviteSelect, InviteUpdate, InviteInsert
  <2>3. CASE pc'[r] = "idle"
    <3>1. UNCHANGED <<group, member, invite>>
      BY <1>1, <1>12, <2>3 DEF CheckTarget, CheckOwner, InviteSelect, InviteUpdate, InviteInsert, Goto
    <3> QED
      BY <1>2, <1>3, <2>1, <2>2, <2>3, <3>1, ReadKeeps
  <2>4. CASE pc'[r] # "idle"
    <3>1. SerialOK(r)' /\ RowsKept
      BY <1>4, <1>12, <2>4, CheckSerial, InviteSelectSerial, InviteWriteSerial
    <3> QED
      BY <1>2, <1>3, <2>1, <2>2, <3>1
  <2> QED
    BY <2>3, <2>4
<1>13. ASSUME NEW r \in Requests, AcceptInsert(r)
       PROVE  SerialInv' /\ [Group!Next]_(Group!groupVars)
  <2>1. \E l : Goto(r, l)
    BY <1>13 DEF AcceptInsert, End
  <2>2. pc[r] # "idle"
    BY <1>13 DEF AcceptInsert
  <2>3. CASE pc'[r] = "idle"
    <3>1. End(r) /\ Settle(r, FALSE)
      BY <1>1, <1>13, <2>3 DEF AcceptInsert, Goto
    <3> QED
      BY <1>2, <1>3, <2>1, <2>2, <2>3, <3>1, EndKeeps
  <2>4. CASE pc'[r] # "idle"
    <3>1. SerialOK(r)' /\ RowsKept
      BY <1>4, <1>13, <2>4, AcceptInsertSerial
    <3> QED
      BY <1>2, <1>3, <2>1, <2>2, <3>1
  <2> QED
    BY <2>3, <2>4
<1>14. ASSUME NEW r \in Requests, LeaveSelect(r)
       PROVE  SerialInv' /\ [Group!Next]_(Group!groupVars)
  <2>1. (\E l : Goto(r, l)) /\ pc[r] # "idle"
    BY <1>14 DEF LeaveSelect, End
  <2>2. RowsKept
    BY <1>14, ReadKeeps DEF LeaveSelect
  <2>3. pc'[r] # "idle" => SerialOK(r)'
    BY <1>4, <1>14, LeaveSelectSerial
  <2> QED
    BY <1>2, <1>3, <2>1, <2>2, <2>3
<1>15. ASSUME NEW r \in Requests,
              \/ LeaveDelete(r) \/ LeaveInvite(r) \/ LeaveList(r)
              \/ LeaveInvites(r) \/ LeaveGroup(r) \/ LeavePromote(r)
       PROVE  SerialInv' /\ [Group!Next]_(Group!groupVars)
  <2>1. (\E l : Goto(r, l)) /\ pc[r] # "idle"
    BY <1>15 DEF LeaveDelete, LeaveInvite, LeaveList, LeaveInvites, LeaveGroup, LeavePromote
  <2>2. SerialOK(r)' /\ RowsKept
    BY <1>4, <1>15, LeaveDeleteSerial, LeaveInviteSerial, LeaveListSerial, LeaveInvitesSerial,
       LeaveGroupSerial, LeavePromoteSerial
  <2> QED
    BY <1>2, <1>3, <2>1, <2>2
<1> QED
  BY <1>5, <1>6, <1>7, <1>8, <1>9, <1>10, <1>11, <1>12, <1>13, <1>14, <1>15 DEF Next

LEMMA AtomicStart == Init => Group!Init
<1> SUFFICES ASSUME Init PROVE Group!Init
  OBVIOUS
<1>1. PICK creator \in Users, direct \in SUBSET Users, now \in Times :
        member = [u \in Users |->
                    Committed(IF u = creator THEN [role |-> "owner", joined |-> now]
                              ELSE IF u \in direct THEN [role |-> "member", joined |-> now]
                              ELSE NoMember)]
  BY DEF Init
<1>2. existsRow = TRUE /\ inviteRow = [u \in Users |-> "none"]
  BY DEF Init, existsRow, inviteRow, Committed, NoInvite
<1>3. \A u \in Users :
        member[u].row = IF u = creator THEN [role |-> "owner", joined |-> now]
                        ELSE IF u \in direct THEN [role |-> "member", joined |-> now]
                        ELSE NoMember
  BY <1>1 DEF Committed
<1>4. roleRow = [u \in Users |-> IF u = creator THEN "owner"
                                 ELSE IF u \in direct THEN "member" ELSE "none"]
  BY <1>3 DEF roleRow, NoMember
<1>5. joinedRow = [u \in Users |-> IF u = creator \/ u \in direct THEN now ELSE 0]
  BY <1>3 DEF joinedRow, NoMember
<1> QED
  BY <1>2, <1>4, <1>5 DEF Group!Init

(***************************************************************************)
(* As long as no two requests are at work at the same time, the statements *)
(* and transactions of the program implement the atomic operations.        *)
(***************************************************************************)
THEOREM SerialRequestsAreAtomic == Spec /\ []NoOverlap => ImplementsGroups
<1>1. IInv /\ IInv' /\ SerialInv /\ [Next]_vars /\ NoOverlap /\ NoOverlap' =>
        SerialInv' /\ [Group!Next]_(Group!groupVars)
  BY SerialStep
<1> QED
  BY <1>1, Reachable, SerialInit, AtomicStart, PTL DEF Spec, ImplementsGroups, Group!Spec

--------------------------------------------------------------------------------
(* The atomic operations of Groups, on the committed rows. *)

AtomicInv == Group!TypeOK /\ Group!OneOwnerWhileItExists /\ Group!InvitesMatchMembers

LEMMA AtomicInit == Group!Init => AtomicInv
<1> SUFFICES ASSUME Group!Init PROVE AtomicInv
  OBVIOUS
<1> USE GroupRowsAssumption
<1>1. PICK creator \in Users, direct \in SUBSET Users, now \in Times :
        /\ existsRow = TRUE
        /\ roleRow = [u \in Users |-> IF u = creator THEN "owner"
                                      ELSE IF u \in direct THEN "member" ELSE "none"]
        /\ joinedRow = [u \in Users |-> IF u = creator \/ u \in direct THEN now ELSE 0]
        /\ inviteRow = [u \in Users |-> "none"]
  BY DEF Group!Init
<1>2. Group!TypeOK
  BY <1>1 DEF Group!TypeOK, Group!Role, Group!Status
<1>3. Group!Owners = {creator}
  BY <1>1 DEF Group!Owners
<1>4. Group!OneOwnerWhileItExists
  BY <1>1, <1>3 DEF Group!OneOwnerWhileItExists
<1>5. Group!InvitesMatchMembers
  BY <1>1 DEF Group!InvitesMatchMembers
<1> QED BY <1>2, <1>4, <1>5 DEF AtomicInv

(* In a group that exists the owner is determined by the roles. *)
LEMMA AtomicOwner ==
  ASSUME Group!OneOwnerWhileItExists, existsRow
  PROVE  \E o \in Users : roleRow[o] = "owner" /\ \A u \in Users : roleRow[u] = "owner" => u = o
BY DEF Group!OneOwnerWhileItExists, Group!Owners

LEMMA OwnerByRoles ==
  ASSUME NEW o \in Users, roleRow'[o] = "owner", \A u \in Users : roleRow'[u] = "owner" => u = o
  PROVE  Group!Owners' = {o}
BY DEF Group!Owners

(* The departure of a user, voluntary or not. *)
LEMMA AtomicDeparture ==
  ASSUME AtomicInv, NEW u \in Users, roleRow[u] # "none", Group!Depart(u)
  PROVE  AtomicInv'
<1> USE GroupRowsAssumption
<1> DEFINE left == Group!Members \ {u}
<1>1. existsRow
  BY DEF AtomicInv, Group!OneOwnerWhileItExists, Group!Members
<1>2. PICK o \in Users : roleRow[o] = "owner" /\ \A v \in Users : roleRow[v] = "owner" => v = o
  BY <1>1, AtomicOwner DEF AtomicInv
<1>3. CASE left = {} /\ existsRow' = FALSE /\ roleRow' = [roleRow EXCEPT ![u] = "none"]
           /\ inviteRow' = [v \in Users |-> "none"]
  <2>1. Group!TypeOK'
    BY <1>3 DEF AtomicInv, Group!TypeOK, Group!Depart, Group!Role
  <2>2. \A v \in Users : roleRow'[v] = "none" /\ inviteRow'[v] = "none"
    BY <1>3 DEF Group!Members, AtomicInv, Group!TypeOK
  <2>3. Group!Members' = {}
    BY <2>2 DEF Group!Members
  <2> QED
    BY <1>3, <2>1, <2>2, <2>3
       DEF AtomicInv, Group!OneOwnerWhileItExists, Group!InvitesMatchMembers
<1>4. CASE roleRow[u] # "owner" /\ roleRow' = [roleRow EXCEPT ![u] = "none"]
           /\ inviteRow' = [inviteRow EXCEPT ![u] = "none"] /\ existsRow' = existsRow
  <2>1. Group!TypeOK'
    BY <1>4 DEF AtomicInv, Group!TypeOK, Group!Depart
  <2>2. roleRow'[o] = "owner" /\ \A v \in Users : roleRow'[v] = "owner" => v = o
    BY <1>2, <1>4 DEF AtomicInv, Group!TypeOK
  <2>3. Group!Owners' = {o}
    BY <2>2, OwnerByRoles
  <2>4. Group!InvitesMatchMembers'
    BY <1>4 DEF AtomicInv, Group!InvitesMatchMembers, Group!TypeOK
  <2> QED BY <1>1, <1>4, <2>1, <2>3, <2>4 DEF AtomicInv, Group!OneOwnerWhileItExists
<1>5. CASE \E heir \in Group!Earliest(left) :
             /\ roleRow[u] = "owner"
             /\ roleRow' = [roleRow EXCEPT ![u] = "none", ![heir] = "owner"]
             /\ inviteRow' = [inviteRow EXCEPT ![u] = "none"]
             /\ existsRow' = existsRow
  <2>1. PICK heir \in Group!Earliest(left) :
          /\ roleRow[u] = "owner"
          /\ roleRow' = [roleRow EXCEPT ![u] = "none", ![heir] = "owner"]
          /\ inviteRow' = [inviteRow EXCEPT ![u] = "none"]
          /\ existsRow' = existsRow
    BY <1>5
  <2>2. heir \in Users /\ heir # u /\ roleRow[heir] # "none"
    BY <2>1 DEF Group!Earliest, Group!Members
  <2>3. Group!TypeOK'
    BY <2>1, <2>2 DEF AtomicInv, Group!TypeOK, Group!Depart, Group!Role
  <2>4. roleRow'[heir] = "owner" /\ \A v \in Users : roleRow'[v] = "owner" => v = heir
    BY <1>2, <2>1, <2>2 DEF AtomicInv, Group!TypeOK
  <2>5. Group!Owners' = {heir}
    BY <2>2, <2>4, OwnerByRoles
  <2>6. Group!InvitesMatchMembers'
    BY <2>1, <2>2 DEF AtomicInv, Group!InvitesMatchMembers, Group!TypeOK
  <2> QED BY <1>1, <2>1, <2>2, <2>3, <2>5, <2>6 DEF AtomicInv, Group!OneOwnerWhileItExists
<1> QED BY <1>3, <1>4, <1>5 DEF Group!Depart

LEMMA AtomicStep == AtomicInv /\ [Group!Next]_(Group!groupVars) => AtomicInv'
<1> SUFFICES ASSUME AtomicInv, [Group!Next]_(Group!groupVars) PROVE AtomicInv'
  OBVIOUS
<1> USE GroupRowsAssumption
(* A step that leaves the owner alone and keeps invitations consistent. *)
<1>1. ASSUME Group!TypeOK', existsRow, existsRow' = existsRow,
             \A v \in Users : roleRow'[v] = "owner" <=> roleRow[v] = "owner",
             Group!InvitesMatchMembers'
      PROVE  AtomicInv'
  <2>1. Group!Owners' = Group!Owners
    BY <1>1 DEF Group!Owners
  <2> QED BY <1>1, <2>1 DEF AtomicInv, Group!OneOwnerWhileItExists
<1>2. ASSUME NEW v \in Users, roleRow[v] # "none" \/ inviteRow[v] # "none" PROVE existsRow
  BY <1>2 DEF AtomicInv, Group!OneOwnerWhileItExists, Group!Members
<1>3. ASSUME NEW u \in Users, Group!Accept(u) PROVE AtomicInv'
  <2>1. Group!TypeOK'
    BY <1>3 DEF Group!Accept, AtomicInv, Group!TypeOK, Group!Role, Group!Status
  <2>2. Group!InvitesMatchMembers' /\ \A v \in Users : roleRow'[v] = "owner" <=> roleRow[v] = "owner"
    BY <1>3 DEF Group!Accept, AtomicInv, Group!TypeOK, Group!InvitesMatchMembers
  <2> QED BY <1>1, <1>2, <1>3, <2>1, <2>2 DEF Group!Accept
<1>4. ASSUME NEW u \in Users, Group!Decline(u) PROVE AtomicInv'
  <2>1. Group!TypeOK' /\ Group!InvitesMatchMembers'
    BY <1>4 DEF Group!Decline, AtomicInv, Group!TypeOK, Group!InvitesMatchMembers, Group!Status
  <2> QED BY <1>1, <1>2, <1>4, <2>1 DEF Group!Decline
<1>5. ASSUME NEW u \in Users, NEW by \in Users, Group!Invite(by, u) PROVE AtomicInv'
  <2>1. Group!TypeOK' /\ Group!InvitesMatchMembers'
    BY <1>5 DEF Group!Invite, AtomicInv, Group!TypeOK, Group!InvitesMatchMembers, Group!Status
  <2> QED BY <1>1, <1>2, <1>5, <2>1 DEF Group!Invite, Group!IsAdmin
<1>6. ASSUME NEW u \in Users, NEW by \in Users, Group!SetRole(by, u) PROVE AtomicInv'
  <2>1. /\ Group!TypeOK' /\ Group!InvitesMatchMembers'
        /\ \A v \in Users : roleRow'[v] = "owner" <=> roleRow[v] = "owner"
    BY <1>6 DEF Group!SetRole, AtomicInv, Group!TypeOK, Group!InvitesMatchMembers, Group!Role
  <2> QED BY <1>1, <1>2, <1>6, <2>1 DEF Group!SetRole
<1>7. ASSUME NEW u \in Users, Group!Leave(u) PROVE AtomicInv'
  BY <1>7, AtomicDeparture DEF Group!Leave
<1>8. ASSUME NEW u \in Users, NEW by \in Users, Group!Remove(by, u) PROVE AtomicInv'
  BY <1>8, AtomicDeparture DEF Group!Remove
<1>9. CASE UNCHANGED Group!groupVars
  BY <1>9 DEF Group!groupVars, AtomicInv, Group!TypeOK, Group!OneOwnerWhileItExists,
     Group!InvitesMatchMembers, Group!Owners, Group!Members
<1> QED BY <1>3, <1>4, <1>5, <1>6, <1>7, <1>8, <1>9 DEF Group!Next

LEMMA AtomicCorrect == Group!Spec => []AtomicInv
BY AtomicInit, AtomicStep, PTL DEF Group!Spec


(***************************************************************************)
(* Without overlaps the group has exactly one owner as long as it exists,  *)
(* and a deleted one leaves neither members nor invitations behind.        *)
(***************************************************************************)
THEOREM SerialGroupHasOneOwner == Spec /\ []NoOverlap => []OneOwnerWhileItExists
BY SerialRequestsAreAtomic, AtomicCorrect, PTL DEF ImplementsGroups, AtomicInv, OneOwnerWhileItExists

(***************************************************************************)
(* Without overlaps no member has an invitation left to answer, and every  *)
(* accepted invitation is a member's.                                      *)
(***************************************************************************)
THEOREM SerialInvitesMatchMembers == Spec /\ []NoOverlap => []InvitesMatchMembers
BY SerialRequestsAreAtomic, AtomicCorrect, PTL DEF ImplementsGroups, AtomicInv, InvitesMatchMembers
================================================================================
