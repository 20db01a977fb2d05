------------------------------- MODULE GroupStore -------------------------------
(***************************************************************************)
(* One group in Postgres (internal/db/groups.go) and the HTTP handlers     *)
(* that change it (internal/api/groups.go).  Every request runs in a       *)
(* goroutine of its own; it is a sequence of SQL statements, some of them  *)
(* in a transaction, and the statements of concurrent requests interleave. *)
(*                                                                         *)
(* Postgres runs the transactions at its default level, READ COMMITTED:    *)
(* every statement sees what is committed when it runs and the writes of   *)
(* its own transaction; UPDATE and DELETE wait for a row another           *)
(* transaction has written and then look at it again; INSERT waits for     *)
(* another transaction that has written the same key.                      *)
(*                                                                         *)
(* A request refused by its first check changes nothing and is not a step. *)
(***************************************************************************)
EXTENDS GroupRows

CONSTANTS
  Requests,   \* the requests in progress at one time
  Ops,        \* the operations requested (a bound: all of them in the program)
  InviteIds,  \* identities of the invitations of one user
  NoRequest,  \* "no transaction has written the row"
  Nobody      \* "no user"

ASSUME GroupStoreAssumption ==
  /\ Ops \subseteq {"invite", "accept", "decline", "role", "leave", "remove"}
  /\ InviteIds \subseteq Nat \ {0}
  /\ NoRequest \notin Requests
  /\ Nobody \notin Users

VARIABLES
  group,   \* the groups row: whether it exists
  member,  \* member[u]: the group_members row of u
  invite,  \* invite[u]: the group_invites row addressed to u
  pc,      \* the statement each request runs next
  call     \* the parameters and local variables of each request

vars == <<group, member, invite, pc, call>>

NoId == 0
NoMember == [role |-> "none", joined |-> 0]
NoInvite == [status |-> "none", id |-> NoId]

MemberRow == [role : Role \cup {"none"}, joined : Times \cup {0}]
InviteRow == [status : Status \cup {"none"}, id : InviteIds \cup {NoId}]

(* A row: the committed version, the version of the transaction holding *)
(* its lock, and that transaction.                                      *)
Versioned(S) == [row : S, draft : S, holder : Requests \cup {NoRequest}]
Committed(v) == [row |-> v, draft |-> v, holder |-> NoRequest]

Op == {"none", "invite", "accept", "role", "leave", "remove"}
PC == {"idle", "checkTarget", "checkOwner", "setRole", "inviteSelect", "inviteUpdate",
       "inviteInsert", "acceptInsert", "leaveSelect", "leaveDelete", "leaveInvite",
       "leaveList", "leaveInvites", "leaveGroup", "leavePromote", "commit"}

(* by: the caller; target: the user it is about; role: leaving.Role or the *)
(* new role; id: existing.InviteID; heir: the successor.                   *)
Call == [op : Op, by : Users \cup {Nobody}, target : Users \cup {Nobody},
         role : Role \cup {"none"}, id : InviteIds \cup {NoId}, heir : Users \cup {Nobody}]

NoCall == [op |-> "none", by |-> Nobody, target |-> Nobody, role |-> "none",
           id |-> NoId, heir |-> Nobody]

TypeOK ==
  /\ group \in Versioned(BOOLEAN)
  /\ member \in [Users -> Versioned(MemberRow)]
  /\ invite \in [Users -> Versioned(InviteRow)]
  /\ pc \in [Requests -> PC]
  /\ call \in [Requests -> Call]

(* CreateGroup inserts the group and its first members in one transaction, *)
(* all with one reading of the clock; nobody knows the group before.       *)
Init ==
  /\ group = Committed(TRUE)
  /\ \E creator \in Users, direct \in SUBSET Users, now \in Times :
       member = [u \in Users |->
                   Committed(IF u = creator THEN [role |-> "owner", joined |-> now]
                             ELSE IF u \in direct THEN [role |-> "member", joined |-> now]
                             ELSE NoMember)]
  /\ invite = [u \in Users |-> Committed(NoInvite)]
  /\ pc = [r \in Requests |-> "idle"]
  /\ call = [r \in Requests |-> NoCall]

--------------------------------------------------------------------------------
(* Rows under READ COMMITTED. *)

(* What a statement of request r sees of a row. *)
Sees(r, x) == IF x.holder = r THEN x.draft ELSE x.row

(* No other transaction has written the row: a statement of r that is to *)
(* write it need not wait.                                               *)
Free(r, x) == x.holder \in {NoRequest, r}

(* The row with the version v that r writes. *)
Written(r, x, v) == [x EXCEPT !.draft = v, !.holder = r]

(* The row after r commits or rolls back. *)
Settled(r, x, kept) ==
  IF x.holder # r THEN x ELSE Committed(IF kept THEN x.draft ELSE x.row)

Settle(r, kept) ==
  /\ group' = Settled(r, group, kept)
  /\ member' = [u \in Users |-> Settled(r, member[u], kept)]
  /\ invite' = [u \in Users |-> Settled(r, invite[u], kept)]

Goto(r, l) == pc' = [pc EXCEPT ![r] = l]

Start(r, l, op, by, target, role) ==
  /\ pc[r] = "idle"
  /\ op \in Ops
  /\ Goto(r, l)
  /\ call' = [call EXCEPT ![r] = [NoCall EXCEPT !.op = op, !.by = by, !.target = target, !.role = role]]

End(r) ==
  /\ Goto(r, "idle")
  /\ call' = [call EXCEPT ![r] = NoCall]

RoleOf(u) == member[u].row.role

--------------------------------------------------------------------------------
(* The checks of the handlers, each a statement of its own. *)

(* Mutant: the requested role is not validated. *)
RequireGroupAdmin_AnyRole(r, by, target) ==
  /\ RoleOf(by) \in {"owner", "admin"}
  /\ \E role \in {"admin", "moderator"} : Start(r, "checkTarget", "role", by, target, role)
  /\ UNCHANGED <<group, member, invite>>

(* requireGroupAdmin, on behalf of AddGroupMember, UpdateMemberRole and *)
(* RemoveGroupMember.                                                   *)
RequireGroupAdmin(r, by, target) ==
  /\ RoleOf(by) \in {"owner", "admin"}
  /\ \/ by # target /\ Start(r, "checkTarget", "invite", by, target, "none")
     \/ by # target /\ Start(r, "checkTarget", "remove", by, target, "none")
     \/ \E role \in {"admin", "member"} : Start(r, "checkTarget", "role", by, target, role)
  /\ UNCHANGED <<group, member, invite>>

(* IsGroupMember of the invitee, or GetGroupMemberRole of the target. *)
CheckTarget(r) ==
  LET role == RoleOf(call[r].target)
      op == call[r].op
  IN /\ pc[r] = "checkTarget"
     /\ IF (op = "invite") # (role = "none") \/ role = "owner"
        THEN End(r)
        ELSE /\ Goto(r, CASE op = "invite" -> "inviteSelect"
                          [] op = "role" -> "setRole"
                          [] op = "remove" -> IF role = "admin" THEN "checkOwner" ELSE "leaveSelect")
             /\ UNCHANGED call
     /\ UNCHANGED <<group, member, invite>>

(* Only the owner removes an admin. *)
CheckOwner(r) ==
  /\ pc[r] = "checkOwner"
  /\ IF RoleOf(call[r].by) = "owner" THEN Goto(r, "leaveSelect") /\ UNCHANGED call ELSE End(r)
  /\ UNCHANGED <<group, member, invite>>

--------------------------------------------------------------------------------
(* Mutant: the WHERE clause does not exclude the owner. *)
SetRole_OwnerToo(r) ==
  LET u == call[r].target
  IN /\ pc[r] = "setRole"
     /\ IF RoleOf(u) = "none"
        THEN UNCHANGED member
        ELSE /\ Free(r, member[u])
             /\ member' = [member EXCEPT ![u] =
                             Committed([@.row EXCEPT !.role = call[r].role])]
     /\ End(r)
     /\ UNCHANGED <<group, invite>>

(* UpdateMemberRole: one UPDATE, whose WHERE clause excludes the owner. *)
SetRole(r) ==
  LET u == call[r].target
  IN /\ pc[r] = "setRole"
     /\ IF RoleOf(u) \in {"none", "owner"}
        THEN UNCHANGED member
        ELSE /\ Free(r, member[u])
             /\ member' = [member EXCEPT ![u] =
                             Committed([@.row EXCEPT !.role = call[r].role])]
     /\ End(r)
     /\ UNCHANGED <<group, invite>>

--------------------------------------------------------------------------------
(* CreateInvite. *)

InviteSelect(r) ==
  LET existing == Sees(r, invite[call[r].target])
  IN /\ pc[r] = "inviteSelect"
     /\ CASE existing.status = "accepted" -> End(r)
          [] existing = NoInvite -> Goto(r, "inviteInsert") /\ UNCHANGED call
          [] OTHER -> /\ Goto(r, "inviteUpdate")
                      /\ call' = [call EXCEPT ![r].id = existing.id]
     /\ UNCHANGED <<group, member, invite>>

(* The refresh by invite_id; that no row has it any more goes unnoticed. *)
InviteUpdate(r) ==
  LET u == call[r].target
      existing == Sees(r, invite[u])
  IN /\ pc[r] = "inviteUpdate"
     /\ IF existing.id # call[r].id
        THEN UNCHANGED invite
        ELSE /\ Free(r, invite[u])
             /\ invite' = [invite EXCEPT ![u] = Written(r, @, [existing EXCEPT !.status = "pending"])]
     /\ Goto(r, "commit")
     /\ UNCHANGED <<group, member, call>>

(* The first id that no row and no request refers to stands for a new uuid. *)
FreshIds(u) ==
  {id \in InviteIds : /\ id \notin {invite[u].row.id, invite[u].draft.id}
                     /\ \A r \in Requests : call[r].target = u => call[r].id # id}

NewId(u, id) == id \in FreshIds(u) /\ \A other \in FreshIds(u) : id <= other

InviteInsert(r) ==
  LET u == call[r].target
  IN /\ pc[r] = "inviteInsert"
     /\ Free(r, invite[u])
     /\ IF Sees(r, invite[u]) # NoInvite
        THEN End(r) /\ UNCHANGED invite
        ELSE /\ \E id \in InviteIds :
                  /\ NewId(u, id)
                  /\ invite' = [invite EXCEPT ![u] =
                                  Written(r, @, [status |-> "pending", id |-> id])]
             /\ Goto(r, "commit")
             /\ UNCHANGED call
     /\ UNCHANGED <<group, member>>

--------------------------------------------------------------------------------
(* Mutant: the invitation is looked up without its status. *)
AcceptUpdate_AnyStatus(r, u) ==
  /\ Sees(r, invite[u]) # NoInvite
  /\ Free(r, invite[u])
  /\ Start(r, "acceptInsert", "accept", u, u, "none")
  /\ invite' = [invite EXCEPT ![u] = Written(r, @, [@.row EXCEPT !.status = "accepted"])]
  /\ UNCHANGED <<group, member>>

(* AcceptInvite flips the caller's pending invitation to accepted. *)
AcceptUpdate(r, u) ==
  /\ Sees(r, invite[u]).status = "pending"
  /\ Free(r, invite[u])
  /\ Start(r, "acceptInsert", "accept", u, u, "none")
  /\ invite' = [invite EXCEPT ![u] = Written(r, @, [@.row EXCEPT !.status = "accepted"])]
  /\ UNCHANGED <<group, member>>

(* The membership row.  After a unique violation the code returns nil, but *)
(* Postgres has aborted the transaction and its COMMIT rolls back.         *)
AcceptInsert(r) ==
  LET u == call[r].target
  IN /\ pc[r] = "acceptInsert"
     /\ Free(r, member[u])
     /\ IF Sees(r, member[u]) # NoMember
        THEN End(r) /\ Settle(r, FALSE)
        ELSE /\ \E now \in Times :
                  member' = [member EXCEPT ![u] =
                               Written(r, @, [role |-> "member", joined |-> now])]
             /\ Goto(r, "commit")
             /\ UNCHANGED <<group, invite, call>>

(* DeclineInvite: one conditional UPDATE. *)
Decline(r, u) ==
  /\ pc[r] = "idle"
  /\ "decline" \in Ops
  /\ Free(r, invite[u])
  /\ invite[u].row.status = "pending"
  /\ invite' = [invite EXCEPT ![u] = Committed([@.row EXCEPT !.status = "declined"])]
  /\ UNCHANGED <<group, member, pc, call>>

--------------------------------------------------------------------------------
(* db.LeaveGroup, called by LeaveGroup for the caller and by *)
(* RemoveGroupMember for its target.                         *)

Leave(r, u) ==
  /\ Start(r, "leaveSelect", "leave", u, u, "none")
  /\ UNCHANGED <<group, member, invite>>

LeaveSelect(r) ==
  LET leaving == Sees(r, member[call[r].target])
  IN /\ pc[r] = "leaveSelect"
     /\ IF leaving = NoMember
        THEN End(r)
        ELSE Goto(r, "leaveDelete") /\ call' = [call EXCEPT ![r].role = leaving.role]
     /\ UNCHANGED <<group, member, invite>>

(* DELETE: a row that is gone by now is no error. *)
LeaveDelete(r) ==
  LET u == call[r].target
  IN /\ pc[r] = "leaveDelete"
     /\ IF Sees(r, member[u]) = NoMember
        THEN UNCHANGED member
        ELSE /\ Free(r, member[u])
             /\ member' = [member EXCEPT ![u] = Written(r, @, NoMember)]
     /\ Goto(r, "leaveInvite")
     /\ UNCHANGED <<group, invite, call>>

(* Deletes the invitations of the users in us that r sees. *)
DeleteInvites(r, us) ==
  LET seen == {u \in us : Sees(r, invite[u]) # NoInvite}
  IN /\ \A u \in seen : Free(r, invite[u])
     /\ invite' = [u \in Users |-> IF u \in seen THEN Written(r, invite[u], NoInvite)
                                   ELSE invite[u]]

(* Mutant: the leaver's invitation stays behind. *)
LeaveInvite_Kept(r) ==
  /\ pc[r] = "leaveInvite"
  /\ Goto(r, "leaveList")
  /\ UNCHANGED <<group, member, invite, call>>

LeaveInvite(r) ==
  /\ pc[r] = "leaveInvite"
  /\ DeleteInvites(r, {call[r].target})
  /\ Goto(r, "leaveList")
  /\ UNCHANGED <<group, member, call>>

(* Mutant: the successor is the member who joined last. *)
Earliest_Last(r, us) ==
  {u \in us : \A v \in us : Sees(r, member[v]).joined <= Sees(r, member[u]).joined}

(* The first of the rows ordered by joined_at, equal ones in any order. *)
Earliest(r, us) ==
  {u \in us : \A v \in us : Sees(r, member[u]).joined <= Sees(r, member[v]).joined}

(* Mutant: whoever leaves hands ownership over. *)
LeaveList_AnyLeaver(r) ==
  LET remaining == {u \in Users : Sees(r, member[u]) # NoMember}
  IN /\ pc[r] = "leaveList"
     /\ \E heir \in Earliest(r, remaining) : call' = [call EXCEPT ![r].heir = heir]
     /\ Goto(r, "leavePromote")
     /\ UNCHANGED <<group, member, invite>>

(* The remaining members decide what is left to do. *)
LeaveList(r) ==
  LET remaining == {u \in Users : Sees(r, member[u]) # NoMember}
  IN /\ pc[r] = "leaveList"
     /\ \/ /\ remaining = {}
           /\ Goto(r, "leaveInvites")
           /\ UNCHANGED call
        \/ /\ remaining # {}
           /\ call[r].role # "owner"
           /\ Goto(r, "commit")
           /\ UNCHANGED call
        \/ /\ call[r].role = "owner"
           /\ \E heir \in Earliest(r, remaining) : call' = [call EXCEPT ![r].heir = heir]
           /\ Goto(r, "leavePromote")
     /\ UNCHANGED <<group, member, invite>>

LeaveInvites(r) ==
  /\ pc[r] = "leaveInvites"
  /\ DeleteInvites(r, Users)
  /\ Goto(r, "leaveGroup")
  /\ UNCHANGED <<group, member, call>>

LeaveGroup(r) ==
  /\ pc[r] = "leaveGroup"
  /\ IF Sees(r, group)
     THEN Free(r, group) /\ group' = Written(r, group, FALSE)
     ELSE UNCHANGED group
  /\ Goto(r, "commit")
  /\ UNCHANGED <<member, invite, call>>

(* The UPDATE of the successor; that it is gone by now goes unnoticed. *)
LeavePromote(r) ==
  LET heir == call[r].heir
  IN /\ pc[r] = "leavePromote"
     /\ IF Sees(r, member[heir]) = NoMember
        THEN UNCHANGED member
        ELSE /\ Free(r, member[heir])
             /\ member' = [member EXCEPT ![heir] =
                             Written(r, @, [Sees(r, @) EXCEPT !.role = "owner"])]
     /\ Goto(r, "commit")
     /\ UNCHANGED <<group, invite, call>>

--------------------------------------------------------------------------------
Commit(r) ==
  /\ pc[r] = "commit"
  /\ Settle(r, TRUE)
  /\ End(r)

(* The client goes away, a statement fails, or Postgres picks r as the    *)
(* victim of a deadlock: the request stops and its transaction, if it has *)
(* one, rolls back.                                                       *)
Cancel(r) ==
  /\ pc[r] # "idle"
  /\ Settle(r, FALSE)
  /\ End(r)

Next ==
  \E r \in Requests :
    \/ \E u \in Users : AcceptUpdate(r, u) \/ Decline(r, u) \/ Leave(r, u)
    \/ \E by, target \in Users : RequireGroupAdmin(r, by, target)
    \/ CheckTarget(r) \/ CheckOwner(r) \/ SetRole(r)
    \/ InviteSelect(r) \/ InviteUpdate(r) \/ InviteInsert(r) \/ AcceptInsert(r)
    \/ LeaveSelect(r) \/ LeaveDelete(r) \/ LeaveInvite(r) \/ LeaveList(r)
    \/ LeaveInvites(r) \/ LeaveGroup(r) \/ LeavePromote(r)
    \/ Commit(r) \/ Cancel(r)

Spec == Init /\ [][Next]_vars

--------------------------------------------------------------------------------
Requesting(r, op) == pc[r] = "commit" /\ call[r].op = op

(***************************************************************************)
(* An accepted invitation belongs to a member, whatever requests run at    *)
(* the same time: CreateInvite takes the status for proof of membership,   *)
(* so LeaveGroup must never leave an accepted invitation behind, or its    *)
(* user could not be invited again.                                        *)
(***************************************************************************)
AcceptedMeansMember ==
  \A u \in Users : invite[u].row.status = "accepted" => RoleOf(u) # "none"

(***************************************************************************)
(* A user joins only by accepting, and by accepting what was a pending     *)
(* invitation to the moment of joining: an invitation that a concurrent    *)
(* request declined or cleared is not accepted any more.                   *)
(***************************************************************************)
JoinByConsent ==
  [][\A u \in Users : RoleOf(u) = "none" /\ RoleOf(u)' # "none" =>
       /\ invite[u].row.status = "pending"
       /\ invite'[u].row.status = "accepted"
       /\ \E r \in Requests : Requesting(r, "accept") /\ call[r].by = u]_vars

(***************************************************************************)
(* No role change demotes an owner, even one who became owner after the    *)
(* handler looked at the role: an owner stays one until leaving.           *)
(***************************************************************************)
OwnerIsNotDemoted ==
  [][\A u \in Users : RoleOf(u) = "owner" => RoleOf(u)' \in {"owner", "none"}]_vars

(***************************************************************************)
(* Ownership only comes from LeaveGroup of a user who was an owner, to a   *)
(* user who is a member at the time.                                       *)
(***************************************************************************)
OwnerBySuccession ==
  [][\A u \in Users : RoleOf(u) # "owner" /\ RoleOf(u)' = "owner" =>
       /\ RoleOf(u) # "none"
       /\ \E r \in Requests : /\ Requesting(r, "leave") \/ Requesting(r, "remove")
                              /\ call[r].role = "owner"
                              /\ call[r].heir = u]_vars

(* The atomic state a reader of the committed rows sees. *)
existsRow == group.row
roleRow == [u \in Users |-> member[u].row.role]
joinedRow == [u \in Users |-> member[u].row.joined]
inviteRow == [u \in Users |-> invite[u].row.status]

Group == INSTANCE Groups WITH exists <- existsRow, role <- roleRow,
                              joined <- joinedRow, invite <- inviteRow

(***************************************************************************)
(* Requests that do not overlap implement the atomic operations of Groups: *)
(* every transaction of a single request at a time is one of them.         *)
(***************************************************************************)
ImplementsGroups == Group!Spec

(* The promises of Groups, read off the committed rows: they too hold as   *)
(* long as requests do not overlap.  A group that exists has exactly one   *)
(* owner, a deleted one leaves neither members nor invitations.            *)
OneOwnerWhileItExists == Group!OneOwnerWhileItExists

(* Nobody is a member and has an invitation left to answer, and an         *)
(* accepted invitation is a member's (see Groups).                         *)
InvitesMatchMembers == Group!InvitesMatchMembers

--------------------------------------------------------------------------------
(* What the comments of the code say of requests that do overlap; none of  *)
(* it holds.                                                               *)

(***************************************************************************)
(* "Owner is set once at creation (or inherited by the earliest-joined     *)
(* member if the owner leaves)" (models/group.go:31-32), and the group of  *)
(* the last member is deleted "rather than left as an orphaned, memberless *)
(* row" (db/groups.go:237-238): a group has members, one of them the owner.*)
(***************************************************************************)
ExactlyOneOwner == group.row => \E u \in Users : \A v \in Users : RoleOf(v) = "owner" <=> v = u

(***************************************************************************)
(* "the group (and any pending invites for it) is deleted outright"        *)
(* (db/groups.go:236-237): a deleted group has no members and no invites.  *)
(***************************************************************************)
DeletedLeavesNothing ==
  ~group.row => \A u \in Users : RoleOf(u) = "none" /\ invite[u].row = NoInvite

(***************************************************************************)
(* "the membership check upstream should have caught it, but guard the     *)
(* race anyway" (db/groups.go:344-345): nobody who already joined is       *)
(* invited.                                                                *)
(***************************************************************************)
MemberHasNoPendingInvite ==
  \A u \in Users : RoleOf(u) # "none" => invite[u].row.status # "pending"

(***************************************************************************)
(* "the group's owner can never be removed here at all"                    *)
(* (api/groups.go:757-758).                                                *)
(***************************************************************************)
RemovalSparesOwner ==
  [][\A r \in Requests, u \in Users :
       Requesting(r, "remove") /\ call[r].target = u /\ RoleOf(u) = "owner" =>
         RoleOf(u)' = "owner"]_vars

(***************************************************************************)
(* "Because the caller (an existing owner/admin) always remains, the group *)
(* is never deleted by a removal" (api/groups.go:764-765).                 *)
(***************************************************************************)
RemovalKeepsGroup ==
  [][\A r \in Requests : Requesting(r, "remove") /\ group.row => group.row']_vars

(***************************************************************************)
(* "Already a member ... treat the accept as done rather than failing the  *)
(* whole transaction" (db/groups.go:447-448).                              *)
(***************************************************************************)
AcceptByMemberIsDone ==
  [][\A r \in Requests :
       pc[r] = "acceptInsert" /\ AcceptInsert(r) /\ RoleOf(call[r].by) # "none" =>
         invite'[call[r].by].row.status = "accepted"]_vars
================================================================================
