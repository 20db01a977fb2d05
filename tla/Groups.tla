--------------------------------- MODULE Groups ---------------------------------
(***************************************************************************)
(* What the group endpoints of VibeNet promise for one group, each         *)
(* operation being a single step: who belongs to it with which role, and   *)
(* which invitation each user has.  GroupStore refines it as long as the   *)
(* requests on the group do not overlap.                                   *)
(***************************************************************************)
EXTENDS GroupRows

VARIABLES
  exists,  \* the groups row exists
  role,    \* role[u]: the role in u's group_members row, "none" without a row
  joined,  \* joined[u]: joined_at of u's row
  invite   \* invite[u]: the status of u's group_invites row, "none" without one

groupVars == <<exists, role, joined, invite>>

TypeOK ==
  /\ exists \in BOOLEAN
  /\ role \in [Users -> Role \cup {"none"}]
  /\ joined \in [Users -> Nat]
  /\ invite \in [Users -> Status \cup {"none"}]

Members == {u \in Users : role[u] # "none"}
Owners == {u \in Users : role[u] = "owner"}

(* The members no other member of the set joined before; creation stamps *)
(* all its members with one reading, so there may be several.            *)
Earliest(members) == {u \in members : \A v \in members : joined[u] <= joined[v]}

(* CreateGroup: a creator and the members added directly. *)
Init ==
  \E creator \in Users, direct \in SUBSET Users, now \in Times :
    /\ exists = TRUE
    /\ role = [u \in Users |-> IF u = creator THEN "owner"
                               ELSE IF u \in direct THEN "member" ELSE "none"]
    /\ joined = [u \in Users |-> IF u = creator \/ u \in direct THEN now ELSE 0]
    /\ invite = [u \in Users |-> "none"]

IsAdmin(u) == role[u] \in {"owner", "admin"}

Invite(by, u) ==
  /\ IsAdmin(by)
  /\ role[u] = "none"
  /\ invite' = [invite EXCEPT ![u] = "pending"]
  /\ UNCHANGED <<exists, role, joined>>

Accept(u) ==
  /\ invite[u] = "pending"
  /\ invite' = [invite EXCEPT ![u] = "accepted"]
  /\ role' = [role EXCEPT ![u] = "member"]
  /\ \E now \in Times : joined' = [joined EXCEPT ![u] = now]
  /\ UNCHANGED exists

Decline(u) ==
  /\ invite[u] = "pending"
  /\ invite' = [invite EXCEPT ![u] = "declined"]
  /\ UNCHANGED <<exists, role, joined>>

SetRole(by, u) ==
  /\ IsAdmin(by)
  /\ role[u] \in {"admin", "member"}
  /\ \E r \in {"admin", "member"} : role' = [role EXCEPT ![u] = r]
  /\ UNCHANGED <<exists, joined, invite>>

(* The last member takes the group and its invitations with it; an owner *)
(* hands over to an earliest-joined remaining member.                    *)
Depart(u) ==
  LET left == Members \ {u}
  IN /\ joined' = [joined EXCEPT ![u] = 0]
     /\ \/ /\ left = {}
           /\ exists' = FALSE
           /\ role' = [role EXCEPT ![u] = "none"]
           /\ invite' = [v \in Users |-> "none"]
        \/ /\ left # {}
           /\ role[u] # "owner"
           /\ role' = [role EXCEPT ![u] = "none"]
           /\ invite' = [invite EXCEPT ![u] = "none"]
           /\ UNCHANGED exists
        \/ /\ role[u] = "owner"
           /\ \E heir \in Earliest(left) :
                role' = [role EXCEPT ![u] = "none", ![heir] = "owner"]
           /\ invite' = [invite EXCEPT ![u] = "none"]
           /\ UNCHANGED exists

Leave(u) == role[u] # "none" /\ Depart(u)

Remove(by, u) ==
  /\ by # u
  /\ \/ IsAdmin(by) /\ role[u] = "member"
     \/ role[by] = "owner" /\ role[u] = "admin"
  /\ Depart(u)

Next ==
  \E u \in Users :
    \/ Accept(u) \/ Decline(u) \/ Leave(u)
    \/ \E by \in Users : Invite(by, u) \/ SetRole(by, u) \/ Remove(by, u)

Spec == Init /\ [][Next]_groupVars

--------------------------------------------------------------------------------
(***************************************************************************)
(* The group row, its members, its owner and its invitations appear and    *)
(* disappear together: a group that exists has exactly one owner, and a    *)
(* deleted one has left neither members nor invitations behind.            *)
(***************************************************************************)
OneOwnerWhileItExists ==
  /\ exists => \E u \in Users : Owners = {u}
  /\ ~exists => Members = {} /\ \A u \in Users : invite[u] = "none"

(***************************************************************************)
(* An invitation and a membership never contradict each other: a member    *)
(* has no invitation left to answer, and an accepted invitation belongs to *)
(* a member, so that AddGroupMember's answer "already a member" is true    *)
(* and whoever left can be invited again.                                  *)
(***************************************************************************)
InvitesMatchMembers ==
  \A u \in Users :
    /\ role[u] # "none" => invite[u] \notin {"pending", "declined"}
    /\ invite[u] = "accepted" => role[u] # "none"
================================================================================
