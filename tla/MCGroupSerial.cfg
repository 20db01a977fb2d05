SPECIFICATION Spec
CONSTANTS
  Users = {u1, u2, u3}
  Requests = {r1}
  Ops = {"invite", "accept", "decline", "role", "leave", "remove"}
  Times = {1, 2}
  InviteIds = {1, 2, 3}
  NoRequest = NoRequest
  Nobody = Nobody
INVARIANTS
  OneOwnerWhileItExists
  InvitesMatchMembers
PROPERTIES
  ImplementsGroups
