SPECIFICATION Spec
CONSTANTS
  Users = {u1, u2, u3}
  Requests = {r1, r2, r3}
  Ops = {"role", "leave", "remove"}
  Times = {1}
  InviteIds = {1, 2, 3}
  NoRequest = NoRequest
  Nobody = Nobody
SYMMETRY Symmetry
INVARIANTS
  TypeOK
PROPERTIES
  OwnerIsNotDemoted
  OwnerBySuccession
