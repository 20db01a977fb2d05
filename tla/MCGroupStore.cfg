SPECIFICATION Spec
CONSTANTS
  Users = {u1, u2, u3}
  Requests = {r1, r2}
  Ops = {"invite", "accept", "decline", "leave"}
  Times = {1}
  InviteIds = {1, 2, 3}
  NoRequest = NoRequest
  Nobody = Nobody
SYMMETRY Symmetry
INVARIANTS
  AcceptedMeansMember
PROPERTIES
  JoinByConsent
