SPECIFICATION PresenceSpec
CONSTANTS
  alice = alice
  bob = bob
  a1 = a1
  a2 = a2
  b1 = b1
  Users <- MCUsers
  Conns = {a1, a2, b1}
  Owner <- MCOwner
  NoConn = NoConn
  Queried = {alice}
  NoUser = NoUser
  MaxTime = 1
SYMMETRY Symmetry
INVARIANTS
  PresenceTypeOK
  LastWordIsTrue
  LastSeenIsLastEnd
CHECK_DEADLOCK FALSE
