SPECIFICATION SafetySpec
CONSTANTS
  alice = alice
  bob = bob
  a1 = a1
  a2 = a2
  b1 = b1
  Users <- MCUsers
  Conns = {a1, a2}
  Tasks = {t1}
  Owner <- MCOwner
  NoConn = NoConn
  Capacity = 1
INVARIANTS
  NoSendOnClosedChannel
CHECK_DEADLOCK FALSE
