SPECIFICATION SafetySpec
CONSTANTS
  alice = alice
  bob = bob
  a1 = a1
  a2 = a2
  b1 = b1
  Users <- MCUsers
  Conns = {a1, a2, b1}
  Tasks = {}
  Owner <- MCOwner
  NoConn = NoConn
  Capacity = 1
INVARIANTS
  TypeOK
  RegisteredIsOpen
  OnlyRegisteredSocketUp
  FanoutTargetsStay
  ClosedAfterReader
PROPERTIES
  OfflineByOwnEnd
CHECK_DEADLOCK FALSE
