SPECIFICATION Spec
CONSTANTS
  alice = alice
  bob = bob
  dm = dm
  group = group
  toBob = toBob
  toAlice = toAlice
  toGroup = toGroup
  Users = {alice, bob}
  Rooms = {dm, group}
  Party <- MCParty
  Frames = {toBob, toAlice, toGroup}
  Room <- MCRoom
  GroupFrames = {toGroup}
  Sender <- MCSender
  Receiver <- MCReceiver
  Stamps = {1, 2}
  PoolSize = 2
  DefaultLimit = 1
  MaxLimit = 2
  None = None
INVARIANTS
  TypeOK
  SavedIsKept
  HistoryIsNewest
  BothSidesDiscover
  IndexedIsFound
PROPERTIES
  GoroutinesEnd
CHECK_DEADLOCK FALSE
