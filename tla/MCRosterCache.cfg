SPECIFICATION Spec
CONSTANTS
  Users = {u1, u2}
  Frames = {f1, f2}
  Changes = {q1}
  TTL = 1
  Timeout = 1
  MaxTime = 4
  NoUser = NoUser
SYMMETRY Symmetry
INVARIANTS
  FanoutIsRecent
  PosterWasMember
  WrongOnlyByRace
