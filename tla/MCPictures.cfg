SPECIFICATION Spec
CONSTANTS
  Subjects = {user, group}
  Groups = {group}
  Names = {n1, n2}
  Keys = {k1, k2}
  GooglePhoto = GooglePhoto
  NoPicture = NoPicture
  Blank = Blank
  None = None
  Requests = {r1, r2}
SYMMETRY Symmetry
INVARIANTS
  DanglesOnlyIfMisreported
  OrphansHaveAReason
  PeersAreCurrent
CHECK_DEADLOCK FALSE
