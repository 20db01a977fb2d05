SPECIFICATION Spec
CONSTANTS
  before = before
  first = first
  second = second
  third = third
  chosen = chosen
  Servers = {s1, s2}
  WindowSeconds = 3
  Skew = 1
  MaxTime = 8
  Pins = {before, first, second, third, chosen}
  codeForWindow <- MCCodes
  Requests = {r1, r2}
  None = None
SYMMETRY Symmetry
INVARIANTS
  TypeOK
  ShownCodeWorks
  ExpiredCodeFails
  OncePinnedNeverLocked
