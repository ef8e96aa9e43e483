SPECIFICATION Spec
CONSTANTS
  Requests = {r1, r2, r3}
  Codes = {c1, c2}
  Names = {n1}
  Logins = {l1, l2}
  Faults = {"abort", "lost", "batch", "search"}
  None = None
INVARIANTS
  KeyIsItsOwn
  NoInheritedData
  UsersAndCustomersMatch
  WaitsAreShort
SYMMETRY Symmetry
CHECK_DEADLOCK FALSE
