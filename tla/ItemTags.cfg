SPECIFICATION Spec
CONSTANTS
  r1 = r1
  r2 = r2
  r3 = r3
  x = x
  a = a
  b = b
  t = t
  u = u
  Requests = {r1, r2, r3}
  Earlier = Earlier
  Items = {x}
  Names = {a, b}
  Types = {t, u}
  Jobs <- MCJobs
  Alphabet <- MCAlphabet
  PageSize = 2
  Faults = {"abort", "lost"}
INVARIANTS
  OneOfEach
  RepliesAreWhole
PROPERTIES
  TypedForGood
  AcknowledgedIsStored
  EveryRequestEnds
CHECK_DEADLOCK FALSE
