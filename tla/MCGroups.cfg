SPECIFICATION HistorySpec
CHECK_DEADLOCK FALSE
CONSTANTS
  Users = {ann, bob, cat}
  Reqs = {r1, r2, r3}
  None = None
SYMMETRY Symmetry
INVARIANT SomebodyIsInCharge
PROPERTIES  RemovalRespectsRank
