SPECIFICATION HistorySpec
CONSTANTS
  Users = {ann}
  Agents = {web}
  Devices = {d1, d2}
  SessionIds = {s1, s2, s3}
  Reqs = {r1, r2}
  None = None
SYMMETRY Symmetry
CONSTRAINT Scope
INVARIANTS FamilyIsOneChain PromisesKept
PROPERTY RetirementIsFinal
