SPECIFICATION HistorySpec
CONSTANTS
  Users = {ann}
  Agents = {web}
  Devices = {d1}
  SessionIds = {s1, s2}
  Reqs = {r1}
  None = None
SYMMETRY Symmetry
INVARIANT BannedHasNoSession
