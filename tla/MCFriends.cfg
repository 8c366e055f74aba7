SPECIFICATION HistorySpec
CONSTANTS
  Users = {ann, bob}
  OpenUsers = {ann, bob}
  RequestIds = {i1, i2, i3}
  Reqs = {r1, r2}
  None = None
SYMMETRY UsersSymmetry
INVARIANTS FriendCountIsExact RequestsAreTrue
PROPERTIES SeveredUntilUnblocked ImplementsFriendGraph
