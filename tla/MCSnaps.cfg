SPECIFICATION HistorySpec
CONSTANTS
  Users = {ann, bob}
  Owner = ann
  SnapIds = {s1}
  MsgIds = {m1}
  StoryIds = {t1}
  Privacies = {"friends"}
  Standings = {"friend", "blocked"}
  Reqs = {r1, r2}
  None = None
SYMMETRY Symmetry
INVARIANTS TypeOK CountsBounded
PROPERTIES GoneForGood BytesAreKept
