CONSTANTS
  Tokens = {t1, t2, t3}
  Calls = {upload, query}
  Uploads = {upload}
  Wires = {w1, w2}
  Streams = {m1, m2}
  Drafts = {u1, u2}
  NoToken = NoToken
  NoDraft = NoDraft
SPECIFICATION PageSpec
CONSTRAINT Scope
INVARIANTS PageTypeOK SingleFlightIsEnough LeavesNothingBehind
PROPERTIES CallsEnd 
CHECK_DEADLOCK FALSE
