SPECIFICATION HistorySpec
CONSTANTS
  Users = {ann, bob}
  CallIds = {c1, c2}
  Reqs = {r1, r2}
  None = None
CONSTRAINT Scope
INVARIANTS LogIsSound NoticesMatchLog
PROPERTIES LogIsFinal RingingStops ImplementsCallLog
