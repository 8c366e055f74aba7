SPECIFICATION HistorySpec
CONSTANTS
  Users = {ann, bob}
  Convs = {c1, c2}
  Msgs = {m1, m2}
  Nonces = {n1}
  Reqs = {r1, r2}
  None = None
SYMMETRY Symmetry
INVARIANTS TypeOK NonceIsIdempotent
PROPERTIES OneThread LeaverStaysOut
