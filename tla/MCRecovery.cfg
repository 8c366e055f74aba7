SPECIFICATION HistorySpec
CONSTANTS
  MaxCodes = 2
  MaxRows = 2
  MAX_ATTEMPTS = 2
  MAX_REQUESTS_PER_HOUR = 2
  Reporters = {bob}
  Reports = {n1, n2}
  Targets = {"user", "content"}
  Reqs = {r1, r2}
  None = None
SYMMETRY Symmetry
INVARIANTS GuessesBounded CodesAreSingleUse OneDecisionEach
CHECK_DEADLOCK FALSE
