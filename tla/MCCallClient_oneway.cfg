SPECIFICATION SteadySpec
CONSTANTS
  ann = ann
  bob = bob
  Clients = {ann, bob}
  Calls = {c1}
  Caller <- MadeByAnn
  NoCall = NoCall
  RESTARTS = 1
  MaxFaults = 0
  MaxTimers = 1
PROPERTIES BothWays
CHECK_DEADLOCK FALSE
