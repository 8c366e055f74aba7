SPECIFICATION SteadySpec
CONSTANTS
  ann = ann
  bob = bob
  Clients = {ann, bob}
  Calls = {c1}
  Caller <- MadeByAnn
  NoCall = NoCall
  RESTARTS = 1
  MaxFaults = 1
  MaxTimers = 1
INVARIANT HookIsSound
PROPERTIES NegotiationSettles LeaverIsHeard
CHECK_DEADLOCK FALSE
