SPECIFICATION Spec
CONSTANTS
  Cap = 2
  Sizes = {1}
  Branches = 2
  Operators = {}
  Grants = {1}
  SigAt = 1
  FinalReport = TRUE
  MaxCrashes = 1
  MaxFaults = 1
  MaxSpend = 5
  MaxRequests = 1
CHECK_DEADLOCK FALSE
INVARIANT NoPhantomCharge
