SPECIFICATION MCSpec
CONSTANTS
  s1 = s1
  i1 = i1
  b1 = b1
  drainer = drainer
  nobody = nobody
  None = None
  Subs = {c1, c2}
  Procs = {p1, p2}
  Interval = 2
  Jitter = 2
  StaleAfter = 1
  RetryFor = 2
  MaxNow = 3
  MaxFaults = 1
CHECK_DEADLOCK FALSE
INVARIANTS TicksAreKept
PROPERTIES LeaseSettles BootDrainEnds LeavesWhenTold ImplementsFeed NobodyStranded
