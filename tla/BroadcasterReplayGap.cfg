SPECIFICATION Spec
CONSTANTS
  Subs = {c1, c2}
  MaxReplay = 1
  Pumps = 2
  MaxSeq = 2
CHECK_DEADLOCK FALSE
INVARIANT ReplayHasNoHoles
