SPECIFICATION MCSpec
CONSTANTS
  s1 = s1
  s2 = s2
  i1 = i1
  i2 = i2
  a1 = a1
  c1 = c1
  c2 = c2
  c3 = c3
  own = own
  gst = gst
  o1 = o1
  p1 = p1
  w1 = w1
  Ids = {f1, f2, f3}
  None = None
  Sessions = {s1, s2}
  Turns <- InjectTurns
  SessionOf <- InjectSessionOf
  Kind <- InjectKind
  Known = {s1}
  Leftover = {}
  Drainer = drainer
  Nobody = nobody
SYMMETRY Alike
CHECK_DEADLOCK FALSE
INVARIANTS TypeOK SurvivorsMarkedOnDisk MarksTellTheTruth  
PROPERTIES NoClearUnderATurn  RunsEndInOrder 
