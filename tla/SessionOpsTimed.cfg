SPECIFICATION TimedSpec
CONSTANTS
  inj = inj
  pau = pau
  hard = hard
  abt = abt
  rsm = rsm
  ans = ans
  ext1 = ext1
  ro = ro
  mu = mu
  ga = ga
  sp = sp
  su = su
  Ops = {pau, inj}
  Kind <- CallKind
  ResumeTimes = {1}
  AbortReasons = {"given"}
  TTL = 0
  MaxNow = 2
  MaxRestarts = 1
  Gate = Gate
  Timer = Timer
  None = None
INVARIANT ConsumedMeansAnswered
PROPERTY TimedPauseEnds
