SPECIFICATION MCSpec
CONSTANTS
  inj = inj
  pau = pau
  hard = hard
  abt = abt
  rsm = rsm
  ans = ans
  ext1 = ext1
  ro = ro
  mu = mu
  ga = ga
  sp = sp
  su = su
  Ops = {inj}
  Kind <- CallKind
  ResumeTimes = {0}
  AbortReasons = {"given"}
  TTL = 0
  MaxNow = 1
  MaxRestarts = 0
  Gate = Gate
  Timer = Timer
  None = None
INVARIANT ApprovedFiresOnce
