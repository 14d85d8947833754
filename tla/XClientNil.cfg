\* A call returns nil though no server answered it.
SPECIFICATION Spec
CONSTANTS
  s = s
  t = t
  p = p
  q = q
  NoKey = NoKey
  NoProc = NoProc
  Procs = {p}
  Keys = {s}
  Lists <- AllOfThem
  Retries = 1
  MaxConns = 3
  Ops = {"Call"}
  FailModes = {"FailTry"}
INVARIANTS NilMeansServed
