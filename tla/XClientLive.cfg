\* Two calls to one server, in the modes that make calls.
SPECIFICATION FairSpec
CONSTANTS
  s = s
  t = t
  p = p
  q = q
  NoKey = NoKey
  NoProc = NoProc
  Procs = {p, q}
  Keys = {s}
  Lists <- AllOfThem
  Retries = 1
  MaxConns = 2
  Ops = {"Call"}
  FailModes = {"FailTry", "FailOver", "FailFast"}
PROPERTIES CallReturns
