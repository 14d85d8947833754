\* Two goroutines and two servers, in every fail mode.
SPECIFICATION Spec
CONSTANTS
  s = s
  t = t
  p = p
  q = q
  NoKey = NoKey
  NoProc = NoProc
  Procs = {p, q}
  Keys = {s, t}
  Lists <- AnyList
  Retries = 1
  MaxConns = 2
  Ops = {"Call", "Go"}
  FailModes = {"FailTry", "FailOver", "FailFast", "FailBackup"}
SYMMETRY Symmetry
INVARIANTS TypeOK NoStrandedWaiter RightServer ClosedForReason AnswerIsResult
PROPERTIES EvictedForReason
