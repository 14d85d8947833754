\* One server with two lives, one of its two services and agents watched.
SPECIFICATION FairSpec
CONSTANTS
  s = s
  t = t
  n = n
  m = m
  a = a
  b = b
  w = w
  v = v
  NoName = NoName
  Torn = Torn
  Servers = {s}
  Services = {n}
  Agents = {a, b}
  MaxTrials = 2
  Watchers = {w}
  Kinds = {"consul", "multi", "peer"}
  ChanCap = 1
  Service = n
  Agent = a
INVARIANTS TypeOK RegisterTellsTruth StaysListed SettledIsNewest
PROPERTIES Converges
CHECK_DEADLOCK FALSE
