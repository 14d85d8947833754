\* A request whose method fails.
SPECIFICATION FairSpec
CONSTANTS
  c = c
  d = d
  r = r
  q = q
  o1 = o1
  o2 = o2
  o3 = o3
  NoConn = NoConn
  NoObject = NoObject
  Nobody = Nobody
  Conns = {c}
  Requests = {r}
  Whats = {"fails"}
  Objects = {o1, o2}
PROPERTIES FailureAnswered
