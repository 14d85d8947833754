\* Two requests, by one connection or by HTTP.
SPECIFICATION Spec
CONSTANTS
  c = c
  d = d
  r = r
  q = q
  o1 = o1
  o2 = o2
  o3 = o3
  NoConn = NoConn
  NoObject = NoObject
  Nobody = Nobody
  Conns = {c}
  Requests = {r, q}
  Whats = {"heartbeat", "nopath", "nocodec", "undecodable",
           "ok", "failsbad", "panics"}
  Objects = {o1, o2, o3}
SYMMETRY Symmetry
INVARIANTS TypeOK ServedIsTracked OneOwner ResponseIsOwn ResponseTellsTruth
