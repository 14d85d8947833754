\* A call without a deadline and a heartbeat, of a client that has a codec for its
\* own calls and of one that has none.
SPECIFICATION FairSpec
CONSTANTS
  a = a
  b = b
  g = g
  h = h
  k = k
  l = l
  NoCall = NoCall
  SyncCalls = {a, g}
  AsyncCalls = {}
  Heartbeats = {g}
  Cancellable = {g}
  Unencodable = {}
  SerializeTypes = {"none", "protobuf"}
  DoneCap = 1
  MaxSeq = 2
PROPERTIES HeartbeatDetects CallEnds
