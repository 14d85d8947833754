\* A cancelled call takes another call from pending.
SPECIFICATION Spec
CONSTANTS
  a = a
  b = b
  g = g
  h = h
  k = k
  l = l
  NoCall = NoCall
  SyncCalls = {a, b}
  AsyncCalls = {}
  Heartbeats = {}
  Cancellable = {a, b}
  Unencodable = {}
  SerializeTypes = {"protobuf"}
  DoneCap = 1
  MaxSeq = 2
INVARIANTS CtxErrorIsOwn
