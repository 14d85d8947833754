\* One cancellable call.
SPECIFICATION FairSystem
CONSTANTS
  a = a
  o1 = o1
  o2 = o2
  NoCall = NoCall
  SyncCalls = {a}
  AsyncCalls = {}
  Heartbeats = {}
  Cancellable = {a}
  Unencodable = {}
  SerializeTypes = {"protobuf"}
  DoneCap = 1
  MaxSeq = 1
  Whats = {"ok", "fails", "panics"}
  Objects = {o1, o2}
  TheConn = TheConn
  NoConn = NoConn
  NoObject = NoObject
  Nobody = Nobody
INVARIANTS NilMeansDone
PROPERTIES CallReturns ServerLetsGo ImplementsClient
