\* A cancellable Call and two calls through Go, one of which cannot be encoded;
\* two of the three get a number, and the channel has room for all completions.
SPECIFICATION Spec
CONSTANTS
  a = a
  b = b
  g = g
  h = h
  k = k
  l = l
  NoCall = NoCall
  SyncCalls = {a}
  AsyncCalls = {k, l}
  Heartbeats = {}
  Cancellable = {a}
  Unencodable = {l}
  SerializeTypes = {"protobuf"}
  DoneCap = 6
  MaxSeq = 2
INVARIANTS NotifiedIfAmpleRoom TypeOK NoLostCall ClosedMeansDrained OwnReply CompletionBound
PROPERTIES AnswerIsFinal NoLateReply KeepsPromise
