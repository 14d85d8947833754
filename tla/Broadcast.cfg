\* Three servers; a broadcast that has returned does nothing more.
SPECIFICATION FairSpec
CONSTANTS
  s = s
  t = t
  u = u
  NoServer = NoServer
  Timeout = Timeout
  Servers = {s, t, u}
CHECK_DEADLOCK FALSE
INVARIANTS TypeOK Expected ResultHasCause NilBringsReply
PROPERTIES AllEnd
