SPECIFICATION Spec
CONSTANTS
  T1 = T1
  T2 = T2
  T3 = T3
  H1 = H1
  H2 = H2
  None = None
  Tx = {T1, T2, T3}
  HasBody = {T2}
  Pipelinable = {T1, T3}
  Secure = {T1, T2}
  Notified = {T1}
  Redirected = {T1}
  OwnConnection = {}
  HostOf <- OneHost
  MaxToPipeline = 3
  KMaxRetryCount = 1
  MaxSubmissions = 2
  Env = {"hangup", "cancelCurrent", "cancelUnread", "connectFail", "fail"}
\* Every transaction ends, and then nothing is left to do.
CHECK_DEADLOCK FALSE
INVARIANT NoPanic
INVARIANT OfferedRightly
INVARIANT SocketAgrees
