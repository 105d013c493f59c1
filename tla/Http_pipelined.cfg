SPECIFICATION FairSpec
CONSTANTS
  T1 = T1
  T2 = T2
  T3 = T3
  H1 = H1
  H2 = H2
  None = None
  Tx = {T1, T2, T3}
  HasBody = {}
  Pipelinable = {T1, T2, T3}
  Secure = {}
  Notified = {}
  Redirected = {}
  OwnConnection = {}
  HostOf <- OneHost
  MaxToPipeline = 3
  KMaxRetryCount = 1
  MaxSubmissions = 1
  Env = {"close", "unknown", "hangup", "cancel", "connectFail", "malformed"}
\* Every transaction ends, and then nothing is left to do.
CHECK_DEADLOCK FALSE
INVARIANT TypeOK
INVARIANT ResponseMatch
INVARIANT NoOrphan
INVARIANT InStep
PROPERTY Submissions
PROPERTY Served
