SPECIFICATION FairSpec
CONSTANTS
  M1 = M1
  M2 = M2
  Mgr = {M1, M2}
  Secure = {M2}
  MaxConnects = 2
  MaxData = 2
  Env = {"notReady", "timeouts", "immediate"}
\* All the attempts and requests of the bounds may be used up.
CHECK_DEADLOCK FALSE
INVARIANT StoreExact
PROPERTY KeepsStreams
PROPERTY Answered
