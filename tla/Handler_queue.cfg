SPECIFICATION FairSpec
CONSTANTS
  T1 = T1
  T2 = T2
  T3 = T3
  Trans = {T1, T2, T3}
  OtherPlace = {T3}
  Place <- PlaceMC
  Secure = {T3}
  CanPipeline = {T1, T2}
  NonPersistent = {}
  WithBody = {T3}
  Invalid = {}
  MaxConnectionManagers = 2
  MaxTransactionsToPipeline = 2
  EnableOptimalPipeline = TRUE
  MaxRetryCount = 1
  MaxSubmits = 3
\* The submissions of the bound may be used up.
CHECK_DEADLOCK FALSE
INVARIANT OneManager
INVARIANT RightConnection
PROPERTY Served
