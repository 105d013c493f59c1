SPECIFICATION FairSpec
CONSTANTS
  Trans = {t1, t2}
  Requests <- GetAndPost
  Responses <- OneAndTwo
  Default <- Small
  Offers <- Both
  Proxies = {p1, p2}
  MaxActs = 4
  Env <- Usual
INVARIANT Contract
INVARIANT WholeTransfer
INVARIANT Awake
PROPERTY Answered
CHECK_DEADLOCK FALSE
