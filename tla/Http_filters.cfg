SPECIFICATION FairSpec
CONSTANTS
  None = None
  Responses <- Answers
  Tx = {"t1", "t2"}
  Uris <- Site
  Hosts = {"host", "other"}
  Host <- TwoHosts
  Realms = {"realm"}
  Realm <- OneRealm
  Scheme <- Basic
  Passwords = {"right", "wrong"}
  Right <- RightIsRight
  Requests <- GetAndPost
  KRedirectLimit = 1
  MaxSubmits = 1
  MaxAnswers = 2
  Env = {}
INVARIANT OneEnd
INVARIANT Confirmed
PROPERTY Forgotten
PROPERTY Ends
CHECK_DEADLOCK FALSE
