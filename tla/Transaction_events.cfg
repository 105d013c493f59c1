SPECIFICATION FairSpec
CONSTANTS
  U1 = U1
  U2 = U2
  Tx = {U1, U2}
  Client = 3
  Registered <- Four
  MaxSends = 3
  MaxDepth = 3
  Env = {"cancel", "close", "nest", "leave", "fail"}
\* The clients may have sent all they may, and then nothing is left to do.
CHECK_DEADLOCK FALSE
INVARIANT InOrder
INVARIANT Awake
INVARIANT Lifetimes
PROPERTY Complete
PROPERTY Delivered
