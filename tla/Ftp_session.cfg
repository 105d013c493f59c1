SPECIFICATION FairSpec
CONSTANTS
  Operations = {"Cwd", "Rename", "Retrieve", "Store", "List", "Close"}
  Packets = 3
  MaxOps = 3
  Env = {"refuse", "reset", "noHost", "dataFail", "abortResets"}
INVARIANT ReplyMatch
INVARIANT FilesWhole
PROPERTY Answered
CHECK_DEADLOCK FALSE
