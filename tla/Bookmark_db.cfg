SPECIFICATION Spec
CONSTANTS
    Procs = {"browser", "reader"}
    Visibility <- BrowserAndReader
    MaxIndex = 2
    MaxActs = 2
    MaxCrashes = 1
    Sessions <- FiveSessions
    Env = {}
CHECK_DEADLOCK FALSE
INVARIANT IsTree
INVARIANT Loads
INVARIANT Current
