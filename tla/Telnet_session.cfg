SPECIFICATION FairSpec
CONSTANTS
  Type = "vt100"
  Changes = {"window", "echo", "logout"}
  Codes = {"IP", "EC"}
  Letters <- MCLetters
  Agreed = {"SuppressGA", "Binary", "Status", "Logoff"}
  Open = {"WindowSize", "Echo"}
  Asked = {"WindowSize", "Echo", "Status", "Unknown"}
  MaxActs = 3
  Env = {"noHost", "closes"}
INVARIANT Agreement
INVARIANT ArrivesOnce
PROPERTY Ends
CHECK_DEADLOCK FALSE
