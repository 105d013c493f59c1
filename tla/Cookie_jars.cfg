SPECIFICATION FairSpec
CONSTANTS
    Sessions = {"page", "music"}
    Ids = {"browser", "player", "widgets"}
    SecureId <- WhoIs
    Configured <- Groups
    Members <- Sharing
    Keys = {"small", "large"}
    Size <- Bytes
    Limit = 3
    Uris = {"any"}
    Matches <- AnyUri
    Lives <- LivesOf
    MaxStores = 3
    MaxTime = 2
    MaxOpens = 2
    MaxCrashes = 1
    Env = {"abandon", "invalid", "die"}
CHECK_DEADLOCK FALSE
INVARIANT NoPanic
PROPERTY Jars
PROPERTY ServerEnds
