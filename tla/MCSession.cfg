SPECIFICATION Spec
CONSTANTS
    Keys = {1}
    MaxPosts = 2
    MaxRemovals = 1
    Indices = {1}
    MaxSessions = 2
    MaxRetries = 1
    MaxFailures = 1
    MaxToggles = 2
    MaxLinks = 2
    MaxChannels = 2
    MaxEnables = 2
INVARIANTS TypeOK ConnectedPoolsMatch SessionLeavesNothing NotificationsAreKept
PROPERTIES SessionsSettle EventuallyAgrees
CHECK_DEADLOCK FALSE
