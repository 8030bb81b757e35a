SPECIFICATION FairSpec
CONSTANTS
    Jobs = {j1, j2}
    Kinds = {"list", "fetch"}
    Channels = {1}
    MaxSession = 1
CHECK_DEADLOCK FALSE
INVARIANT AloneReadsItsOwn
PROPERTY TransfersEndWithTheSession
