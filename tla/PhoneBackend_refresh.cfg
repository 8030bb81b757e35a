CONSTANTS MaxIntents = 3 MaxEvents = 0 MaxFaults = 0
SPECIFICATION FairSpec
PROPERTY RefreshIsReported
CHECK_DEADLOCK FALSE
