SPECIFICATION FairSpec
CONSTANTS
    MaxTries = 2
    MaxSession = 2
    MaxSeek = 1
    MaxInputs = 2
    MaxCuts = 1
CHECK_DEADLOCK FALSE
INVARIANT TypeOK
INVARIANT SeekNeedsConsent
INVARIANT EndsAreTold
PROPERTY ReasonIsLast
PROPERTY EndpointArrives
