SPECIFICATION FairSpec
CONSTANTS
    Modes = {"seek"}
    Sizes = {}
    MAX_PACKAGE_SIZE = 1
    MAX_INBOUND_QUEUED_BYTES = 1
    Word = 4
    MaxGeneration = 3
    MaxPackageOut = 1
    MaxPackageIn = 1
PROPERTY QueuedIsWritten
PROPERTY SilenceEndsTheSession
PROPERTY AbandonedCoroutinesEnd
