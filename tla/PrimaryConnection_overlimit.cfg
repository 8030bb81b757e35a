SPECIFICATION Spec
CONSTANTS
    Modes = {"connect"}
    Sizes = {1, 2}
    MAX_PACKAGE_SIZE = 2
    MAX_INBOUND_QUEUED_BYTES = 2
    Word = 8
    MaxGeneration = 4
    MaxPackageOut = 0
    MaxPackageIn = 3
PROPERTY OverLimitIsReal
