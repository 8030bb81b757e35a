SPECIFICATION Spec
CONSTANTS
    Modes = {"connect"}
    Sizes = {1}
    MAX_PACKAGE_SIZE = 1
    MAX_INBOUND_QUEUED_BYTES = 1
    Word = 4
    MaxGeneration = 4
    MaxPackageOut = 0
    MaxPackageIn = 3
INVARIANT TypeOK
INVARIANT InboundIsBounded
