SPECIFICATION XSpec
CONSTANTS
    Capacity = 4
    FileSize = 9
    Chunk = 3
    MaxAsked = 4
    Slots = 1
    RingFrames = 2
    MaxPush = 2
    MaxRequest = 2
    MaxFrames = 3
    MaxTurns = 2
    window1 = window1
    window2 = window2
    device1 = device1
    device2 = device2
    Devices = {device1, device2}
    Scanning = {device1}
    MaxKeys = 3
    MaxFailures = 1
    MaxSessions = 1
    Dialogs = {"post"}
    Settings = {"listener"}
    Types = {"Notifications"}
    Needs <- NeedsOf
    Flows = {"ui", "b1", "b2"}
    MaxAsks = 1
    MaxShots = 1
    MaxMoves = 3
    MaxUnderWay = 1
INVARIANTS XTypeOK ExportIsFaithful ConnectingIsHonest IdentityIsSound PhoneIsSound PermissionsAreHonest  ChoicesAreKept StreamsAreSafe
CHECK_DEADLOCK FALSE
