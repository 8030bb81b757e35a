SPECIFICATION Spec
CONSTANTS
    Jobs = {j1, j2}
    Kinds = {"fetch"}
    Channels = {1}
    MaxSession = 1
CHECK_DEADLOCK FALSE
INVARIANT NotReusedAfterPartialFrame
