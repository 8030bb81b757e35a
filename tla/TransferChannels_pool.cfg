SPECIFICATION Spec
CONSTANTS
    Jobs = {j1, j2}
    Kinds = {"export"}
    Channels = {1}
    MaxSession = 2
SYMMETRY JobSymmetry
CHECK_DEADLOCK FALSE
INVARIANT TypeOK
INVARIANT GuardsMatchReservations
INVARIANT OneBorrower
