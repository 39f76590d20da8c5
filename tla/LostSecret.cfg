CONSTANTS
    Flows = {"user"}
    UserRefs = {TRUE}
    UserPrimary = {FALSE}
    RotKinds = {"tunnel"}
    Policies = {}
    DbLists <- MCDbLists
    MaxMoves = 0
    MaxFaults = 1
SPECIFICATION Spec
INVARIANT UserSecretWritten
CHECK_DEADLOCK FALSE
