CONSTANTS
    Flows = {"key"}
    UserRefs = {TRUE}
    UserPrimary = {FALSE}
    RotKinds = {"tunnel"}
    Policies = {}
    DbLists <- MCDbLists
    MaxMoves = 0
    MaxFaults = 2
SPECIFICATION Spec
INVARIANT KeySecretInStep
CHECK_DEADLOCK FALSE
