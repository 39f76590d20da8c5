CONSTANTS
    Flows = {"key", "user", "db", "rotation", "storage user"}
    UserRefs = {TRUE, FALSE}
    UserPrimary = {TRUE, FALSE}
    RotKinds = {"tunnel", "bundle"}
    Policies = {"p", "q"}
    DbLists <- MCDbLists
    MaxMoves = 2
    MaxFaults = 2
SPECIFICATION Spec
INVARIANTS KeyReadyMeansSecret DbReadyMeansSecret RotTokenVouches
PROPERTIES KeySettles UserSettles DbSettles RotSettles SuSettles
CHECK_DEADLOCK FALSE
