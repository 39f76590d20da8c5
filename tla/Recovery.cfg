SPECIFICATION FairSpec
CONSTANTS
    Kinds = {"Router", "Network", "ManagedObjectStorage"}
    Values = {a, b}
    Unset = unset
    MaxUid = 1
    MaxGen = 2
    MaxIds = 2
    MaxFaults = 1
    MaxDrifts = 0
    MaxVanishes = 0
PROPERTIES Converges DeletionCompletes
\* With the object gone and nothing queued the operator rightly stops.
CHECK_DEADLOCK FALSE
