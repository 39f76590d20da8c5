SPECIFICATION Spec
CONSTANTS
    Kinds = {"Router", "Network", "NetworkPeering", "ManagedObjectStorage", "LoadBalancer"}
    Values = {a}
    Unset = unset
    MaxUid = 2
    MaxGen = 2
    MaxIds = 2
    MaxFaults = 1
    MaxDrifts = 0
    MaxVanishes = 0
INVARIANTS OwnIdentity FinalizerGuard OneResource NoLeak
PROPERTIES RemovalConfirmed OrphanKept
\* With the object gone and nothing queued the operator rightly stops.
CHECK_DEADLOCK FALSE
