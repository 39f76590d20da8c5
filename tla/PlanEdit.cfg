SPECIFICATION FairSpec
CONSTANTS
    Kinds = {"LoadBalancer"}
    Values = {a, b}
    Unset = unset
    MaxUid = 1
    MaxGen = 2
    MaxIds = 2
    MaxFaults = 0
    MaxDrifts = 0
    MaxVanishes = 0
PROPERTIES EditsApplied
\* With the object gone and nothing queued the operator rightly stops.
CHECK_DEADLOCK FALSE
