SPECIFICATION Spec
CONSTANTS
    Kinds = {"Router"}
    Values = {a}
    Unset = unset
    MaxUid = 1
    MaxGen = 1
    MaxIds = 2
    MaxFaults = 1
    MaxDrifts = 0
    MaxVanishes = 0
INVARIANTS DeleteRemovesResource
\* With the object gone and nothing queued the operator rightly stops.
CHECK_DEADLOCK FALSE
