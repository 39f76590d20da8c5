SPECIFICATION Spec
CONSTANTS
    Kinds = {"Router"}
    Values = {a}
    Unset = unset
    MaxUid = 1
    MaxGen = 1
    MaxIds = 3
    MaxFaults = 0
    MaxDrifts = 0
    MaxVanishes = 1
PROPERTIES AdoptsByLabel
\* With the object gone and nothing queued the operator rightly stops.
CHECK_DEADLOCK FALSE
