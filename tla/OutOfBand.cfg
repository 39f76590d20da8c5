SPECIFICATION FairSpec
CONSTANTS
    Kinds = {"FloatingIP", "Gateway"}
    Values = {a, b}
    Unset = unset
    MaxUid = 1
    MaxGen = 1
    MaxIds = 2
    MaxFaults = 0
    MaxDrifts = 1
    MaxVanishes = 1
PROPERTY Heals
\* With the object gone and nothing queued the operator rightly stops.
CHECK_DEADLOCK FALSE
