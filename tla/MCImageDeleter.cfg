SPECIFICATION FairSpec
CONSTANTS
    Jobs = {j1, j2}
    Digests = {d1, d2}
    Tag = Tag
    MaxPushes = 2
    MaxFaults = 2
    None = None
INVARIANTS TypeOK NothingLeftBehind
PROPERTIES AcceptedIsGone DeletionEnds
CHECK_DEADLOCK FALSE
