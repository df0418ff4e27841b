SPECIFICATION FairSpec
CONSTANTS
    Images = {i1}
    Names = {s1, s2}
    MayStop = TRUE
    MaxDroplets = 2
    MaxStacks = 1
    MaxOps = 3
    MaxFaults = 1
    None = None
INVARIANTS TypeOK DropletKeepsSource NoDropletLost OnlyOvertakenLost
PROPERTIES Arrives
CHECK_DEADLOCK FALSE
