SPECIFICATION Spec
CONSTANTS
    Images = {i1}
    Names = {s1, s2}
    MayStop = FALSE
    MaxDroplets = 2
    MaxStacks = 2
    MaxOps = 3
    MaxFaults = 1
    None = None
INVARIANT NoRebaseLost
CHECK_DEADLOCK FALSE
