SPECIFICATION Spec
CONSTANTS
    Routes = {r1, r2}
    Contents <- OneContent
    DriftSpecs <- OneDrift
    PageSize = 1
    MaxOps = 2
    MaxFaults = 1
    None = None
PROPERTY LiveRoutesStay
