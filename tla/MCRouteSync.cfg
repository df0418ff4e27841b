SPECIFICATION FairSpec
CONSTANTS
    Routes = {r1, r2}
    Contents <- TwoContents
    DriftSpecs <- NoDrift
    PageSize = 2
    MaxOps = 1
    MaxFaults = 1
    None = None
INVARIANTS TypeOK SuccessMeansSynced
PROPERTIES ImplementsMirror WritesRepair UnmanagedUntouched Converges StatusBecomesTrue
