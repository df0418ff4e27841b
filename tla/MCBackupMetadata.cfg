SPECIFICATION Spec
CONSTANTS
    Orgs <- MCOrgs
    Spaces <- MCSpaces
    Apps <- MCApps
    Users <- MCUsers
    OrgOf <- MCOrgOf
    SpaceOf <- MCSpaceOf
    Name <- MCName
    PageSize = 1
    MaxOps = 2
    MaxFaults = 1
    Malformed = Malformed
    None = None
INVARIANTS TypeOK NothingDropped ComparisonTrue FailureShows
