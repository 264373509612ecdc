SPECIFICATION Spec
CONSTANTS
    s1 = s1 s2 = s2 u1 = u1 u2 = u2
    NoSpace = NoSpace NoRequest = NoRequest NoSession = NoSession NoAsset = NoAsset
    Spaces = {s1, s2}
    Labels <- MCLabels
    Users = {u1, u2}
    Agents = {}
    SystemRoleOf <- MCSystemRoles
    InitialSpaces = {s1}
    InitialMembers <- MCMembers
    Requests <- MCRequests
    Slots = {1, 2}
    MaxRequests = 3
    Ids = {1, 2, 3, 4}
    InitialAssets <- MCAssets
    InitialLinks <- MCLinks
    CredentialSpace <- MCCredentialSpace
    InitialCredentials <- MCCredentials
    CredentialWrites <- MCWrites
    Absent = Absent
    AgentGrants <- MCAgentGrants
    Listings <- MCListings
    Limit = 1
    ListScanBatch = 2
    MaxListScan = 3
INVARIANTS
    SpaceKeepsOwner SessionsFollowRoles ActsWithHeldRole TrailTellsTables
PROPERTIES
    ChangeMeetsSeen ListingExact
CHECK_DEADLOCK FALSE
