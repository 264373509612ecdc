SPECIFICATION FairSpec
CONSTANTS
    s1 = s1 s2 = s2 c1 = c1 c2 = c2 pA = pA pB = pB k1 = k1 k2 = k2
    a1 = a1 a2 = a2 r1 = r1 r2 = r2 u1 = u1 g1 = g1
    NoSpace = NoSpace NoCred = NoCred NoKey = NoKey NoPayload = NoPayload
    NoRecord = NoRecord NoReq = NoReq Keep = Keep
    Spaces = {s1}
    Labels <- MCLabels
    Users = {u1}
    Agents = {g1}
    Creds = {c1}
    Keys = {k1}
    Payloads = {pA, pB}
    Assets = {}
    AssetSpace <- MCAssetSpace
    Reqs = {r1}
    Requests <- DrainRequests
    IdemTTL = 2
    Retention = 2
    Interval = 3
    MaxVersion = 3
    MaxTime = 4
    MaxRequests = 3
PROPERTIES
    RecycleBinDrained RecycleBinRetention
