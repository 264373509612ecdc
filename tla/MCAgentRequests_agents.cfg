SPECIFICATION Spec
CONSTANTS
    s1 = s1 g1 = g1 g2 = g2 t1 = t1 t2 = t2 m1 = m1 m2 = m2 r1 = r1 r2 = r2
    NoSpace = NoSpace NoToken = NoToken NoCall = NoCall NoRequest = NoRequest
    Spaces = {s1}
    Labels = {}
    Users = {}
    Agents = {g1, g2}
    Tokens = {t1, t2}
    Managers = {m1, m2}
    Calls <- MCCalls
    InitialAgents = {g1}
    InitialGrants <- MCGrants
    IdemTTL = 2
    MaxTime = 2
    MaxCalls = 2
    Reqs = {r1, r2}
    Wishes <- MCWishes
    MaxRequests = 2
    MaxBack = 1
INVARIANTS
    CreatedOncePerKey AnswerAudited AnswerHonest
PROPERTIES
    TokenHistoryForward
SYMMETRY SlotSymmetry
CHECK_DEADLOCK FALSE
