SPECIFICATION Spec
CONSTANTS
    u1 = u1 u2 = u2 pA = pA h1 = h1 h2 = h2 t1 = t1 t2 = t2
    x1 = x1 d0 = d0 d1 = d1 r1 = r1 r2 = r2
    NoUser = NoUser NoPassword = NoPassword NoChallenge = NoChallenge
    NoSession = NoSession NoFactor = NoFactor NoHash = NoHash NoReq = NoReq
    Users = {u1}
    Passwords = {pA}
    Challenges = {h1, h2}
    Sessions = {t1, t2}
    RecoveryCodes = {x1}
    TOTPCodes = {d0, d1}
    totpCode <- MCTotpCode
    Reqs = {r1, r2}
    Requests <- FactorRequests
    TOTPPeriod = 2
    LoginChallengeLifetime = 2
    RecentTOTPLifetime = 2
    SessionIdleLifetime = 2
    SessionAbsoluteLifetime = 4
    MaxTime = 2
    MaxRequests = 5
INVARIANTS
    TypeOK SecondFactorOnce ChallengeOpensOnce TokenAudited
SYMMETRY LoginSymmetry
