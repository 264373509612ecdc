------------------------------ MODULE Identity ------------------------------
(***************************************************************************)
(* The identity service of internal/identity: passwords, login in two      *)
(* steps, TOTP and recovery codes, sessions and system roles, with the     *)
(* login handler of internal/httpapi and the nightly removal of sessions.  *)
(*                                                                         *)
(* Requests are concurrent.  A step is one statement on the reader pool,   *)
(* one transaction, or one access to the map of login challenges, which is *)
(* in memory and dies with the process.  A request that is refused, or     *)
(* whose statement fails, ends without a change (End).                     *)
(***************************************************************************)
EXTENDS Timestamps, FiniteSets

CONSTANTS
    Users, Passwords,
    Challenges,         \* identifiers of login challenges
    Sessions,           \* session tokens
    RecoveryCodes,      \* the recovery codes of one user
    TOTPCodes,          \* what a TOTP generator may show
    totpCode(_, _),     \* totpCode(u, k): the code of user u for counter k
    Reqs,               \* request slots of the server
    Requests,           \* the requests clients may send
    NoUser, NoPassword, NoChallenge, NoSession, NoFactor, NoHash, NoReq,
    TOTPPeriod, LoginChallengeLifetime, RecentTOTPLifetime,
    SessionIdleLifetime, SessionAbsoluteLifetime,   \* in ticks
    MaxTime, MaxRequests    \* bounds on the clock and on the requests begun

SystemRoles == { "system_owner", "system_admin", "member" }

Ops == { "initial_owner", "begin_login", "complete_login", "resolve",
         "reverify", "logout", "revoke_all", "change_role", "reset_password" }

Factors == [kind : { "totp" }, code : TOTPCodes]
             \cup [kind : { "recovery" }, code : RecoveryCodes]

Request ==
    [ op : Ops, user : Users \cup { NoUser },
      password : Passwords \cup { NoPassword },
      challenge : Challenges \cup { NoChallenge },
      factor : Factors \cup { NoFactor },
      session : Sessions \cup { NoSession },
      role : SystemRoles ]

WellFormed(q) ==
    /\ q \in Request
    /\ q.op \in { "initial_owner", "begin_login", "reset_password" } =>
            q.user \in Users /\ q.password \in Passwords
    /\ q.op \in { "revoke_all", "change_role" } => q.user \in Users
    /\ q.op = "complete_login" =>
            q.challenge \in Challenges /\ q.factor \in Factors
    /\ q.op \in { "resolve", "reverify", "logout", "change_role" } =>
            q.session \in Sessions
    /\ q.op = "reverify" =>
            q.factor \in Factors /\ q.factor.kind = "totp"

ASSUME RequestsAssumption == \A q \in Requests : WellFormed(q)

ASSUME LifetimesAssumption ==
    /\ TOTPPeriod \in Nat \ {0}
    /\ \A t \in { LoginChallengeLifetime, RecentTOTPLifetime,
                  SessionIdleLifetime, SessionAbsoluteLifetime } :
         t \in Nat /\ t % 2 = 0
    /\ MaxTime \in Nat /\ MaxRequests \in Nat

ASSUME NullsAssumption ==
    /\ NoUser \notin Users /\ NoPassword \notin Passwords
    /\ NoChallenge \notin Challenges /\ NoSession \notin Sessions
    /\ NoFactor \notin Factors /\ NoReq \notin Requests

VARIABLES
    user,       \* table users
    totp,       \* table user_totp: last_used_counter plus one, 0 for NULL
    recovery,   \* table recovery_codes
    session,    \* table sessions
    challenge,  \* Service.challenges, and the identifiers spent
    slot,       \* the requests in progress
    salts,      \* number of salts drawn: no two hashes are equal
    now,        \* the clock
    begun,      \* number of requests begun
    accepted,   \* history: the second factors accepted
    opened,     \* history: the session each challenge opened
    audited,    \* history: sessions with an auth.totp success event
    delivered,  \* history: sessions whose token was sent to the client
    owners      \* history: number of initial owners created

accounts == << user, totp, recovery >>
history == << accepted, opened, audited, delivered, owners >>
vars == << accounts, session, challenge, slot, salts, now, begun, history >>

-----------------------------------------------------------------------------
(***************************************************************************)
(* Data.                                                                   *)
(***************************************************************************)

\* A password hash.  A legacy one is replaced when its user logs in.
Hash == [password : Passwords, salt : Nat, legacy : BOOLEAN]

ASSUME NoHashAssumption == NoHash \notin Hash

\* resets counts the resets of the password, for the properties.
User == [exists : BOOLEAN, hash : Hash \cup { NoHash }, role : SystemRoles,
         resets : Nat]

\* recent is recent_totp_at plus one, zero for NULL.  password and role hold,
\* for the properties, what the login found: the resets of the password it
\* checked and the role of its user.
Session ==
    [ state : { "free", "valid", "revoked", "removed" },
      user : Users \cup { NoUser }, expires : Nat, idle : Nat, recent : Nat,
      revokedAt : Nat, password : Nat, role : SystemRoles ]

ChallengeState ==
    [ state : { "new", "open", "gone" }, user : Users \cup { NoUser },
      hash : Hash \cup { NoHash }, upgraded : Hash \cup { NoHash },
      expires : Nat, resets : Nat ]

Steps == { "idle", "initial_owner", "initial_owner_tx", "begin_login",
           "put_challenge", "complete_login", "login_tx", "login_resolve",
           "login_record", "login_deliver", "login_logout", "resolve",
           "reverify", "logout", "revoke_all", "change_role",
           "reset_password", "forget_challenges" }

Slot ==
    [ pc : Steps, q : Requests \cup { NoReq }, at : Nat, n : Nat,
      hash : Hash \cup { NoHash }, upgraded : Hash \cup { NoHash },
      user : Users \cup { NoUser }, resets : Nat,
      session : Sessions \cup { NoSession } ]

IdleSlot ==
    [ pc |-> "idle", q |-> NoReq, at |-> 0, n |-> 0, hash |-> NoHash,
      upgraded |-> NoHash, user |-> NoUser, resets |-> 0,
      session |-> NoSession ]

FreeSession ==
    [ state |-> "free", user |-> NoUser, expires |-> 0, idle |-> 0,
      recent |-> 0, revokedAt |-> 0, password |-> 0, role |-> "member" ]

Unissued ==
    [ state |-> "new", user |-> NoUser, hash |-> NoHash, upgraded |-> NoHash,
      expires |-> 0, resets |-> 0 ]

Spent == [Unissued EXCEPT !.state = "gone"]

NoAccount == [exists |-> FALSE, hash |-> NoHash, role |-> "member",
              resets |-> 0]

Init ==
    /\ user = [u \in Users |-> NoAccount]
    /\ totp = [u \in Users |-> 0]
    /\ recovery = [u \in Users |-> [x \in RecoveryCodes |-> "absent"]]
    /\ session = [s \in Sessions |-> FreeSession]
    /\ challenge = [h \in Challenges |-> Unissued]
    /\ slot = [r \in Reqs |-> IdleSlot]
    /\ salts = 0 /\ now = 0 /\ begun = 0
    /\ accepted = {} /\ opened = {} /\ audited = {} /\ delivered = {}
    /\ owners = 0

Goto(r, s) == slot' = [slot EXCEPT ![r] = s]
Done(r) == Goto(r, IdleSlot)

Start(r, q) ==
    /\ slot[r].pc = "idle"
    /\ begun < MaxRequests
    /\ begun' = begun + 1
    /\ Goto(r, [IdleSlot EXCEPT !.pc = q.op, !.q = q, !.at = now,
                                !.n = begun + 1])
    /\ UNCHANGED << accounts, session, challenge, salts, now, history >>

\* A request is refused, or one of its statements fails: its transaction is
\* rolled back and it ends.  After the login transaction the handler revokes
\* the new session instead (LoginFails); ResetPassword always finishes.
End(r) ==
    /\ slot[r].pc \notin { "idle", "login_resolve", "login_record",
                           "login_deliver", "forget_challenges" }
    /\ Done(r)
    /\ UNCHANGED << accounts, session, challenge, salts, now, begun, history >>

-----------------------------------------------------------------------------
(***************************************************************************)
(* The first account.                                                      *)
(***************************************************************************)

hasUsers == \E u \in Users : user[u].exists

NewHash(password) ==
    [password |-> password, salt |-> salts + 1, legacy |-> FALSE]

\* The rows of a new account with its TOTP and its recovery codes.
InsertAccount(u, hash, role) ==
    /\ ~ user[u].exists
    /\ user' = [user EXCEPT ![u] =
                  [NoAccount EXCEPT !.exists = TRUE, !.hash = hash,
                                    !.role = role]]
    /\ recovery' = [recovery EXCEPT ![u] =
                      [x \in RecoveryCodes |-> "unused"]]
    /\ UNCHANGED totp

\* The check outside the transaction, then the hashing.
InitialOwnerCheck(r) ==
    LET s == slot[r]
    IN  /\ s.pc = "initial_owner"
        /\ ~ hasUsers
        /\ salts' = salts + 1
        /\ Goto(r, [s EXCEPT !.pc = "initial_owner_tx",
                             !.hash = NewHash(s.q.password)])
        /\ UNCHANGED << accounts, session, challenge, now, begun, history >>

\* Mutant: the transaction relies on the check before it.
createInitialOwner_Unchecked(r) ==
    LET s == slot[r]
    IN  /\ s.pc = "initial_owner_tx"
        /\ InsertAccount(s.q.user, s.hash, "system_owner")
        /\ owners' = owners + 1
        /\ Done(r)
        /\ UNCHANGED << session, challenge, salts, now, begun, accepted,
                        opened, audited, delivered >>

createInitialOwner(r) ==
    LET s == slot[r]
    IN  /\ s.pc = "initial_owner_tx"
        /\ ~ hasUsers
        /\ InsertAccount(s.q.user, s.hash, "system_owner")
        /\ owners' = owners + 1
        /\ Done(r)
        /\ UNCHANGED << session, challenge, salts, now, begun, accepted,
                        opened, audited, delivered >>

\* Accounts other than the first are rows the service only reads: they are
\* inserted from outside, perhaps with a hash of the old length.
ProvisionUser(u, password, legacy, role) ==
    /\ hasUsers
    /\ InsertAccount(u, [NewHash(password) EXCEPT !.legacy = legacy], role)
    /\ salts' = salts + 1
    /\ UNCHANGED << session, challenge, slot, now, begun, history >>

-----------------------------------------------------------------------------
(***************************************************************************)
(* Second factors.                                                         *)
(***************************************************************************)

Counter(at) == at \div TOTPPeriod

\* The counters around the current one whose code is the one given.
MatchingCounters(u, code, at) ==
    { k \in { Counter(at), Counter(at) + 1 } \cup
            (IF Counter(at) = 0 THEN {} ELSE { Counter(at) - 1 }) :
        totpCode(u, k) = code }

\* matchingTOTPCounter: the highest of them.
IsMatchingCounter(k, u, code, at) ==
    /\ k \in MatchingCounters(u, code, at)
    /\ \A j \in MatchingCounters(u, code, at) : j <= k

\* The request of slot content s has a factor of user u accepted in session t.
Accept(s, t, u, kind, id) ==
    accepted' = accepted \cup
        {[ user |-> u, kind |-> kind, id |-> id, session |-> t, at |-> s.at,
           n |-> s.n ]}

\* Mutant: the counter is recorded, but not compared with the last one.
verifyAndConsumeTOTP_Replayed(s, t, u) ==
    \E k \in MatchingCounters(u, s.q.factor.code, s.at) :
        /\ IsMatchingCounter(k, u, s.q.factor.code, s.at)
        /\ totp' = [totp EXCEPT ![u] = k + 1]
        /\ Accept(s, t, u, "totp", k)

\* The counter must be newer than the last one used.
verifyAndConsumeTOTP(s, t, u) ==
    \E k \in MatchingCounters(u, s.q.factor.code, s.at) :
        /\ IsMatchingCounter(k, u, s.q.factor.code, s.at)
        /\ totp[u] <= k
        /\ totp' = [totp EXCEPT ![u] = k + 1]
        /\ Accept(s, t, u, "totp", k)

\* Mutant: used_at is not looked at.
consumeRecoveryCode_Again(s, t) ==
    LET code == s.q.factor.code
    IN  /\ recovery[s.user][code] \in { "unused", "used" }
        /\ recovery' = [recovery EXCEPT ![s.user][code] = "used"]
        /\ Accept(s, t, s.user, "recovery", code)

consumeRecoveryCode(s, t) ==
    LET code == s.q.factor.code
    IN  /\ recovery[s.user][code] = "unused"
        /\ recovery' = [recovery EXCEPT ![s.user][code] = "used"]
        /\ Accept(s, t, s.user, "recovery", code)

-----------------------------------------------------------------------------
(***************************************************************************)
(* Login.                                                                  *)
(***************************************************************************)

\* The row is read, the password verified and, for a legacy hash, hashed
\* again, before the challenge exists.
BeginLogin(r) ==
    LET s == slot[r]
        u == s.q.user
        h == user[u].hash
    IN  /\ s.pc = "begin_login"
        /\ user[u].exists
        /\ h.password = s.q.password
        /\ salts' = IF h.legacy THEN salts + 1 ELSE salts
        /\ Goto(r, [s EXCEPT
                      !.pc = "put_challenge", !.user = u, !.hash = h,
                      !.upgraded = IF h.legacy THEN NewHash(s.q.password)
                                   ELSE NoHash,
                      !.resets = user[u].resets])
        /\ UNCHANGED << accounts, session, challenge, now, begun, history >>

\* removeExpiredChallengesLocked and the new entry, under the mutex, with the
\* readings of the clock that belong to it.
PutChallenge(r, h) ==
    LET s == slot[r]
    IN  /\ s.pc = "put_challenge"
        /\ challenge[h].state = "new"
        /\ challenge' = [x \in Challenges |->
             IF x = h
             THEN [ state |-> "open", user |-> s.user, hash |-> s.hash,
                    upgraded |-> s.upgraded, resets |-> s.resets,
                    expires |-> now + LoginChallengeLifetime ]
             ELSE IF challenge[x].state = "open" /\ challenge[x].expires <= now
             THEN Spent ELSE challenge[x]]
        /\ Done(r)
        /\ UNCHANGED << accounts, session, salts, now, begun, history >>

\* Mutant: the challenge stays in the map until the login has succeeded.
consumeChallenge_Kept(r) ==
    LET s == slot[r]
        h == challenge[s.q.challenge]
    IN  /\ s.pc = "complete_login"
        /\ h.state = "open" /\ now < h.expires
        /\ Goto(r, [s EXCEPT !.pc = "login_tx", !.at = now, !.user = h.user,
                             !.hash = h.hash, !.upgraded = h.upgraded,
                             !.resets = h.resets])
        /\ UNCHANGED << accounts, session, challenge, salts, now, begun,
                        history >>

\* The first attempt to complete a challenge takes it out of the map, also
\* when it has expired or the second factor will be wrong.
consumeChallenge(r) ==
    LET s == slot[r]
        h == challenge[s.q.challenge]
    IN  /\ s.pc = "complete_login"
        /\ h.state = "open"
        /\ challenge' = [challenge EXCEPT ![s.q.challenge] = Spent]
        /\ \/ /\ now < h.expires
              /\ Goto(r, [s EXCEPT !.pc = "login_tx", !.at = now,
                                   !.user = h.user, !.hash = h.hash,
                                   !.upgraded = h.upgraded,
                                   !.resets = h.resets])
           \/ /\ now >= h.expires
              /\ Done(r)
        /\ UNCHANGED << accounts, session, salts, now, begun, history >>

\* Mutant: the password is not compared again.
PasswordUnchanged_Always(s) == user[s.user].exists

PasswordUnchanged(s) == user[s.user].exists /\ user[s.user].hash = s.hash

VerifyFactor(s, t) ==
    \/ /\ s.q.factor.kind = "totp"
       /\ verifyAndConsumeTOTP(s, t, s.user)
       /\ UNCHANGED recovery
    \/ /\ s.q.factor.kind = "recovery"
       /\ consumeRecoveryCode(s, t)
       /\ UNCHANGED totp

\* Mutant: a recovery code counts as a recent TOTP.
RecentAfterLogin_Any(s) == s.at + 1

\* Only a TOTP code makes the session recently verified.
RecentAfterLogin(s) == IF s.q.factor.kind = "totp" THEN s.at + 1 ELSE 0

\* The transaction of CompleteLogin.
completeLogin(r, t) ==
    LET s == slot[r]
    IN  /\ s.pc = "login_tx"
        /\ session[t].state = "free"
        /\ PasswordUnchanged(s)
        /\ VerifyFactor(s, t)
        /\ user' = IF s.upgraded = NoHash THEN user
                   ELSE [user EXCEPT ![s.user].hash = s.upgraded]
        /\ session' = [session EXCEPT ![t] =
             [ state |-> "valid", user |-> s.user,
               expires |-> s.at + SessionAbsoluteLifetime,
               idle |-> s.at + SessionIdleLifetime,
               recent |-> RecentAfterLogin(s), revokedAt |-> 0,
               password |-> s.resets, role |-> user[s.user].role ]]
        /\ opened' = opened \cup {[challenge |-> s.q.challenge, session |-> t]}
        /\ Goto(r, [s EXCEPT !.pc = "login_resolve", !.session = t])
        /\ UNCHANGED << challenge, salts, now, begun, audited, delivered,
                        owners >>

-----------------------------------------------------------------------------
(***************************************************************************)
(* Sessions.  Each operation takes its time before it gets the writer.     *)
(***************************************************************************)

Usable(t, at) ==
    /\ session[t].state = "valid"
    /\ at < session[t].expires /\ at < session[t].idle

\* Mutant: how far the new idle time lies beyond the end of the session.
NextIdle_Beyond(t, at) == at + SessionIdleLifetime - session[t].expires

NextIdle(t, at) ==
    IF at + SessionIdleLifetime > session[t].expires THEN session[t].expires
    ELSE at + SessionIdleLifetime

resolveSession(t, at) ==
    /\ Usable(t, at)
    /\ session' = [session EXCEPT ![t].idle = NextIdle(t, at)]

\* COALESCE(revoked_at, now): a row that is there is revoked for good.
Revoked(x, at) ==
    IF x.state = "valid"
    THEN [x EXCEPT !.state = "revoked", !.revokedAt = at] ELSE x

\* Mutant: the sessions of the user are left alone.
revokeUserSessionsTx_None(u, at) == UNCHANGED session

revokeUserSessionsTx(u, at) ==
    session' = [t \in Sessions |->
                  IF session[t].user = u THEN Revoked(session[t], at)
                  ELSE session[t]]

\* The handler of a completed login resolves the session it just opened,
\* records the login, and only then sends the token.
LoginResolve(r) ==
    /\ slot[r].pc = "login_resolve"
    /\ \E at \in slot[r].at..now : resolveSession(slot[r].session, at)
    /\ Goto(r, [slot[r] EXCEPT !.pc = "login_record"])
    /\ UNCHANGED << accounts, challenge, salts, now, begun, history >>

\* Mutant: the token is sent whether or not the event was written.
LoginRecord_Skipped(r) ==
    /\ slot[r].pc = "login_record"
    /\ Goto(r, [slot[r] EXCEPT !.pc = "login_deliver"])
    /\ UNCHANGED << accounts, session, challenge, salts, now, begun, history >>

LoginRecord(r) ==
    /\ slot[r].pc = "login_record"
    /\ audited' = audited \cup { slot[r].session }
    /\ Goto(r, [slot[r] EXCEPT !.pc = "login_deliver"])
    /\ UNCHANGED << accounts, session, challenge, salts, now, begun, accepted,
                    opened, delivered, owners >>

LoginDeliver(r) ==
    /\ slot[r].pc = "login_deliver"
    /\ delivered' = delivered \cup { slot[r].session }
    /\ Done(r)
    /\ UNCHANGED << accounts, session, challenge, salts, now, begun, accepted,
                    opened, audited, owners >>

\* Any of these fails: the session is revoked, in a transaction whose own
\* failure is ignored (End).
LoginFails(r) ==
    /\ slot[r].pc \in { "login_resolve", "login_record", "login_deliver" }
    /\ Goto(r, [slot[r] EXCEPT !.pc = "login_logout"])
    /\ UNCHANGED << accounts, session, challenge, salts, now, begun, history >>

LoginLogout(r) ==
    LET t == slot[r].session
    IN  /\ slot[r].pc = "login_logout"
        /\ \E at \in slot[r].at..now :
             session' = [session EXCEPT ![t] = Revoked(@, at)]
        /\ Done(r)
        /\ UNCHANGED << accounts, challenge, salts, now, begun, history >>

ResolveSession(r) ==
    /\ slot[r].pc = "resolve"
    /\ resolveSession(slot[r].q.session, slot[r].at)
    /\ Done(r)
    /\ UNCHANGED << accounts, challenge, salts, now, begun, history >>

verifyRecentTOTP(r) ==
    LET s == slot[r]
        t == s.q.session
    IN  /\ s.pc = "reverify"
        /\ Usable(t, s.at)
        /\ verifyAndConsumeTOTP(s, t, session[t].user)
        /\ session' = [session EXCEPT ![t].recent = s.at + 1,
                                      ![t].idle = NextIdle(t, s.at)]
        /\ Done(r)
        /\ UNCHANGED << user, recovery, challenge, salts, now, begun, opened,
                        audited, delivered, owners >>

LogoutAudited(r) ==
    LET t == slot[r].q.session
    IN  /\ slot[r].pc = "logout"
        /\ Usable(t, slot[r].at)
        /\ session' = [session EXCEPT ![t] = Revoked(@, slot[r].at)]
        /\ Done(r)
        /\ UNCHANGED << accounts, challenge, salts, now, begun, history >>

RevokeUserSessions(r) ==
    /\ slot[r].pc = "revoke_all"
    /\ revokeUserSessionsTx(slot[r].q.user, slot[r].at)
    /\ Done(r)
    /\ UNCHANGED << accounts, challenge, salts, now, begun, history >>

-----------------------------------------------------------------------------
(***************************************************************************)
(* Roles and passwords.                                                    *)
(***************************************************************************)

\* Mutant: the lifetime of a TOTP includes its last moment.
HasRecentTOTP_Inclusive(t, at) ==
    /\ session[t].recent # 0 /\ session[t].recent <= at + 1
    /\ at + 1 - session[t].recent <= RecentTOTPLifetime

\* recent is the time plus one, so that zero is no TOTP at all.
HasRecentTOTP(t, at) ==
    /\ session[t].recent # 0 /\ session[t].recent <= at + 1
    /\ at + 1 - session[t].recent < RecentTOTPLifetime

IsOwner(u) == user[u].exists /\ user[u].role = "system_owner"

\* Mutant: nobody counts the owners that are left.
KeepsAnOwner_Any(u, role) == TRUE

KeepsAnOwner(u, role) ==
    IsOwner(u) /\ role # "system_owner" => \E v \in Users \ { u } : IsOwner(v)

ChangeSystemRole(r) ==
    LET s == slot[r]
        t == s.q.session
        u == s.q.user
    IN  /\ s.pc = "change_role"
        /\ Usable(t, s.at)
        /\ HasRecentTOTP(t, s.at)
        /\ IsOwner(session[t].user)
        /\ user[u].exists
        /\ KeepsAnOwner(u, s.q.role)
        /\ user' = [user EXCEPT ![u].role = s.q.role]
        /\ revokeUserSessionsTx(u, s.at)
        /\ Done(r)
        /\ UNCHANGED << totp, recovery, challenge, salts, now, begun,
                        history >>

\* ResetPassword hashes, commits, and then forgets the challenges.
ResetPassword(r) ==
    LET s == slot[r]
        u == s.q.user
    IN  /\ s.pc = "reset_password"
        /\ user[u].exists
        /\ user' = [user EXCEPT ![u].hash = NewHash(s.q.password),
                                ![u].resets = @ + 1]
        /\ salts' = salts + 1
        /\ revokeUserSessionsTx(u, s.at)
        /\ Goto(r, [s EXCEPT !.pc = "forget_challenges"])
        /\ UNCHANGED << totp, recovery, challenge, now, begun, history >>

ForgetChallenges(r) ==
    /\ slot[r].pc = "forget_challenges"
    /\ challenge' = [h \in Challenges |->
                       IF challenge[h].user = slot[r].q.user THEN Spent
                       ELSE challenge[h]]
    /\ Done(r)
    /\ UNCHANGED << accounts, session, salts, now, begun, history >>

-----------------------------------------------------------------------------
(***************************************************************************)
(* Maintenance, the process and the clock.                                 *)
(***************************************************************************)

\* Mutant: a session is removed when it is idle for longer than nothing.
CleanedUp(t, started) ==
    \/ LexLE(session[t].expires, started)
    \/ LexLE(session[t].idle, started)
    \/ session[t].state = "revoked" /\ LexLE(session[t].revokedAt, started)

\* The job of a maintenance run that started at some time up to now.
cleanupExpiredState(started) ==
    /\ session' = [t \in Sessions |->
                     IF session[t].state \in { "valid", "revoked" }
                        /\ CleanedUp(t, started)
                     THEN [session[t] EXCEPT !.state = "removed"]
                     ELSE session[t]]
    /\ UNCHANGED << accounts, challenge, slot, salts, now, begun, history >>

Crash ==
    /\ slot' = [r \in Reqs |-> IdleSlot]
    /\ challenge' = [h \in Challenges |->
                       IF challenge[h].state = "open" THEN Spent
                       ELSE challenge[h]]
    /\ UNCHANGED << accounts, session, salts, now, begun, history >>

Tick ==
    /\ now < MaxTime
    /\ now' = now + 1
    /\ UNCHANGED << accounts, session, challenge, slot, salts, begun, history >>

LoginStep(r) ==
    \/ BeginLogin(r)
    \/ \E h \in Challenges : PutChallenge(r, h)
    \/ consumeChallenge(r)
    \/ \E t \in Sessions : completeLogin(r, t)
    \/ LoginResolve(r) \/ LoginRecord(r) \/ LoginDeliver(r)
    \/ LoginFails(r) \/ LoginLogout(r)

RequestStep(r) ==
    \/ \E q \in Requests : Start(r, q)
    \/ End(r)
    \/ InitialOwnerCheck(r) \/ createInitialOwner(r)
    \/ LoginStep(r)
    \/ ResolveSession(r) \/ verifyRecentTOTP(r) \/ LogoutAudited(r)
    \/ RevokeUserSessions(r) \/ ChangeSystemRole(r)
    \/ ResetPassword(r) \/ ForgetChallenges(r)

Provision ==
    \E u \in Users, p \in Passwords, legacy \in BOOLEAN, role \in SystemRoles :
        ProvisionUser(u, p, legacy, role)

Next ==
    \/ \E r \in Reqs : RequestStep(r)
    \/ Provision
    \/ \E started \in 0..now : cleanupExpiredState(started)
    \/ Crash \/ Tick

Spec == Init /\ [][Next]_vars

-----------------------------------------------------------------------------
(***************************************************************************)
(* Properties.                                                             *)
(***************************************************************************)

\* Every variable has its type.
TypeOK ==
    /\ user \in [Users -> User]
    /\ totp \in [Users -> Nat]
    /\ recovery \in [Users -> [RecoveryCodes -> { "absent", "unused", "used" }]]
    /\ session \in [Sessions -> Session]
    /\ challenge \in [Challenges -> ChallengeState]
    /\ slot \in [Reqs -> Slot]
    /\ salts \in Nat /\ now \in Nat /\ begun \in Nat /\ owners \in Nat
    /\ audited \subseteq Sessions /\ delivered \subseteq Sessions
    /\ opened \subseteq [challenge : Challenges, session : Sessions]
    /\ \A e \in accepted : e \in
         [ user : Users, kind : { "totp", "recovery" },
           id : Nat \cup RecoveryCodes, session : Sessions, at : Nat, n : Nat ]

\* A second factor works once: two requests, logins or re-verifications, of
\* one session or of several, are never both accepted on one TOTP counter or
\* on one recovery code.
SecondFactorOnce ==
    \A e, f \in accepted :
        e.user = f.user /\ e.kind = f.kind /\ e.id = f.id => e = f

\* A login challenge opens at most one session, although the password has
\* been checked long before and several requests may present it at once.
ChallengeOpensOnce ==
    \A e, f \in opened : e.challenge = f.challenge => e = f

\* A session in force was opened with the present password and role of its
\* user: a reset or a change of role leaves no older session behind, not even
\* one whose login had passed the password check before (design document,
\* line 187).
SessionsFollowAccount ==
    \A t \in Sessions :
        session[t].state = "valid" =>
            /\ session[t].password = user[session[t].user].resets
            /\ session[t].role = user[session[t].user].role

\* There is a System Owner as soon as there is any user: owners who demote
\* each other, or themselves, never leave none.
SystemOwnerRemains == hasUsers => \E u \in Users : IsOwner(u)

\* Only the first of several requests creates the initial owner.
InitialOwnerOnce == owners <= 1

\* The token of a session leaves the server only after the login has been
\* recorded in the audit log.
TokenAudited == delivered \subseteq audited

\* A role changes only at the request of a session that had a TOTP code
\* accepted in it shortly before the request; a login with a recovery code is
\* not enough (design document, line 186).
RoleChangeNeedsTOTP ==
    [][ \A r \in Reqs :
          slot[r].pc = "change_role" /\ user' # user /\ slot'[r].pc = "idle" =>
              \E e \in accepted :
                  /\ e.session = slot[r].q.session /\ e.kind = "totp"
                  /\ slot[r].at < e.at + RecentTOTPLifetime ]_vars
=============================================================================
