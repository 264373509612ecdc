--------------------------- MODULE IdentityProofs ---------------------------
(***************************************************************************)
(* Theorems about module Identity, for every set of users, sessions,       *)
(* challenges and requests.                                                *)
(***************************************************************************)
EXTENDS Identity, TLAPS

(***************************************************************************)
(* The type invariant, strengthened by what each step has established.     *)
(***************************************************************************)

\* The steps of each operation.
StepsOf(op) ==
    CASE op = "initial_owner" -> { "initial_owner", "initial_owner_tx" }
      [] op = "begin_login" -> { "begin_login", "put_challenge" }
      [] op = "complete_login" ->
            { "complete_login", "login_tx", "login_resolve", "login_record",
              "login_deliver", "login_logout" }
      [] op = "reset_password" -> { "reset_password", "forget_challenges" }
      [] OTHER -> { op }

LoginEnd == { "login_resolve", "login_record", "login_deliver", "login_logout" }

SlotOK(s) ==
    s.pc # "idle" =>
        /\ s.q \in Requests
        /\ s.pc \in StepsOf(s.q.op)
        /\ s.pc \in { "initial_owner_tx", "put_challenge" } => s.hash \in Hash
        /\ s.pc \in { "put_challenge", "login_tx" } => s.user \in Users
        /\ s.pc \in LoginEnd => s.session \in Sessions

\* An existing user has a hash; an open challenge and a stored session have a
\* user.
RowsOK ==
    /\ \A u \in Users : user[u].exists => user[u].hash \in Hash
    /\ \A h \in Challenges :
         challenge[h].state = "open" => challenge[h].user \in Users
    /\ \A t \in Sessions :
         session[t].state # "free" => session[t].user \in Users

TypeInv == TypeOK /\ (\A r \in Reqs : SlotOK(slot[r])) /\ RowsOK

\* The fields of a request, for each operation that uses them.
LEMMA RequestFields ==
    ASSUME NEW q \in Requests
    PROVE  /\ WellFormed(q) /\ q \in Request /\ q.op \in Ops
           /\ q.role \in SystemRoles
           /\ q.challenge \in Challenges \cup { NoChallenge }
  BY RequestsAssumption DEF WellFormed, Request

\* A step of a slot to a slot of the right type.
LEMMA GotoType ==
    ASSUME TypeInv, NEW r \in Reqs, NEW s \in Slot, SlotOK(s), Goto(r, s)
    PROVE  /\ slot' \in [Reqs -> Slot]
           /\ \A x \in Reqs : SlotOK(slot'[x])
  BY DEF TypeInv, TypeOK, Goto

\* An idle slot is of the right type.
LEMMA IdleType == IdleSlot \in Slot /\ SlotOK(IdleSlot)
  BY DEF IdleSlot, Slot, SlotOK, Steps

\* The end of a request.
LEMMA DoneType ==
    ASSUME TypeInv, NEW r \in Reqs, Done(r)
    PROVE  /\ slot' \in [Reqs -> Slot]
           /\ \A x \in Reqs : SlotOK(slot'[x])
  BY GotoType, IdleType DEF Done

\* A slot at work.
LEMMA BusySlot ==
    ASSUME TypeInv, NEW r \in Reqs, slot[r].pc # "idle"
    PROVE  /\ slot[r] \in Slot /\ SlotOK(slot[r]) /\ slot[r].q \in Requests
           /\ slot[r].at \in Nat /\ slot[r].n \in Nat /\ slot[r].resets \in Nat
           /\ slot[r].pc \in StepsOf(slot[r].q.op)
           /\ slot[r].q.op \in Ops
  BY RequestFields DEF TypeInv, TypeOK, SlotOK, Slot

\* Which operation a slot runs, from the step it is at.
LEMMA StepOp ==
    ASSUME TypeInv, NEW r \in Reqs, slot[r].pc # "idle"
    PROVE  /\ slot[r].pc \in Ops => slot[r].q.op = slot[r].pc
           /\ slot[r].pc = "initial_owner_tx" => slot[r].q.op = "initial_owner"
           /\ slot[r].pc = "put_challenge" => slot[r].q.op = "begin_login"
           /\ slot[r].pc \in { "login_tx" } \cup LoginEnd =>
                slot[r].q.op = "complete_login"
           /\ slot[r].pc = "forget_challenges" =>
                slot[r].q.op = "reset_password"
  BY BusySlot DEF StepsOf, Ops, LoginEnd

\* The lifetimes are natural numbers.
LEMMA Lifetimes ==
    /\ LoginChallengeLifetime \in Nat /\ RecentTOTPLifetime \in Nat
    /\ SessionIdleLifetime \in Nat /\ SessionAbsoluteLifetime \in Nat
    /\ LoginChallengeLifetime % 2 = 0
  BY LifetimesAssumption

-----------------------------------------------------------------------------
(***************************************************************************)
(* Each action keeps the type invariant.                                   *)
(***************************************************************************)

\* The beginning and the end of a request.
LEMMA StartEndType ==
    ASSUME TypeInv, NEW r \in Reqs,
           End(r) \/ \E q \in Requests : Start(r, q)
    PROVE  TypeInv'
  <1>1. /\ UNCHANGED << accounts, session, challenge, salts, now, history >>
        /\ begun' = begun \/ begun' = begun + 1
    BY DEF End, Start
  <1>2. /\ slot' \in [Reqs -> Slot]
        /\ \A x \in Reqs : SlotOK(slot'[x])
    <2>1. CASE End(r)
      BY <2>1, DoneType DEF End
    <2>2. ASSUME NEW q \in Requests, Start(r, q)
          PROVE  /\ slot' \in [Reqs -> Slot]
                 /\ \A x \in Reqs : SlotOK(slot'[x])
      <3> DEFINE s == [IdleSlot EXCEPT !.pc = q.op, !.q = q, !.at = now,
                                       !.n = begun + 1]
      <3>1. q.op \in Ops /\ now \in Nat /\ begun + 1 \in Nat
        BY RequestFields DEF TypeInv, TypeOK
      <3>2. s.pc = q.op /\ s.q = q /\ Goto(r, s)
        BY <2>2 DEF IdleSlot, Start
      <3>3. s \in Slot
        BY <3>1 DEF IdleSlot, Slot, Steps, Ops
      <3>4. SlotOK(s)
        BY <3>1, <3>2 DEF SlotOK, StepsOf, Ops, LoginEnd
      <3> QED
        BY <3>2, <3>3, <3>4, GotoType
    <2> QED
      BY <2>1, <2>2
  <1> QED
    BY <1>1, <1>2 DEF TypeInv, TypeOK, RowsOK, accounts, history

\* A new account.
LEMMA InsertType ==
    ASSUME TypeInv, NEW u \in Users, NEW hash \in Hash, NEW role \in SystemRoles,
           InsertAccount(u, hash, role)
    PROVE  /\ user' \in [Users -> User]
           /\ totp' \in [Users -> Nat]
           /\ recovery' \in
                [Users -> [RecoveryCodes -> { "absent", "unused", "used" }]]
           /\ \A v \in Users : user'[v].exists => user'[v].hash \in Hash
  <1> DEFINE a == [NoAccount EXCEPT !.exists = TRUE, !.hash = hash,
                                    !.role = role]
  <1>1. a \in User /\ a.hash = hash
    BY DEF User, NoAccount
  <1>2. user' = [user EXCEPT ![u] = a] /\ UNCHANGED totp
    BY DEF InsertAccount
  <1>3. user' \in [Users -> User] /\ totp' \in [Users -> Nat]
    BY <1>1, <1>2 DEF TypeInv, TypeOK
  <1>4. \A v \in Users : user'[v].exists => user'[v].hash \in Hash
    BY <1>1, <1>2 DEF TypeInv, TypeOK, RowsOK
  <1>5. recovery' \in
          [Users -> [RecoveryCodes -> { "absent", "unused", "used" }]]
    BY DEF InsertAccount, TypeInv, TypeOK
  <1> QED
    BY <1>3, <1>4, <1>5

\* A fresh hash.
LEMMA NewHashType ==
    ASSUME TypeInv, NEW p \in Passwords
    PROVE  NewHash(p) \in Hash /\ NewHash(p).salt = salts + 1
  BY DEF NewHash, Hash, TypeInv, TypeOK

\* The initial owner and provisioned users.
LEMMA AccountType ==
    ASSUME TypeInv,
           \/ \E r \in Reqs : InitialOwnerCheck(r) \/ createInitialOwner(r)
           \/ Provision
    PROVE  TypeInv'
  <1>1. ASSUME NEW r \in Reqs, InitialOwnerCheck(r)
        PROVE  TypeInv'
    <2> DEFINE s == [slot[r] EXCEPT !.pc = "initial_owner_tx",
                                    !.hash = NewHash(slot[r].q.password)]
    <2>1. /\ slot[r].pc = "initial_owner" /\ Goto(r, s) /\ salts' = salts + 1
          /\ UNCHANGED << accounts, session, challenge, now, begun, history >>
      BY <1>1 DEF InitialOwnerCheck
    <2> HIDE DEF s
    <2>2. slot[r] \in Slot /\ slot[r].q \in Requests
          /\ slot[r].q.op = "initial_owner"
      BY <2>1, BusySlot, StepOp DEF Ops
    <2>3. slot[r].q.password \in Passwords
      BY <2>2, RequestFields DEF WellFormed
    <2>4. NewHash(slot[r].q.password) \in Hash
      BY <2>3, NewHashType
    <2>5. s \in Slot
      BY <2>2, <2>4 DEF s, Slot, Steps
    <2>6. s.pc = "initial_owner_tx" /\ s.q = slot[r].q /\ s.hash \in Hash
      BY <2>2, <2>4 DEF s, Slot
    <2>7. SlotOK(s)
      BY <2>2, <2>6 DEF SlotOK, StepsOf, LoginEnd
    <2>8. /\ slot' \in [Reqs -> Slot]
          /\ \A x \in Reqs : SlotOK(slot'[x])
      BY <2>1, <2>5, <2>7, GotoType
    <2> QED
      BY <2>1, <2>8
      DEF TypeInv, TypeOK, RowsOK, accounts, history
  <1>2. ASSUME NEW r \in Reqs, createInitialOwner(r)
        PROVE  TypeInv'
    <2>1. slot[r].pc = "initial_owner_tx" /\ Done(r) /\ owners' = owners + 1
          /\ InsertAccount(slot[r].q.user, slot[r].hash, "system_owner")
      BY <1>2 DEF createInitialOwner
    <2>2. slot[r].q \in Requests /\ slot[r].q.op = "initial_owner"
          /\ slot[r].hash \in Hash
      BY <2>1, BusySlot, StepOp DEF SlotOK
    <2>3. slot[r].q.user \in Users
      BY <2>2, RequestFields DEF WellFormed
    <2>4. "system_owner" \in SystemRoles
      BY DEF SystemRoles
    <2>5. /\ user' \in [Users -> User]
          /\ totp' \in [Users -> Nat]
          /\ recovery' \in
               [Users -> [RecoveryCodes -> { "absent", "unused", "used" }]]
          /\ \A v \in Users : user'[v].exists => user'[v].hash \in Hash
      BY <2>1, <2>2, <2>3, <2>4, InsertType
    <2>6. /\ slot' \in [Reqs -> Slot]
          /\ \A x \in Reqs : SlotOK(slot'[x])
      BY <2>1, DoneType
    <2> QED
      BY <1>2, <2>1, <2>5, <2>6
      DEF createInitialOwner, TypeInv, TypeOK, RowsOK
  <1>3. ASSUME NEW u \in Users, NEW p \in Passwords, NEW legacy \in BOOLEAN,
               NEW role \in SystemRoles, ProvisionUser(u, p, legacy, role)
        PROVE  TypeInv'
    <2> DEFINE h == [NewHash(p) EXCEPT !.legacy = legacy]
    <2>1. h \in Hash
      BY NewHashType DEF Hash
    <2>2. /\ InsertAccount(u, h, role) /\ salts' = salts + 1
          /\ UNCHANGED << session, challenge, slot, now, begun, history >>
      BY <1>3 DEF ProvisionUser
    <2> HIDE DEF h
    <2>3. /\ user' \in [Users -> User]
          /\ totp' \in [Users -> Nat]
          /\ recovery' \in
               [Users -> [RecoveryCodes -> { "absent", "unused", "used" }]]
          /\ \A v \in Users : user'[v].exists => user'[v].hash \in Hash
      BY <2>1, <2>2, InsertType
    <2> QED
      BY <2>2, <2>3 DEF TypeInv, TypeOK, RowsOK, history
  <1> QED
    BY <1>1, <1>2, <1>3 DEF Provision

\* BeginLogin and PutChallenge.
LEMMA BeginType ==
    ASSUME TypeInv, NEW r \in Reqs,
           BeginLogin(r) \/ \E h \in Challenges : PutChallenge(r, h)
    PROVE  TypeInv'
  <1>1. CASE BeginLogin(r)
    <2> DEFINE u == slot[r].q.user
               h == user[u].hash
               up == IF h.legacy THEN NewHash(slot[r].q.password) ELSE NoHash
               s == [slot[r] EXCEPT !.pc = "put_challenge", !.user = u,
                                    !.hash = h, !.upgraded = up,
                                    !.resets = user[u].resets]
    <2>1. /\ slot[r].pc = "begin_login" /\ user[u].exists /\ Goto(r, s)
          /\ salts' = IF h.legacy THEN salts + 1 ELSE salts
          /\ UNCHANGED << accounts, session, challenge, now, begun, history >>
      BY <1>1 DEF BeginLogin
    <2>2. slot[r] \in Slot /\ slot[r].q \in Requests
          /\ slot[r].q.op = "begin_login"
      BY <2>1, BusySlot, StepOp DEF Ops
    <2>3. u \in Users /\ slot[r].q.password \in Passwords
      BY <2>2, RequestFields DEF WellFormed
    <2>4. h \in Hash /\ user[u].resets \in Nat
      BY <2>1, <2>3 DEF TypeInv, TypeOK, RowsOK, User
    <2>5. up \in Hash \cup { NoHash }
      BY <2>3, NewHashType
    <2> HIDE DEF up, h, u
    <2>6. s \in Slot
      BY <2>2, <2>3, <2>4, <2>5 DEF Slot, Steps
    <2>7. s.pc = "put_challenge" /\ s.q = slot[r].q /\ s.hash = h /\ s.user = u
      BY <2>2 DEF Slot
    <2> HIDE DEF s
    <2>8. SlotOK(s)
      BY <2>2, <2>3, <2>4, <2>7 DEF SlotOK, StepsOf, LoginEnd
    <2>9. /\ slot' \in [Reqs -> Slot]
          /\ \A x \in Reqs : SlotOK(slot'[x])
      BY <2>1, <2>6, <2>8, GotoType
    <2>10. salts' \in Nat
      BY <2>1 DEF TypeInv, TypeOK
    <2> QED
      BY <2>1, <2>9, <2>10 DEF TypeInv, TypeOK, RowsOK, accounts, history
  <1>2. ASSUME NEW h \in Challenges, PutChallenge(r, h)
        PROVE  TypeInv'
    <2> DEFINE c == [ state |-> "open", user |-> slot[r].user,
                      hash |-> slot[r].hash, upgraded |-> slot[r].upgraded,
                      resets |-> slot[r].resets,
                      expires |-> now + LoginChallengeLifetime ]
    <2>1. /\ slot[r].pc = "put_challenge" /\ Done(r)
          /\ challenge' = [x \in Challenges |->
                IF x = h THEN c
                ELSE IF challenge[x].state = "open" /\ challenge[x].expires <= now
                THEN Spent ELSE challenge[x]]
          /\ UNCHANGED << accounts, session, salts, now, begun, history >>
      BY <1>2 DEF PutChallenge
    <2>2. slot[r] \in Slot /\ slot[r].user \in Users /\ slot[r].hash \in Hash
      BY <2>1, BusySlot DEF SlotOK
    <2>3. now + LoginChallengeLifetime \in Nat
      BY Lifetimes DEF TypeInv, TypeOK
    <2>4. c \in ChallengeState /\ c.user \in Users
      BY <2>2, <2>3 DEF ChallengeState, Slot
    <2>5. Spent \in ChallengeState /\ Spent.state = "gone"
      BY DEF Spent, Unissued, ChallengeState
    <2> HIDE DEF c
    <2>6. challenge' \in [Challenges -> ChallengeState]
      BY <2>1, <2>4, <2>5 DEF TypeInv, TypeOK
    <2>7. \A x \in Challenges :
            challenge'[x].state = "open" => challenge'[x].user \in Users
      BY <2>1, <2>4, <2>5 DEF TypeInv, TypeOK, RowsOK
    <2>8. /\ slot' \in [Reqs -> Slot]
          /\ \A x \in Reqs : SlotOK(slot'[x])
      BY <2>1, DoneType
    <2> QED
      BY <2>1, <2>6, <2>7, <2>8 DEF TypeInv, TypeOK, RowsOK, accounts, history
  <1> QED
    BY <1>1, <1>2

\* consumeChallenge.
LEMMA ConsumeType ==
    ASSUME TypeInv, NEW r \in Reqs, consumeChallenge(r)
    PROVE  TypeInv'
  <1> DEFINE h == challenge[slot[r].q.challenge]
             s == [slot[r] EXCEPT !.pc = "login_tx", !.at = now,
                                  !.user = h.user, !.hash = h.hash,
                                  !.upgraded = h.upgraded, !.resets = h.resets]
  <1>1. /\ slot[r].pc = "complete_login" /\ h.state = "open"
        /\ challenge' = [challenge EXCEPT ![slot[r].q.challenge] = Spent]
        /\ Goto(r, s) \/ Done(r)
        /\ UNCHANGED << accounts, session, salts, now, begun, history >>
    BY DEF consumeChallenge
  <1>2. slot[r] \in Slot /\ slot[r].q \in Requests
        /\ slot[r].q.op = "complete_login"
    BY <1>1, BusySlot, StepOp DEF Ops
  <1>3. slot[r].q.challenge \in Challenges
    BY <1>2, RequestFields DEF WellFormed
  <1>4. h \in ChallengeState /\ h.user \in Users /\ now \in Nat
    BY <1>1, <1>3 DEF TypeInv, TypeOK, RowsOK
  <1> HIDE DEF h
  <1>5. s \in Slot
    BY <1>2, <1>4 DEF Slot, Steps, ChallengeState
  <1>6. s.pc = "login_tx" /\ s.q = slot[r].q /\ s.user = h.user
    BY <1>2 DEF Slot
  <1> HIDE DEF s
  <1>7. SlotOK(s)
    BY <1>2, <1>4, <1>6 DEF SlotOK, StepsOf, LoginEnd
  <1>8. /\ slot' \in [Reqs -> Slot]
        /\ \A x \in Reqs : SlotOK(slot'[x])
    BY <1>1, <1>5, <1>7, GotoType, DoneType
  <1>9. Spent \in ChallengeState /\ Spent.state = "gone"
    BY DEF Spent, Unissued, ChallengeState
  <1>10. challenge' \in [Challenges -> ChallengeState]
    BY <1>1, <1>9 DEF TypeInv, TypeOK
  <1>11. \A x \in Challenges :
           challenge'[x].state = "open" => challenge'[x].user \in Users
    BY <1>1, <1>9 DEF TypeInv, TypeOK, RowsOK
  <1> QED
    BY <1>1, <1>8, <1>10, <1>11 DEF TypeInv, TypeOK, RowsOK, accounts, history

\* What accepting a factor does, whatever the code was.
LEMMA FactorType ==
    ASSUME TypeInv, NEW s \in Slot, NEW t \in Sessions, NEW u \in Users,
           \/ /\ s.q.factor.kind = "totp"
              /\ verifyAndConsumeTOTP(s, t, u)
              /\ UNCHANGED recovery
           \/ /\ u = s.user
              /\ s.q.factor.code \in RecoveryCodes
              /\ consumeRecoveryCode(s, t)
              /\ UNCHANGED totp
    PROVE  /\ totp' \in [Users -> Nat]
           /\ recovery' \in
                [Users -> [RecoveryCodes -> { "absent", "unused", "used" }]]
           /\ \A e \in accepted' : e \in
                [ user : Users, kind : { "totp", "recovery" },
                  id : Nat \cup RecoveryCodes, session : Sessions, at : Nat,
                  n : Nat ]
  <1>1. s.at \in Nat /\ s.n \in Nat
    BY DEF Slot
  <1>2. CASE verifyAndConsumeTOTP(s, t, u) /\ UNCHANGED recovery
    <2>1. PICK k \in MatchingCounters(u, s.q.factor.code, s.at) :
            /\ totp' = [totp EXCEPT ![u] = k + 1]
            /\ Accept(s, t, u, "totp", k)
      BY <1>2 DEF verifyAndConsumeTOTP
    <2>2. Counter(s.at) \in Nat
      BY <1>1, LifetimesAssumption DEF Counter
    <2>3. k \in Nat
      BY <2>1, <2>2 DEF MatchingCounters
    <2> QED
      BY <1>1, <1>2, <2>1, <2>3 DEF Accept, TypeInv, TypeOK
  <1>3. CASE /\ u = s.user
             /\ s.q.factor.code \in RecoveryCodes
             /\ consumeRecoveryCode(s, t)
             /\ UNCHANGED totp
    BY <1>1, <1>3 DEF consumeRecoveryCode, Accept, TypeInv, TypeOK
  <1> QED
    BY <1>2, <1>3

\* completeLogin: the rows before the session.
LEMMA LoginUser ==
    ASSUME TypeInv, NEW s \in Slot, s.user \in Users, user[s.user].exists,
           user' = IF s.upgraded = NoHash THEN user
                   ELSE [user EXCEPT ![s.user].hash = s.upgraded]
    PROVE  /\ user' \in [Users -> User]
           /\ \A v \in Users : user'[v].exists => user'[v].hash \in Hash
  <1>1. CASE s.upgraded = NoHash
    BY <1>1 DEF TypeInv, TypeOK, RowsOK
  <1>2. CASE s.upgraded # NoHash
    <2>1. s.upgraded \in Hash
      BY <1>2 DEF Slot
    <2> QED
      BY <1>2, <2>1 DEF TypeInv, TypeOK, RowsOK, User
  <1> QED
    BY <1>1, <1>2

\* completeLogin.
LEMMA LoginType ==
    ASSUME TypeInv, NEW r \in Reqs, NEW t \in Sessions, completeLogin(r, t)
    PROVE  TypeInv'
  <1> DEFINE s == slot[r]
             x == [ state |-> "valid", user |-> s.user,
                    expires |-> s.at + SessionAbsoluteLifetime,
                    idle |-> s.at + SessionIdleLifetime,
                    recent |-> RecentAfterLogin(s), revokedAt |-> 0,
                    password |-> s.resets, role |-> user[s.user].role ]
             z == [s EXCEPT !.pc = "login_resolve", !.session = t]
  <1>1. /\ s.pc = "login_tx" /\ PasswordUnchanged(s) /\ VerifyFactor(s, t)
        /\ user' = IF s.upgraded = NoHash THEN user
                   ELSE [user EXCEPT ![s.user].hash = s.upgraded]
        /\ session' = [session EXCEPT ![t] = x]
        /\ opened' = opened \cup {[challenge |-> s.q.challenge, session |-> t]}
        /\ Goto(r, z)
        /\ UNCHANGED << challenge, salts, now, begun, audited, delivered,
                        owners >>
    BY DEF completeLogin
  <1>2. s \in Slot /\ s.q \in Requests /\ s.q.op = "complete_login"
        /\ s.user \in Users /\ s.at \in Nat /\ s.resets \in Nat
    BY <1>1, BusySlot, StepOp DEF SlotOK
  <1>3. s.q.challenge \in Challenges /\ s.q.factor \in Factors
    BY <1>2, RequestFields DEF WellFormed
  <1>4. x \in Session /\ x.user \in Users
    <2>1. RecentAfterLogin(s) \in Nat
      BY <1>2 DEF RecentAfterLogin
    <2>2. user[s.user].role \in SystemRoles
      BY <1>2 DEF TypeInv, TypeOK, User
    <2> QED
      BY <1>2, <2>1, <2>2, Lifetimes DEF Session
  <1>5. z \in Slot
    BY <1>2 DEF Slot, Steps
  <1>6. z.pc = "login_resolve" /\ z.q = s.q /\ z.session = t
    BY <1>2 DEF Slot
  <1>7. SlotOK(z)
    BY <1>2, <1>6 DEF SlotOK, StepsOf, LoginEnd
  <1> HIDE DEF z, x
  <1>8. /\ slot' \in [Reqs -> Slot]
        /\ \A y \in Reqs : SlotOK(slot'[y])
    BY <1>1, <1>5, <1>7, GotoType
  <1> HIDE DEF s
  <1>9. /\ user' \in [Users -> User]
        /\ \A v \in Users : user'[v].exists => user'[v].hash \in Hash
    BY <1>1, <1>2, LoginUser DEF PasswordUnchanged
  <1>10. /\ totp' \in [Users -> Nat]
         /\ recovery' \in
              [Users -> [RecoveryCodes -> { "absent", "unused", "used" }]]
         /\ \A e \in accepted' : e \in
              [ user : Users, kind : { "totp", "recovery" },
                id : Nat \cup RecoveryCodes, session : Sessions, at : Nat,
                n : Nat ]
    <2>1. s.q.factor.kind = "recovery" => s.q.factor.code \in RecoveryCodes
      BY <1>3 DEF Factors
    <2>2. \/ /\ s.q.factor.kind = "totp"
             /\ verifyAndConsumeTOTP(s, t, s.user)
             /\ UNCHANGED recovery
          \/ /\ s.q.factor.code \in RecoveryCodes
             /\ consumeRecoveryCode(s, t)
             /\ UNCHANGED totp
      BY <1>1, <2>1 DEF VerifyFactor
    <2> QED
      BY <1>2, <2>2, FactorType
  <1>11. /\ session' \in [Sessions -> Session]
         /\ \A y \in Sessions :
              session'[y].state # "free" => session'[y].user \in Users
    BY <1>1, <1>4 DEF TypeInv, TypeOK, RowsOK
  <1>12. opened' \subseteq [challenge : Challenges, session : Sessions]
    BY <1>1, <1>3 DEF TypeInv, TypeOK
  <1> QED
    BY <1>1, <1>8, <1>9, <1>10, <1>11, <1>12 DEF TypeInv, TypeOK, RowsOK

\* The rows of the table of sessions.
SessionRowOK(x) == x \in Session /\ (x.state # "free" => x.user \in Users)

\* What the operations on sessions write.
LEMMA SessionRows ==
    ASSUME TypeInv, NEW t \in Sessions, NEW at \in Nat
    PROVE  /\ SessionRowOK(session[t])
           /\ NextIdle(t, at) \in Nat
           /\ SessionRowOK([session[t] EXCEPT !.idle = NextIdle(t, at)])
           /\ SessionRowOK([session[t] EXCEPT !.recent = at + 1,
                                              !.idle = NextIdle(t, at)])
           /\ SessionRowOK(Revoked(session[t], at))
           /\ session[t].state # "free" =>
                SessionRowOK([session[t] EXCEPT !.state = "removed"])
  <1>1. session[t] \in Session
        /\ (session[t].state # "free" => session[t].user \in Users)
    BY DEF TypeInv, TypeOK, RowsOK
  <1>2. NextIdle(t, at) \in Nat
    BY <1>1, Lifetimes DEF NextIdle, Session
  <1>3. SessionRowOK([session[t] EXCEPT !.idle = NextIdle(t, at)])
    BY <1>1, <1>2 DEF SessionRowOK, Session
  <1>4. SessionRowOK([session[t] EXCEPT !.recent = at + 1,
                                        !.idle = NextIdle(t, at)])
    <2> DEFINE x == [session[t] EXCEPT !.recent = at + 1,
                                       !.idle = NextIdle(t, at)]
    <2>1. at + 1 \in Nat
      OBVIOUS
    <2>2. x \in Session
      BY <1>1, <1>2, <2>1 DEF Session
    <2>3. x.state = session[t].state /\ x.user = session[t].user
      BY <1>1 DEF Session
    <2> QED
      BY <1>1, <2>2, <2>3 DEF SessionRowOK
  <1>5. SessionRowOK(Revoked(session[t], at))
    <2>1. CASE session[t].state = "valid"
      BY <1>1, <2>1 DEF SessionRowOK, Session, Revoked
    <2>2. CASE session[t].state # "valid"
      BY <1>1, <2>2 DEF SessionRowOK, Revoked
    <2> QED
      BY <2>1, <2>2
  <1>6. session[t].state # "free" =>
          SessionRowOK([session[t] EXCEPT !.state = "removed"])
    BY <1>1 DEF SessionRowOK, Session
  <1> QED
    BY <1>1, <1>2, <1>3, <1>4, <1>5, <1>6 DEF SessionRowOK

\* An update of one row, or of all.
LEMMA SessionsType ==
    ASSUME TypeInv,
           \/ \E t \in Sessions : \E x :
                SessionRowOK(x) /\ session' = [session EXCEPT ![t] = x]
           \/ /\ DOMAIN session' = Sessions
              /\ session' = [t \in Sessions |-> session'[t]]
              /\ \A t \in Sessions : SessionRowOK(session'[t])
    PROVE  /\ session' \in [Sessions -> Session]
           /\ \A y \in Sessions :
                session'[y].state # "free" => session'[y].user \in Users
  BY DEF SessionRowOK, TypeInv, TypeOK, RowsOK

\* All sessions of a user are revoked.
LEMMA RevokeType ==
    ASSUME TypeInv, NEW u \in Users, NEW at \in Nat, revokeUserSessionsTx(u, at)
    PROVE  /\ session' \in [Sessions -> Session]
           /\ \A y \in Sessions :
                session'[y].state # "free" => session'[y].user \in Users
  <1>1. \A t \in Sessions : SessionRowOK(session'[t])
    BY SessionRows DEF revokeUserSessionsTx
  <1> QED
    BY <1>1, SessionsType DEF revokeUserSessionsTx

\* The handler of a completed login, after its transaction.
LEMMA LoginEndType ==
    ASSUME TypeInv, NEW r \in Reqs,
           \/ LoginResolve(r) \/ LoginRecord(r) \/ LoginDeliver(r)
           \/ LoginFails(r) \/ LoginLogout(r)
    PROVE  TypeInv'
  <1>1. slot[r].pc \in LoginEnd
    BY DEF LoginResolve, LoginRecord, LoginDeliver, LoginFails, LoginLogout,
           LoginEnd
  <1>2. slot[r] \in Slot /\ slot[r].q \in Requests
        /\ slot[r].q.op = "complete_login" /\ slot[r].session \in Sessions
        /\ slot[r].at \in Nat /\ now \in Nat
    BY <1>1, BusySlot, StepOp DEF SlotOK, LoginEnd, TypeInv, TypeOK
  <1>3. ASSUME NEW pc \in LoginEnd, Goto(r, [slot[r] EXCEPT !.pc = pc])
        PROVE  /\ slot' \in [Reqs -> Slot]
               /\ \A y \in Reqs : SlotOK(slot'[y])
    <2> DEFINE z == [slot[r] EXCEPT !.pc = pc]
    <2>1. z \in Slot
      BY <1>2 DEF Slot, Steps, LoginEnd
    <2>2. z.pc = pc /\ z.q = slot[r].q /\ z.session = slot[r].session
      BY <1>2 DEF Slot
    <2> HIDE DEF z
    <2>3. SlotOK(z)
      BY <1>2, <2>2 DEF SlotOK, StepsOf, LoginEnd
    <2> QED
      BY <1>3, <2>1, <2>3, GotoType DEF z
  <1>4. CASE LoginResolve(r)
    <2>1. PICK at \in Nat : resolveSession(slot[r].session, at)
      BY <1>2, <1>4 DEF LoginResolve
    <2>2. /\ session' \in [Sessions -> Session]
          /\ \A y \in Sessions :
               session'[y].state # "free" => session'[y].user \in Users
      BY <1>2, <2>1, SessionRows, SessionsType DEF resolveSession
    <2>3. /\ slot' \in [Reqs -> Slot]
          /\ \A y \in Reqs : SlotOK(slot'[y])
      BY <1>3, <1>4 DEF LoginResolve, LoginEnd
    <2>4. UNCHANGED << accounts, challenge, salts, now, begun, history >>
      BY <1>4 DEF LoginResolve
    <2> QED
      BY <2>2, <2>3, <2>4 DEF TypeInv, TypeOK, RowsOK, accounts, history
  <1>5. CASE LoginRecord(r) \/ LoginFails(r)
    <2>1. /\ slot' \in [Reqs -> Slot]
          /\ \A y \in Reqs : SlotOK(slot'[y])
      BY <1>3, <1>5 DEF LoginRecord, LoginFails, LoginEnd
    <2>2. /\ UNCHANGED << accounts, session, challenge, salts, now, begun,
                          accepted, opened, delivered, owners >>
          /\ audited' \in { audited, audited \cup { slot[r].session } }
      BY <1>5 DEF LoginRecord, LoginFails, history
    <2> QED
      BY <1>2, <2>1, <2>2 DEF TypeInv, TypeOK, RowsOK, accounts
  <1>6. CASE LoginDeliver(r)
    <2>1. /\ slot' \in [Reqs -> Slot]
          /\ \A y \in Reqs : SlotOK(slot'[y])
      BY <1>6, DoneType DEF LoginDeliver
    <2> QED
      BY <1>2, <1>6, <2>1 DEF LoginDeliver, TypeInv, TypeOK, RowsOK, accounts
  <1>7. CASE LoginLogout(r)
    <2>1. PICK at \in slot[r].at..now :
            session' = [session EXCEPT ![slot[r].session] =
                          Revoked(session[slot[r].session], at)]
      BY <1>7 DEF LoginLogout
    <2>2. /\ session' \in [Sessions -> Session]
          /\ \A y \in Sessions :
               session'[y].state # "free" => session'[y].user \in Users
      <3>1. at \in Nat
        BY <1>2
      <3> QED
        BY <1>2, <2>1, <3>1, SessionRows, SessionsType
    <2>3. /\ slot' \in [Reqs -> Slot]
          /\ \A y \in Reqs : SlotOK(slot'[y])
      BY <1>7, DoneType DEF LoginLogout
    <2>4. UNCHANGED << accounts, challenge, salts, now, begun, history >>
      BY <1>7 DEF LoginLogout
    <2> QED
      BY <2>2, <2>3, <2>4 DEF TypeInv, TypeOK, RowsOK, accounts, history
  <1> QED
    BY <1>4, <1>5, <1>6, <1>7

\* The operations on one session, or on those of a user.
LEMMA SessionOpType ==
    ASSUME TypeInv, NEW r \in Reqs,
           \/ ResolveSession(r) \/ verifyRecentTOTP(r)
           \/ LogoutAudited(r) \/ RevokeUserSessions(r)
    PROVE  TypeInv'
  <1>1. /\ slot[r].pc \in { "resolve", "reverify", "logout", "revoke_all" }
        /\ Done(r)
        /\ UNCHANGED << user, challenge, salts, now, begun, opened, audited,
                        delivered, owners >>
    BY DEF ResolveSession, verifyRecentTOTP, LogoutAudited, RevokeUserSessions,
           accounts, history
  <1>2. slot[r] \in Slot /\ slot[r].q \in Requests
        /\ slot[r].q.op = slot[r].pc /\ slot[r].at \in Nat
    BY <1>1, BusySlot, StepOp DEF Ops
  <1>3. /\ slot[r].pc # "revoke_all" => slot[r].q.session \in Sessions
        /\ slot[r].pc = "revoke_all" => slot[r].q.user \in Users
        /\ slot[r].pc = "reverify" => slot[r].q.factor.kind = "totp"
    BY <1>1, <1>2, RequestFields DEF WellFormed
  <1>4. /\ slot' \in [Reqs -> Slot]
        /\ \A y \in Reqs : SlotOK(slot'[y])
    BY <1>1, DoneType
  <1>5. /\ session' \in [Sessions -> Session]
        /\ \A y \in Sessions :
             session'[y].state # "free" => session'[y].user \in Users
    <2>1. CASE ResolveSession(r)
      BY <1>2, <1>3, <2>1, SessionRows, SessionsType
      DEF ResolveSession, resolveSession
    <2>2. CASE verifyRecentTOTP(r)
      <3> DEFINE t == slot[r].q.session
      <3>1. /\ t \in Sessions
            /\ session' = [session EXCEPT ![t].recent = slot[r].at + 1,
                                          ![t].idle = NextIdle(t, slot[r].at)]
        BY <1>3, <2>2 DEF verifyRecentTOTP
      <3>2. session' = [session EXCEPT ![t] =
              [session[t] EXCEPT !.recent = slot[r].at + 1,
                                 !.idle = NextIdle(t, slot[r].at)]]
        BY <3>1 DEF TypeInv, TypeOK, Session
      <3> QED
        BY <1>2, <3>1, <3>2, SessionRows, SessionsType
    <2>3. CASE LogoutAudited(r)
      BY <1>2, <1>3, <2>3, SessionRows, SessionsType DEF LogoutAudited
    <2>4. CASE RevokeUserSessions(r)
      BY <1>2, <1>3, <2>4, RevokeType DEF RevokeUserSessions
    <2> QED
      BY <2>1, <2>2, <2>3, <2>4
  <1>6. /\ totp' \in [Users -> Nat]
        /\ recovery' \in
             [Users -> [RecoveryCodes -> { "absent", "unused", "used" }]]
        /\ \A e \in accepted' : e \in
             [ user : Users, kind : { "totp", "recovery" },
               id : Nat \cup RecoveryCodes, session : Sessions, at : Nat,
               n : Nat ]
    <2>1. CASE verifyRecentTOTP(r)
      <3>1. /\ slot[r].q.session \in Sessions
            /\ slot[r].q.factor.kind = "totp"
            /\ session[slot[r].q.session].user \in Users
        BY <1>3, <2>1 DEF verifyRecentTOTP, Usable, TypeInv, RowsOK
      <3> QED
        BY <1>2, <2>1, <3>1, FactorType DEF verifyRecentTOTP
    <2>2. CASE ~ verifyRecentTOTP(r)
      BY <2>2 DEF ResolveSession, LogoutAudited, RevokeUserSessions, accounts,
                  history, TypeInv, TypeOK
    <2> QED
      BY <2>1, <2>2
  <1> QED
    BY <1>1, <1>4, <1>5, <1>6 DEF TypeInv, TypeOK, RowsOK

\* Roles and passwords.
LEMMA RoleType ==
    ASSUME TypeInv, NEW r \in Reqs,
           ChangeSystemRole(r) \/ ResetPassword(r) \/ ForgetChallenges(r)
    PROVE  TypeInv'
  <1>1. CASE ChangeSystemRole(r)
    <2> DEFINE u == slot[r].q.user
               role == slot[r].q.role
    <2>1. /\ slot[r].pc = "change_role" /\ Done(r) /\ user[u].exists
          /\ user' = [user EXCEPT ![u].role = role]
          /\ revokeUserSessionsTx(u, slot[r].at)
          /\ UNCHANGED << totp, recovery, challenge, salts, now, begun,
                          history >>
      BY <1>1 DEF ChangeSystemRole
    <2>2. slot[r].q \in Requests /\ slot[r].q.op = "change_role"
          /\ slot[r].at \in Nat
      BY <2>1, BusySlot, StepOp DEF Ops
    <2>3. u \in Users /\ role \in SystemRoles
      BY <2>2, RequestFields DEF WellFormed
    <2> HIDE DEF u, role
    <2>4. /\ user' \in [Users -> User]
          /\ \A v \in Users : user'[v].exists => user'[v].hash \in Hash
      BY <2>1, <2>3 DEF TypeInv, TypeOK, RowsOK, User
    <2>5. /\ session' \in [Sessions -> Session]
          /\ \A y \in Sessions :
               session'[y].state # "free" => session'[y].user \in Users
      BY <2>1, <2>2, <2>3, RevokeType
    <2>6. /\ slot' \in [Reqs -> Slot]
          /\ \A y \in Reqs : SlotOK(slot'[y])
      BY <2>1, DoneType
    <2> QED
      BY <2>1, <2>4, <2>5, <2>6 DEF TypeInv, TypeOK, RowsOK, history
  <1>2. CASE ResetPassword(r)
    <2> DEFINE u == slot[r].q.user
               hash == NewHash(slot[r].q.password)
               z == [slot[r] EXCEPT !.pc = "forget_challenges"]
    <2>1. /\ slot[r].pc = "reset_password" /\ Goto(r, z)
          /\ user' = [user EXCEPT ![u].hash = hash, ![u].resets = @ + 1]
          /\ salts' = salts + 1
          /\ revokeUserSessionsTx(u, slot[r].at)
          /\ UNCHANGED << totp, recovery, challenge, now, begun, history >>
      BY <1>2 DEF ResetPassword
    <2>2. slot[r] \in Slot /\ slot[r].q \in Requests
          /\ slot[r].q.op = "reset_password" /\ slot[r].at \in Nat
      BY <2>1, BusySlot, StepOp DEF Ops
    <2>3. u \in Users /\ slot[r].q.password \in Passwords
      BY <2>2, RequestFields DEF WellFormed
    <2>4. hash \in Hash
      BY <2>3, NewHashType
    <2>5. z \in Slot
      BY <2>2 DEF Slot, Steps
    <2>6. z.pc = "forget_challenges" /\ z.q = slot[r].q
      BY <2>2 DEF Slot
    <2> HIDE DEF u, hash, z
    <2>7. SlotOK(z)
      BY <2>2, <2>6 DEF SlotOK, StepsOf, LoginEnd
    <2>8. /\ slot' \in [Reqs -> Slot]
          /\ \A y \in Reqs : SlotOK(slot'[y])
      BY <2>1, <2>5, <2>7, GotoType
    <2>9. /\ user' \in [Users -> User]
          /\ \A v \in Users : user'[v].exists => user'[v].hash \in Hash
      BY <2>1, <2>3, <2>4 DEF TypeInv, TypeOK, RowsOK, User
    <2>10. /\ session' \in [Sessions -> Session]
           /\ \A y \in Sessions :
                session'[y].state # "free" => session'[y].user \in Users
      BY <2>1, <2>2, <2>3, RevokeType
    <2> QED
      BY <2>1, <2>8, <2>9, <2>10 DEF TypeInv, TypeOK, RowsOK, history
  <1>3. CASE ForgetChallenges(r)
    <2>1. /\ Done(r)
          /\ challenge' = [h \in Challenges |->
                IF challenge[h].user = slot[r].q.user THEN Spent
                ELSE challenge[h]]
          /\ UNCHANGED << accounts, session, salts, now, begun, history >>
      BY <1>3 DEF ForgetChallenges
    <2>2. Spent \in ChallengeState /\ Spent.state = "gone"
      BY DEF Spent, Unissued, ChallengeState
    <2>3. challenge' \in [Challenges -> ChallengeState]
      BY <2>1, <2>2 DEF TypeInv, TypeOK
    <2>4. \A x \in Challenges :
            challenge'[x].state = "open" => challenge'[x].user \in Users
      BY <2>1, <2>2 DEF TypeInv, TypeOK, RowsOK
    <2>5. /\ slot' \in [Reqs -> Slot]
          /\ \A y \in Reqs : SlotOK(slot'[y])
      BY <2>1, DoneType
    <2> QED
      BY <2>1, <2>3, <2>4, <2>5 DEF TypeInv, TypeOK, RowsOK, accounts, history
  <1> QED
    BY <1>1, <1>2, <1>3

\* Maintenance, the process and the clock.
LEMMA OtherType ==
    ASSUME TypeInv,
           \/ \E started \in 0..now : cleanupExpiredState(started)
           \/ Crash \/ Tick
    PROVE  TypeInv'
  <1>1. ASSUME NEW started \in 0..now, cleanupExpiredState(started)
        PROVE  TypeInv'
    <2>1. \A t \in Sessions : SessionRowOK(session'[t])
      <3> TAKE t \in Sessions
      <3>1. /\ SessionRowOK(session[t])
            /\ session[t].state # "free" =>
                 SessionRowOK([session[t] EXCEPT !.state = "removed"])
        BY SessionRows
      <3> QED
        BY <1>1, <3>1 DEF cleanupExpiredState
    <2>2. /\ session' \in [Sessions -> Session]
          /\ \A y \in Sessions :
               session'[y].state # "free" => session'[y].user \in Users
      BY <1>1, <2>1, SessionsType DEF cleanupExpiredState
    <2>3. UNCHANGED << accounts, challenge, slot, salts, now, begun, history >>
      BY <1>1 DEF cleanupExpiredState
    <2> QED
      BY <2>2, <2>3 DEF TypeInv, TypeOK, RowsOK, accounts, history
  <1>2. CASE Crash
    <2>1. Spent \in ChallengeState /\ Spent.state = "gone"
      BY DEF Spent, Unissued, ChallengeState
    <2>2. challenge' \in [Challenges -> ChallengeState]
      BY <1>2, <2>1 DEF Crash, TypeInv, TypeOK
    <2>3. \A x \in Challenges : challenge'[x].state # "open"
      BY <1>2, <2>1 DEF Crash
    <2>4. /\ slot' \in [Reqs -> Slot]
          /\ \A y \in Reqs : SlotOK(slot'[y])
      BY <1>2, IdleType DEF Crash
    <2>5. UNCHANGED << accounts, session, salts, now, begun, history >>
      BY <1>2 DEF Crash
    <2> QED
      BY <2>2, <2>3, <2>4, <2>5 DEF TypeInv, TypeOK, RowsOK, accounts, history
  <1>3. CASE Tick
    <2>1. /\ now' = now + 1
          /\ UNCHANGED << accounts, session, challenge, slot, salts, begun,
                          history >>
      BY <1>3 DEF Tick
    <2> QED
      BY <2>1 DEF TypeInv, TypeOK, RowsOK, accounts, history
  <1> QED
    BY <1>1, <1>2, <1>3

\* The type invariant is inductive.
LEMMA TypeInductive ==
    ASSUME TypeInv, [Next]_vars
    PROVE  TypeInv'
  <1>1. ASSUME NEW r \in Reqs, RequestStep(r)
        PROVE  TypeInv'
    <2>1. CASE LoginStep(r)
      BY <2>1, BeginType, ConsumeType, LoginType, LoginEndType DEF LoginStep
    <2>2. CASE ~ LoginStep(r)
      BY <1>1, <2>2, StartEndType, AccountType, SessionOpType, RoleType
      DEF RequestStep
    <2> QED
      BY <2>1, <2>2
  <1>2. CASE Provision
    BY <1>2, AccountType
  <1>3. CASE \/ \E started \in 0..now : cleanupExpiredState(started)
             \/ Crash \/ Tick
    BY <1>3, OtherType
  <1>4. CASE UNCHANGED vars
    BY <1>4 DEF vars, accounts, history, TypeInv, TypeOK, RowsOK
  <1> QED
    BY <1>1, <1>2, <1>3, <1>4 DEF Next

\* The initial states have the types.
LEMMA TypeInit == Init => TypeInv
  <1> SUFFICES ASSUME Init PROVE TypeInv
    OBVIOUS
  <1>1. NoAccount \in User /\ NoAccount.exists = FALSE
    BY DEF NoAccount, User, SystemRoles
  <1>2. FreeSession \in Session /\ FreeSession.state = "free"
    BY DEF FreeSession, Session, SystemRoles
  <1>3. Unissued \in ChallengeState /\ Unissued.state = "new"
    BY DEF Unissued, ChallengeState
  <1>4. TypeOK
    BY <1>1, <1>2, <1>3, IdleType DEF Init, TypeOK
  <1>5. RowsOK /\ \A r \in Reqs : SlotOK(slot[r])
    BY <1>1, <1>2, <1>3, IdleType DEF Init, RowsOK
  <1> QED
    BY <1>4, <1>5 DEF TypeInv

\* The variables keep their types: users, sessions, challenges and requests,
\* with what the steps of a request have established (TypeOK).
THEOREM TypeCorrect == Spec => [](TypeOK /\ RowsOK)
  <1>1. Spec => []TypeInv
    BY TypeInit, TypeInductive, PTL DEF Spec
  <1>2. TypeInv => TypeOK /\ RowsOK
    BY DEF TypeInv
  <1> QED
    BY <1>1, <1>2, PTL

-----------------------------------------------------------------------------
(***************************************************************************)
(* Most steps are quiet: they touch no account and open no session.        *)
(***************************************************************************)

\* No session is opened, and none changes hands.
SessionsShrink ==
    \A t \in Sessions :
        session'[t].state = "valid" =>
            /\ session[t].state = "valid"
            /\ session'[t].user = session[t].user
            /\ session'[t].password = session[t].password
            /\ session'[t].role = session[t].role

Quiet ==
    /\ UNCHANGED << user, totp, recovery, accepted, opened, owners >>
    /\ SessionsShrink

\* Writing back one session shrinks the sessions, if that one does.
LEMMA ShrinkOne ==
    ASSUME TypeInv, NEW t \in Sessions, NEW at \in Nat,
           \/ session' = [session EXCEPT ![t].idle = NextIdle(t, at)]
           \/ session' = [session EXCEPT ![t] = Revoked(session[t], at)]
           \/ session' = [session EXCEPT ![t].recent = at + 1,
                                         ![t].idle = NextIdle(t, at)]
    PROVE  SessionsShrink
  <1>1. \A y \in Sessions : session[y] \in Session
    BY DEF TypeInv, TypeOK
  <1>2. session \in [Sessions -> Session]
    BY DEF TypeInv, TypeOK
  <1>3. CASE session' = [session EXCEPT ![t].idle = NextIdle(t, at)]
    BY <1>1, <1>2, <1>3 DEF SessionsShrink, Session
  <1>4. CASE session' = [session EXCEPT ![t] = Revoked(session[t], at)]
    <2>1. CASE session[t].state = "valid"
      <3>1. Revoked(session[t], at).state = "revoked"
        BY <1>1, <2>1 DEF Revoked, Session
      <3> QED
        BY <1>2, <1>4, <3>1 DEF SessionsShrink
    <2>2. CASE session[t].state # "valid"
      BY <1>2, <1>4, <2>2 DEF SessionsShrink, Revoked
    <2> QED
      BY <2>1, <2>2
  <1>5. CASE session' = [session EXCEPT ![t].recent = at + 1,
                                        ![t].idle = NextIdle(t, at)]
    BY <1>1, <1>2, <1>5 DEF SessionsShrink, Session
  <1> QED
    BY <1>3, <1>4, <1>5

\* Revoking the sessions of a user leaves none of them in force.
LEMMA ShrinkUser ==
    ASSUME TypeInv, NEW u, NEW at \in Nat, revokeUserSessionsTx(u, at)
    PROVE  /\ SessionsShrink
           /\ \A t \in Sessions : session'[t].state = "valid" =>
                                      session'[t].user # u
  <1> SUFFICES ASSUME NEW t \in Sessions, session'[t].state = "valid"
               PROVE  session'[t] = session[t] /\ session[t].user # u
    BY DEF SessionsShrink
  <1>1. session[t] \in Session
    BY DEF TypeInv, TypeOK
  <1>2. session'[t] = IF session[t].user = u THEN Revoked(session[t], at)
                      ELSE session[t]
    BY DEF revokeUserSessionsTx
  <1>3. CASE session[t].user = u
    <2>1. Revoked(session[t], at).state # "valid"
      BY <1>1 DEF Revoked, Session
    <2> QED
      BY <1>2, <1>3, <2>1
  <1> QED
    BY <1>2, <1>3

\* The steps that are not quiet.
LEMMA QuietSteps ==
    ASSUME TypeInv, [Next]_vars
    PROVE  \/ Quiet
           \/ Provision
           \/ \E r \in Reqs :
                \/ createInitialOwner(r) \/ verifyRecentTOTP(r)
                \/ ChangeSystemRole(r) \/ ResetPassword(r)
                \/ \E t \in Sessions : completeLogin(r, t)
  <1>1. UNCHANGED << accounts, accepted, opened, owners, session >> => Quiet
    BY DEF Quiet, SessionsShrink, accounts
  <1>2. ASSUME NEW r \in Reqs,
               \/ End(r) \/ InitialOwnerCheck(r) \/ BeginLogin(r)
               \/ consumeChallenge(r) \/ LoginRecord(r) \/ LoginDeliver(r)
               \/ LoginFails(r) \/ ForgetChallenges(r)
               \/ \E q \in Requests : Start(r, q)
               \/ \E h \in Challenges : PutChallenge(r, h)
        PROVE  Quiet
    BY <1>1, <1>2
    DEF End, InitialOwnerCheck, BeginLogin, consumeChallenge, LoginRecord,
        LoginDeliver, LoginFails, ForgetChallenges, Start, PutChallenge, history
  <1>3. ASSUME NEW r \in Reqs,
               \/ LoginResolve(r) \/ LoginLogout(r) \/ ResolveSession(r)
               \/ LogoutAudited(r) \/ RevokeUserSessions(r)
        PROVE  Quiet
    <2>1. UNCHANGED << accounts, accepted, opened, owners >>
      BY <1>3 DEF LoginResolve, LoginLogout, ResolveSession, LogoutAudited,
                  RevokeUserSessions, history
    <2>2. SessionsShrink
      <3>1. slot[r].pc # "idle"
        BY <1>3 DEF LoginResolve, LoginLogout, ResolveSession, LogoutAudited,
                    RevokeUserSessions
      <3>2. slot[r].at \in Nat /\ now \in Nat /\ slot[r].q \in Requests
        BY <3>1, BusySlot DEF TypeInv, TypeOK
      <3>3. CASE LoginResolve(r)
        <4>1. slot[r].session \in Sessions
          BY <3>1, <3>3, BusySlot DEF LoginResolve, SlotOK, LoginEnd
        <4>2. PICK at \in slot[r].at..now : resolveSession(slot[r].session, at)
          BY <3>3 DEF LoginResolve
        <4>3. at \in Nat
          BY <3>2
        <4> QED
          BY <4>1, <4>2, <4>3, ShrinkOne DEF resolveSession
      <3>4. CASE LoginLogout(r)
        <4>1. slot[r].session \in Sessions
          BY <3>1, <3>4, BusySlot DEF LoginLogout, SlotOK, LoginEnd
        <4>2. PICK at \in slot[r].at..now :
                session' = [session EXCEPT ![slot[r].session] =
                              Revoked(session[slot[r].session], at)]
          BY <3>4 DEF LoginLogout
        <4>3. at \in Nat
          BY <3>2
        <4> QED
          BY <4>1, <4>2, <4>3, ShrinkOne
      <3>5. CASE ResolveSession(r) \/ LogoutAudited(r)
        <4>1. slot[r].q.session \in Sessions
          BY <3>1, <3>2, <3>5, StepOp, RequestFields
          DEF ResolveSession, LogoutAudited, WellFormed, Ops
        <4> QED
          BY <3>2, <3>5, <4>1, ShrinkOne
          DEF ResolveSession, LogoutAudited, resolveSession
      <3>6. CASE RevokeUserSessions(r)
        BY <3>2, <3>6, ShrinkUser DEF RevokeUserSessions
      <3> QED
        BY <1>3, <3>3, <3>4, <3>5, <3>6
    <2> QED
      BY <2>1, <2>2 DEF Quiet, accounts
  <1>4. ASSUME NEW started \in 0..now, cleanupExpiredState(started)
        PROVE  Quiet
    <2>1. UNCHANGED << accounts, accepted, opened, owners >>
      BY <1>4 DEF cleanupExpiredState, history
    <2>2. SessionsShrink
      <3> SUFFICES ASSUME NEW t \in Sessions, session'[t].state = "valid"
                   PROVE  session'[t] = session[t]
        BY DEF SessionsShrink
      <3>1. session[t] \in Session
        BY DEF TypeInv, TypeOK
      <3>2. [session[t] EXCEPT !.state = "removed"].state # "valid"
        BY <3>1 DEF Session
      <3> QED
        BY <1>4, <3>2 DEF cleanupExpiredState
    <2> QED
      BY <2>1, <2>2 DEF Quiet, accounts
  <1>5. CASE Crash \/ Tick \/ UNCHANGED vars
    BY <1>1, <1>5 DEF Crash, Tick, vars, history
  <1>6. ASSUME NEW r \in Reqs, RequestStep(r)
        PROVE  \/ Quiet
               \/ createInitialOwner(r) \/ verifyRecentTOTP(r)
               \/ ChangeSystemRole(r) \/ ResetPassword(r)
               \/ \E t \in Sessions : completeLogin(r, t)
    BY <1>2, <1>3, <1>6 DEF RequestStep, LoginStep
  <1> QED
    BY <1>4, <1>5, <1>6 DEF Next

-----------------------------------------------------------------------------
(***************************************************************************)
(* There is always a System Owner, and one initial owner.                  *)
(***************************************************************************)

OwnerInv ==
    /\ SystemOwnerRemains
    /\ InitialOwnerOnce
    /\ owners = 0 \/ hasUsers

\* Steps that create no user and change no role.
LEMMA OwnerFrame ==
    ASSUME TypeInv, OwnerInv, UNCHANGED owners,
           \A u \in Users : /\ user'[u].exists = user[u].exists
                            /\ user'[u].role = user[u].role
    PROVE  OwnerInv'
  BY DEF OwnerInv, SystemOwnerRemains, InitialOwnerOnce, hasUsers, IsOwner

\* OwnerInv is inductive.
LEMMA OwnerInductive ==
    ASSUME TypeInv, OwnerInv, [Next]_vars
    PROVE  OwnerInv'
  <1>1. CASE Quiet
    BY <1>1, OwnerFrame DEF Quiet
  <1>2. ASSUME NEW u \in Users, NEW hash, NEW role,
               InsertAccount(u, hash, role)
        PROVE  /\ user'[u].exists /\ user'[u].role = role
               /\ \A v \in Users \ { u } : user'[v] = user[v]
    BY <1>2 DEF InsertAccount, NoAccount, TypeInv, TypeOK
  <1>3. CASE Provision
    <2>1. PICK u \in Users, p \in Passwords, legacy \in BOOLEAN,
               role \in SystemRoles : ProvisionUser(u, p, legacy, role)
      BY <1>3 DEF Provision
    <2>2. /\ hasUsers /\ ~ user[u].exists /\ UNCHANGED owners
          /\ InsertAccount(u, [NewHash(p) EXCEPT !.legacy = legacy], role)
      BY <2>1 DEF ProvisionUser, InsertAccount, history
    <2>3. PICK v \in Users : IsOwner(v)
      BY <2>2 DEF OwnerInv, SystemOwnerRemains
    <2>4. user'[v] = user[v]
      BY <1>2, <2>2, <2>3 DEF IsOwner
    <2> QED
      BY <2>2, <2>3, <2>4
      DEF OwnerInv, SystemOwnerRemains, InitialOwnerOnce, hasUsers, IsOwner
  <1>4. ASSUME NEW r \in Reqs, createInitialOwner(r)
        PROVE  OwnerInv'
    <2>1. /\ slot[r].pc = "initial_owner_tx" /\ ~ hasUsers
          /\ InsertAccount(slot[r].q.user, slot[r].hash, "system_owner")
          /\ owners' = owners + 1
      BY <1>4 DEF createInitialOwner
    <2>2. slot[r].q \in Requests /\ slot[r].q.op = "initial_owner"
      BY <2>1, BusySlot, StepOp
    <2>3. slot[r].q.user \in Users
      BY <2>2, RequestFields DEF WellFormed
    <2>4. /\ user'[slot[r].q.user].exists
          /\ user'[slot[r].q.user].role = "system_owner"
      BY <1>2, <2>1, <2>3
    <2>5. owners' = 1
      BY <2>1 DEF OwnerInv
    <2> QED
      BY <2>3, <2>4, <2>5
      DEF OwnerInv, SystemOwnerRemains, InitialOwnerOnce, hasUsers, IsOwner
  <1>5. ASSUME NEW r \in Reqs,
               \/ verifyRecentTOTP(r) \/ ResetPassword(r)
               \/ \E t \in Sessions : completeLogin(r, t)
        PROVE  OwnerInv'
    <2>1. UNCHANGED owners
      BY <1>5 DEF verifyRecentTOTP, ResetPassword, completeLogin, history
    <2>2. \A u \in Users : /\ user'[u].exists = user[u].exists
                           /\ user'[u].role = user[u].role
      <3>1. user \in [Users -> User]
        BY DEF TypeInv, TypeOK
      <3>2. CASE verifyRecentTOTP(r)
        BY <3>2 DEF verifyRecentTOTP
      <3>3. CASE ResetPassword(r)
        BY <3>1, <3>3 DEF ResetPassword, User
      <3>4. ASSUME NEW t \in Sessions, completeLogin(r, t)
            PROVE  \A u \in Users : /\ user'[u].exists = user[u].exists
                                    /\ user'[u].role = user[u].role
        <4>1. user' = IF slot[r].upgraded = NoHash THEN user
                      ELSE [user EXCEPT ![slot[r].user].hash = slot[r].upgraded]
          BY <3>4 DEF completeLogin
        <4> QED
          BY <3>1, <4>1 DEF User
      <3> QED
        BY <1>5, <3>2, <3>3, <3>4
    <2> QED
      BY <2>1, <2>2, OwnerFrame
  <1>6. ASSUME NEW r \in Reqs, ChangeSystemRole(r)
        PROVE  OwnerInv'
    <2> DEFINE u == slot[r].q.user
               role == slot[r].q.role
    <2>1. /\ slot[r].pc = "change_role" /\ user[u].exists
          /\ KeepsAnOwner(u, role) /\ IsOwner(session[slot[r].q.session].user)
          /\ user' = [user EXCEPT ![u].role = role]
          /\ UNCHANGED owners
      BY <1>6 DEF ChangeSystemRole, history
    <2>2. slot[r].q \in Requests /\ slot[r].q.op = "change_role"
      BY <2>1, BusySlot, StepOp DEF Ops
    <2>3. u \in Users
      BY <2>2, RequestFields DEF WellFormed
    <2> HIDE DEF u, role
    <2>4. user \in [Users -> User] /\ \A x \in Users : user[x] \in User
      BY DEF TypeInv, TypeOK
    <2>5. /\ user'[u].exists /\ user'[u].role = role
          /\ \A v \in Users \ { u } : user'[v] = user[v]
      BY <2>1, <2>3, <2>4 DEF User
    <2>6. PICK v \in Users : IsOwner(v)
      BY <2>1, <2>3 DEF OwnerInv, SystemOwnerRemains, hasUsers
    <2>7. \E w \in Users : user'[w].exists /\ user'[w].role = "system_owner"
      <3>1. CASE role = "system_owner"
        BY <2>3, <2>5, <3>1
      <3>2. CASE role # "system_owner" /\ v # u
        BY <2>5, <2>6, <3>2 DEF IsOwner
      <3>3. CASE role # "system_owner" /\ v = u
        <4>1. PICK w \in Users \ { u } : IsOwner(w)
          BY <2>1, <2>6, <3>3 DEF KeepsAnOwner
        <4> QED
          BY <2>5, <4>1 DEF IsOwner
      <3> QED
        BY <3>1, <3>2, <3>3
    <2> QED
      BY <2>1, <2>3, <2>5, <2>7
      DEF OwnerInv, SystemOwnerRemains, InitialOwnerOnce, hasUsers, IsOwner
  <1> QED
    BY <1>1, <1>3, <1>4, <1>5, <1>6, QuietSteps

\* As soon as there is a user there is a System Owner, whatever roles the
\* owners give each other and whichever requests race (SystemOwnerRemains),
\* and only one request ever creates the initial owner (InitialOwnerOnce).
THEOREM AnOwnerRemains == Spec => [](SystemOwnerRemains /\ InitialOwnerOnce)
  <1>1. Init => OwnerInv
    BY DEF Init, OwnerInv, SystemOwnerRemains, InitialOwnerOnce, hasUsers,
           NoAccount
  <1>2. TypeInv /\ OwnerInv /\ [Next]_vars => TypeInv' /\ OwnerInv'
    BY TypeInductive, OwnerInductive
  <1>3. OwnerInv => SystemOwnerRemains /\ InitialOwnerOnce
    BY DEF OwnerInv
  <1> QED
    BY <1>1, <1>2, <1>3, TypeInit, PTL DEF Spec

-----------------------------------------------------------------------------
(***************************************************************************)
(* A second factor is accepted once.                                       *)
(***************************************************************************)

\* An accepted factor is recorded as used in the tables of its user.
UsedUp(e) ==
    /\ user[e.user].exists
    /\ e.kind = "totp" => e.id \in Nat /\ e.id < totp[e.user]
    /\ e.kind = "recovery" => /\ e.id \in RecoveryCodes
                              /\ recovery[e.user][e.id] = "used"

FactorInv ==
    /\ SecondFactorOnce
    /\ \A e \in accepted : UsedUp(e)
    /\ \A t \in Sessions :
         session[t].state = "valid" => user[session[t].user].exists

\* Steps that accept nothing, forget no use and open no session.
LEMMA FactorFrame ==
    ASSUME TypeInv, FactorInv, UNCHANGED accepted, SessionsShrink,
           \A u \in Users : user[u].exists =>
               /\ user'[u].exists
               /\ totp'[u] = totp[u]
               /\ recovery'[u] = recovery[u]
    PROVE  FactorInv'
  <1>1. \A e \in accepted : e.user \in Users
    BY DEF TypeInv, TypeOK
  <1>2. \A e \in accepted' : UsedUp(e)'
    BY <1>1 DEF FactorInv, UsedUp
  <1>3. \A t \in Sessions :
          session'[t].state = "valid" => user'[session'[t].user].exists
    BY DEF SessionsShrink, FactorInv, TypeInv, RowsOK
  <1>4. SecondFactorOnce'
    BY DEF FactorInv, SecondFactorOnce
  <1> QED
    BY <1>2, <1>3, <1>4 DEF FactorInv

\* A factor is accepted: it was not used up before and is so afterwards.
LEMMA FactorStep ==
    ASSUME TypeInv, FactorInv, NEW s \in Slot, NEW t \in Sessions,
           NEW u \in Users, user[u].exists,
           \A v \in Users : user'[v].exists = user[v].exists,
           \/ verifyAndConsumeTOTP(s, t, u) /\ UNCHANGED recovery
           \/ /\ u = s.user
              /\ s.q.factor.code \in RecoveryCodes
              /\ consumeRecoveryCode(s, t)
              /\ UNCHANGED totp
    PROVE  SecondFactorOnce' /\ \A e \in accepted' : UsedUp(e)'
  <1>1. \A e \in accepted : e.user \in Users /\ e.kind \in {"totp", "recovery"}
    BY DEF TypeInv, TypeOK
  <1>2. /\ totp \in [Users -> Nat]
        /\ recovery \in
             [Users -> [RecoveryCodes -> { "absent", "unused", "used" }]]
    BY DEF TypeInv, TypeOK
  <1>3. \A e \in accepted : UsedUp(e)
    BY DEF FactorInv
  <1>4. CASE verifyAndConsumeTOTP(s, t, u) /\ UNCHANGED recovery
    <2>1. PICK k \in MatchingCounters(u, s.q.factor.code, s.at) :
            /\ totp[u] <= k
            /\ totp' = [totp EXCEPT ![u] = k + 1]
            /\ Accept(s, t, u, "totp", k)
      BY <1>4 DEF verifyAndConsumeTOTP
    <2>2. s.at \in Nat /\ Counter(s.at) \in Nat
      BY LifetimesAssumption DEF Slot, Counter
    <2>3. k \in Nat
      BY <2>1, <2>2 DEF MatchingCounters
    <2> DEFINE x == [ user |-> u, kind |-> "totp", id |-> k, session |-> t,
                      at |-> s.at, n |-> s.n ]
    <2>4. accepted' = accepted \cup { x } /\ x.user = u /\ x.kind = "totp"
          /\ x.id = k
      BY <2>1 DEF Accept
    <2> HIDE DEF x
    <2>5. \A e \in accepted : ~ (e.user = u /\ e.kind = "totp" /\ e.id = k)
      BY <1>2, <1>3, <2>1, <2>3 DEF UsedUp
    <2>6. \A e \in accepted' : UsedUp(e)'
      <3>1. \A v \in Users : totp'[v] \in Nat /\ totp[v] <= totp'[v]
        BY <1>2, <2>1, <2>3
      <3>2. \A e \in accepted : UsedUp(e)'
        <4> TAKE e \in accepted
        <4>1. UsedUp(e) /\ e.user \in Users
          BY <1>1, <1>3
        <4>2. user'[e.user].exists /\ recovery'[e.user] = recovery[e.user]
          BY <1>4, <4>1 DEF UsedUp
        <4>3. e.kind = "totp" => e.id \in Nat /\ e.id < totp'[e.user]
          BY <1>2, <3>1, <4>1 DEF UsedUp
        <4> QED
          BY <4>1, <4>2, <4>3 DEF UsedUp
      <3>3. UsedUp(x)'
        <4>1. totp'[u] = k + 1
          BY <1>2, <2>1
        <4>2. k < k + 1 /\ user'[u].exists
          BY <2>3
        <4> QED
          BY <2>3, <2>4, <4>1, <4>2 DEF UsedUp
      <3> QED
        BY <2>4, <3>2, <3>3
    <2> QED
      BY <2>4, <2>5, <2>6 DEF FactorInv, SecondFactorOnce
  <1>5. CASE /\ u = s.user
             /\ s.q.factor.code \in RecoveryCodes
             /\ consumeRecoveryCode(s, t)
             /\ UNCHANGED totp
    <2> DEFINE c == s.q.factor.code
               x == [ user |-> u, kind |-> "recovery", id |-> c,
                      session |-> t, at |-> s.at, n |-> s.n ]
    <2>1. /\ recovery[u][c] = "unused"
          /\ recovery' = [recovery EXCEPT ![u][c] = "used"]
          /\ accepted' = accepted \cup { x }
      BY <1>5 DEF consumeRecoveryCode, Accept
    <2>2. x.user = u /\ x.kind = "recovery" /\ x.id = c
      OBVIOUS
    <2>3. c \in RecoveryCodes
      BY <1>5
    <2> HIDE DEF x, c
    <2>4. \A e \in accepted : ~ (e.user = u /\ e.kind = "recovery" /\ e.id = c)
      BY <1>3, <2>1 DEF UsedUp
    <2>5. \A e \in accepted' : UsedUp(e)'
      <3>1. /\ recovery'[u][c] = "used"
            /\ \A v \in Users, d \in RecoveryCodes :
                 recovery[v][d] = "used" => recovery'[v][d] = "used"
        BY <1>2, <2>1, <2>3
      <3> QED
        BY <1>1, <1>3, <1>5, <2>1, <2>2, <2>3, <3>1 DEF UsedUp
    <2> QED
      BY <2>1, <2>2, <2>4, <2>5 DEF FactorInv, SecondFactorOnce
  <1> QED
    BY <1>4, <1>5

\* FactorInv is inductive.
LEMMA FactorInductive ==
    ASSUME TypeInv, FactorInv, [Next]_vars
    PROVE  FactorInv'
  <1>1. CASE Quiet
    BY <1>1, FactorFrame DEF Quiet
  <1>2. ASSUME NEW u \in Users, NEW hash, NEW role,
               InsertAccount(u, hash, role), UNCHANGED << accepted, session >>
        PROVE  FactorInv'
    <2>1. ~ user[u].exists /\ UNCHANGED totp
      BY <1>2 DEF InsertAccount
    <2>2. \A v \in Users : v # u =>
            user'[v] = user[v] /\ recovery'[v] = recovery[v]
      BY <1>2 DEF InsertAccount, TypeInv, TypeOK
    <2>3. SessionsShrink
      BY <1>2 DEF SessionsShrink
    <2> QED
      BY <1>2, <2>1, <2>2, <2>3, FactorFrame
  <1>3. CASE Provision
    BY <1>2, <1>3 DEF Provision, ProvisionUser, history
  <1>4. ASSUME NEW r \in Reqs, createInitialOwner(r)
        PROVE  FactorInv'
    <2>1. slot[r].pc = "initial_owner_tx"
      BY <1>4 DEF createInitialOwner
    <2>2. slot[r].q \in Requests /\ slot[r].q.op = "initial_owner"
      BY <2>1, BusySlot, StepOp
    <2>3. slot[r].q.user \in Users
      BY <2>2, RequestFields DEF WellFormed
    <2> QED
      BY <1>2, <1>4, <2>3 DEF createInitialOwner
  <1>5. ASSUME NEW r \in Reqs, ChangeSystemRole(r) \/ ResetPassword(r)
        PROVE  FactorInv'
    <2>1. slot[r].pc # "idle" /\ UNCHANGED << totp, recovery, accepted >>
      BY <1>5 DEF ChangeSystemRole, ResetPassword, history
    <2>2. slot[r].at \in Nat
      BY <2>1, BusySlot
    <2>3. SessionsShrink
      BY <1>5, <2>2, ShrinkUser DEF ChangeSystemRole, ResetPassword
    <2>4. \A v \in Users : user'[v].exists = user[v].exists
      BY <1>5 DEF ChangeSystemRole, ResetPassword, TypeInv, TypeOK, User
    <2> QED
      BY <2>1, <2>3, <2>4, FactorFrame
  <1>6. ASSUME NEW r \in Reqs, verifyRecentTOTP(r)
        PROVE  FactorInv'
    <2> DEFINE t == slot[r].q.session
    <2>1. /\ slot[r].pc = "reverify" /\ Usable(t, slot[r].at)
          /\ verifyAndConsumeTOTP(slot[r], t, session[t].user)
          /\ session' = [session EXCEPT ![t].recent = slot[r].at + 1,
                                        ![t].idle = NextIdle(t, slot[r].at)]
          /\ UNCHANGED << user, recovery >>
      BY <1>6 DEF verifyRecentTOTP
    <2>2. slot[r] \in Slot /\ slot[r].q \in Requests
          /\ slot[r].q.op = "reverify" /\ slot[r].at \in Nat
      BY <2>1, BusySlot, StepOp DEF Ops
    <2>3. t \in Sessions
      BY <2>2, RequestFields DEF WellFormed
    <2>4. session[t].user \in Users /\ user[session[t].user].exists
      BY <2>1, <2>3 DEF Usable, TypeInv, RowsOK, FactorInv
    <2>5. SecondFactorOnce' /\ \A e \in accepted' : UsedUp(e)'
      BY <2>1, <2>2, <2>3, <2>4, FactorStep
    <2>6. SessionsShrink
      BY <2>1, <2>2, <2>3, ShrinkOne
    <2> QED
      BY <2>1, <2>5, <2>6 DEF FactorInv, SessionsShrink
  <1>7. ASSUME NEW r \in Reqs, NEW t \in Sessions, completeLogin(r, t)
        PROVE  FactorInv'
    <2> DEFINE s == slot[r]
    <2>1. /\ s.pc = "login_tx" /\ PasswordUnchanged(s) /\ VerifyFactor(s, t)
          /\ user' = IF s.upgraded = NoHash THEN user
                     ELSE [user EXCEPT ![s.user].hash = s.upgraded]
      BY <1>7 DEF completeLogin
    <2>2. s \in Slot /\ s.q \in Requests /\ s.q.op = "complete_login"
          /\ s.user \in Users
      BY <2>1, BusySlot, StepOp DEF SlotOK
    <2>3. s.q.factor \in Factors
      BY <2>2, RequestFields DEF WellFormed
    <2>4. /\ session'[t].user = s.user
          /\ \A y \in Sessions \ { t } : session'[y] = session[y]
      BY <1>7 DEF completeLogin, TypeInv, TypeOK
    <2> HIDE DEF s
    <2>5. user[s.user].exists
      BY <2>1 DEF PasswordUnchanged
    <2>6. \A v \in Users : user'[v].exists = user[v].exists
      BY <2>1 DEF TypeInv, TypeOK, User
    <2>7. \/ verifyAndConsumeTOTP(s, t, s.user) /\ UNCHANGED recovery
          \/ /\ s.q.factor.code \in RecoveryCodes
             /\ consumeRecoveryCode(s, t)
             /\ UNCHANGED totp
      <3>1. s.q.factor.kind = "recovery" => s.q.factor.code \in RecoveryCodes
        BY <2>3 DEF Factors
      <3> QED
        BY <2>1, <3>1 DEF VerifyFactor
    <2>8. SecondFactorOnce' /\ \A e \in accepted' : UsedUp(e)'
      BY <2>2, <2>5, <2>6, <2>7, FactorStep
    <2>9. \A y \in Sessions :
            session'[y].state = "valid" => user'[session'[y].user].exists
      <3> TAKE y \in Sessions
      <3>1. CASE y = t
        BY <2>2, <2>4, <2>5, <2>6, <3>1
      <3>2. CASE y # t
        <4>1. session'[y] = session[y]
          BY <2>4, <3>2
        <4>2. session[y].state = "valid" =>
                session[y].user \in Users /\ user[session[y].user].exists
          BY DEF FactorInv, TypeInv, RowsOK
        <4> QED
          BY <2>6, <4>1, <4>2
      <3> QED
        BY <3>1, <3>2
    <2> QED
      BY <2>8, <2>9 DEF FactorInv
  <1> QED
    BY <1>1, <1>3, <1>4, <1>5, <1>6, <1>7, QuietSteps

\* No TOTP counter and no recovery code of a user is accepted twice, in
\* however many logins and re-verifications at once (SecondFactorOnce).
THEOREM FactorsUsedOnce == Spec => []SecondFactorOnce
  <1>1. Init => FactorInv
    BY DEF Init, FactorInv, SecondFactorOnce, FreeSession
  <1>2. TypeInv /\ FactorInv /\ [Next]_vars => TypeInv' /\ FactorInv'
    BY TypeInductive, FactorInductive
  <1>3. FactorInv => SecondFactorOnce
    BY DEF FactorInv
  <1> QED
    BY <1>1, <1>2, <1>3, TypeInit, PTL DEF Spec

-----------------------------------------------------------------------------
(***************************************************************************)
(* A session in force was opened with the present password.  A login       *)
(* carries the hash it checked from the row to the challenge and into the  *)
(* transaction; what makes the comparison there enough is that one hash of *)
(* a user stands for one number of resets, wherever it is found.           *)
(***************************************************************************)

Carrying == { "put_challenge", "login_tx" }

SlotTag(s, u, h, n) ==
    \/ /\ s.pc \in Carrying /\ s.user = u /\ s.resets = n
       /\ h = s.hash \/ h = s.upgraded
    \/ /\ s.pc = "initial_owner_tx" /\ s.q.user = u /\ s.hash = h /\ n = 0

ChallengeTag(c, u, h, n) ==
    /\ c.state = "open" /\ c.user = u /\ c.resets = n
    /\ h = c.hash \/ h = c.upgraded

UserTag(x, h, n) == x.exists /\ x.hash = h /\ x.resets = n

\* Hash h of user u is found somewhere with n resets.
Tag(u, h, n) ==
    \/ UserTag(user[u], h, n)
    \/ \E r \in Reqs : SlotTag(slot[r], u, h, n)
    \/ \E c \in Challenges : ChallengeTag(challenge[c], u, h, n)

TagInv ==
    \A u \in Users, h \in Hash, m \in Nat :
        Tag(u, h, m) =>
            /\ h.salt <= salts
            /\ \A n \in Nat : Tag(u, h, n) => m = n

\* A step that finds no new tag.
LEMMA NoNewTag ==
    ASSUME TypeInv, TagInv, salts' = salts,
           \A u \in Users, h \in Hash, n \in Nat : Tag(u, h, n)' => Tag(u, h, n)
    PROVE  TagInv'
  BY DEF TagInv

\* A step that finds one new tag, with a fresh salt.
LEMMA FreshTag ==
    ASSUME TypeInv, TagInv, salts' = salts + 1,
           NEW v, NEW g, NEW k, g.salt = salts + 1,
           \A u \in Users, h \in Hash, n \in Nat :
               Tag(u, h, n)' => Tag(u, h, n) \/ (u = v /\ h = g /\ n = k)
    PROVE  TagInv'
  <1>1. salts \in Nat
    BY DEF TypeInv, TypeOK
  <1>2. ASSUME NEW u \in Users, NEW h \in Hash, NEW m \in Nat, Tag(u, h, m)'
        PROVE  /\ h.salt <= salts'
               /\ \A n \in Nat : Tag(u, h, n)' => m = n
    <2>1. CASE h = g
      <3>1. \A n \in Nat : ~ Tag(u, h, n)
        BY <1>1, <2>1 DEF TagInv
      <3> QED
        BY <1>1, <1>2, <2>1, <3>1
    <2>2. CASE h # g
      <3>1. h.salt \in Nat
        BY DEF Hash
      <3>2. Tag(u, h, m) /\ \A n \in Nat : Tag(u, h, n)' => Tag(u, h, n)
        BY <1>2, <2>2
      <3>3. h.salt <= salts /\ \A n \in Nat : Tag(u, h, n) => m = n
        BY <3>2 DEF TagInv
      <3> QED
        BY <1>1, <3>1, <3>2, <3>3
    <2> QED
      BY <2>1, <2>2
  <1> QED
    BY <1>2 DEF TagInv

\* Steps that end, or go on to where no hash is carried, and those that only
\* take challenges away.
LEMMA TagFrame ==
    ASSUME TypeInv, TagInv, salts' = salts,
           \A u \in Users : /\ user'[u].exists = user[u].exists
                            /\ user'[u].hash = user[u].hash
                            /\ user'[u].resets = user[u].resets,
           \A r \in Reqs : \/ slot'[r] = slot[r]
                           \/ slot'[r].pc \notin
                                Carrying \cup { "initial_owner_tx" },
           \A c \in Challenges : \/ challenge'[c] = challenge[c]
                                 \/ challenge'[c].state # "open"
    PROVE  TagInv'
  <1>1. ASSUME NEW u \in Users, NEW h \in Hash, NEW n \in Nat, Tag(u, h, n)'
        PROVE  Tag(u, h, n)
    <2>1. CASE UserTag(user[u], h, n)'
      BY <2>1 DEF UserTag, Tag
    <2>2. ASSUME NEW r \in Reqs, SlotTag(slot[r], u, h, n)'
          PROVE  Tag(u, h, n)
      BY <2>2 DEF SlotTag, Tag
    <2>3. ASSUME NEW c \in Challenges, ChallengeTag(challenge[c], u, h, n)'
          PROVE  Tag(u, h, n)
      BY <2>3 DEF ChallengeTag, Tag
    <2> QED
      BY <1>1, <2>1, <2>2, <2>3 DEF Tag
  <1> QED
    BY <1>1, NoNewTag

\* Where a tag may come from.
LEMMA TagSource ==
    ASSUME NEW u, NEW h, NEW n, Tag(u, h, n)'
    PROVE  \/ Tag(u, h, n)
           \/ user'[u] # user[u] /\ UserTag(user'[u], h, n)
           \/ \E r \in Reqs :
                slot'[r] # slot[r] /\ SlotTag(slot'[r], u, h, n)
           \/ \E c \in Challenges :
                /\ challenge'[c] # challenge[c]
                /\ ChallengeTag(challenge'[c], u, h, n)
  BY DEF Tag, UserTag, SlotTag, ChallengeTag

\* An idle slot has no tag.
LEMMA IdleTag ==
    ASSUME NEW u, NEW h, NEW n
    PROVE  ~ SlotTag(IdleSlot, u, h, n)
  BY DEF SlotTag, IdleSlot, Carrying

\* A step of one slot.
LEMMA GotoSlot ==
    ASSUME TypeInv, NEW r \in Reqs, NEW s, Goto(r, s)
    PROVE  slot'[r] = s /\ \A x \in Reqs \ { r } : slot'[x] = slot[x]
  BY DEF Goto, TypeInv, TypeOK

\* The password of an initial owner is hashed.
LEMMA InitialOwnerTag ==
    ASSUME TypeInv, TagInv, NEW r \in Reqs, InitialOwnerCheck(r)
    PROVE  TagInv'
  <1> DEFINE g == NewHash(slot[r].q.password)
             s == [slot[r] EXCEPT !.pc = "initial_owner_tx", !.hash = g]
  <1>1. /\ slot[r].pc = "initial_owner" /\ Goto(r, s) /\ salts' = salts + 1
        /\ UNCHANGED << accounts, challenge >>
    BY DEF InitialOwnerCheck
  <1>2. g.salt = salts + 1
    BY DEF NewHash
  <1> HIDE DEF g
  <1>3. slot[r] \in Slot
    BY <1>1, BusySlot
  <1>4. s.pc = "initial_owner_tx" /\ s.q = slot[r].q /\ s.hash = g
    BY <1>3 DEF Slot
  <1> HIDE DEF s
  <1>5. ASSUME NEW u \in Users, NEW h \in Hash, NEW n \in Nat, Tag(u, h, n)'
        PROVE  Tag(u, h, n) \/ (u = slot[r].q.user /\ h = g /\ n = 0)
    <2>1. SlotTag(s, u, h, n) => u = slot[r].q.user /\ h = g /\ n = 0
      BY <1>4 DEF SlotTag, Carrying
    <2>2. \/ Tag(u, h, n)
          \/ \E x \in Reqs : slot'[x] # slot[x] /\ SlotTag(slot'[x], u, h, n)
      BY <1>1, <1>5, TagSource DEF accounts
    <2> QED
      BY <1>1, <2>1, <2>2, GotoSlot
  <1> QED
    BY <1>1, <1>2, <1>5, FreshTag

\* An account is inserted.
LEMMA InsertTag ==
    ASSUME TypeInv, NEW u \in Users, NEW g, NEW role, InsertAccount(u, g, role),
           UNCHANGED challenge, NEW v \in Users, NEW h, NEW n, Tag(v, h, n)'
    PROVE  \/ Tag(v, h, n)
           \/ v = u /\ h = g /\ n = 0
           \/ \E x \in Reqs : slot'[x] # slot[x] /\ SlotTag(slot'[x], v, h, n)
  <1>1. /\ user'[u].hash = g /\ user'[u].resets = 0
        /\ \A x \in Users \ { u } : user'[x] = user[x]
    BY DEF InsertAccount, NoAccount, TypeInv, TypeOK
  <1>2. user'[v] # user[v] /\ UserTag(user'[v], h, n) =>
            v = u /\ h = g /\ n = 0
    BY <1>1 DEF UserTag
  <1> QED
    BY <1>2, TagSource

\* The initial owner, whose hash its slot has carried, and other accounts.
LEMMA AccountTag ==
    ASSUME TypeInv, TagInv,
           Provision \/ \E r \in Reqs : createInitialOwner(r)
    PROVE  TagInv'
  <1>1. ASSUME NEW r \in Reqs, createInitialOwner(r)
        PROVE  TagInv'
    <2> DEFINE v == slot[r].q.user
               g == slot[r].hash
    <2>1. /\ slot[r].pc = "initial_owner_tx" /\ Done(r)
          /\ InsertAccount(v, g, "system_owner")
          /\ UNCHANGED << challenge, salts >>
      BY <1>1 DEF createInitialOwner
    <2>2. slot[r].q \in Requests /\ slot[r].q.op = "initial_owner"
      BY <2>1, BusySlot, StepOp
    <2>3. v \in Users
      BY <2>2, RequestFields DEF WellFormed
    <2>4. Tag(v, g, 0)
      BY <2>1 DEF Tag, SlotTag
    <2> HIDE DEF v, g
    <2>5. ASSUME NEW u \in Users, NEW h \in Hash, NEW n \in Nat, Tag(u, h, n)'
          PROVE  Tag(u, h, n)
      <3>1. \A x \in Reqs : slot'[x] # slot[x] => ~ SlotTag(slot'[x], u, h, n)
        BY <2>1, GotoSlot, IdleTag DEF Done
      <3> QED
        BY <2>1, <2>3, <2>4, <2>5, <3>1, InsertTag
    <2> QED
      BY <2>1, <2>5, NoNewTag
  <1>2. ASSUME NEW u \in Users, NEW p \in Passwords, NEW legacy \in BOOLEAN,
               NEW role \in SystemRoles, ProvisionUser(u, p, legacy, role)
        PROVE  TagInv'
    <2> DEFINE g == [NewHash(p) EXCEPT !.legacy = legacy]
    <2>1. g.salt = salts + 1
      BY DEF NewHash
    <2>2. /\ InsertAccount(u, g, role) /\ salts' = salts + 1
          /\ UNCHANGED << challenge, slot >>
      BY <1>2 DEF ProvisionUser
    <2> HIDE DEF g
    <2>3. \A v \in Users, h \in Hash, n \in Nat :
            Tag(v, h, n)' => Tag(v, h, n) \/ (v = u /\ h = g /\ n = 0)
      BY <2>2, InsertTag
    <2> QED
      BY <2>1, <2>2, <2>3, FreshTag
  <1> QED
    BY <1>1, <1>2 DEF Provision

\* A login takes the hash from the row of its user.
LEMMA BeginTag ==
    ASSUME TypeInv, TagInv, NEW r \in Reqs, BeginLogin(r)
    PROVE  TagInv'
  <1> DEFINE v == slot[r].q.user
             k == user[v].resets
             old == user[v].hash
             g == NewHash(slot[r].q.password)
             up == IF old.legacy THEN g ELSE NoHash
             s == [slot[r] EXCEPT !.pc = "put_challenge", !.user = v,
                                  !.hash = old, !.upgraded = up, !.resets = k]
  <1>1. /\ slot[r].pc = "begin_login" /\ user[v].exists /\ Goto(r, s)
        /\ salts' = IF old.legacy THEN salts + 1 ELSE salts
        /\ UNCHANGED << accounts, challenge >>
    BY DEF BeginLogin
  <1>2. g.salt = salts + 1
    BY DEF NewHash
  <1>3. Tag(v, old, k)
    BY <1>1 DEF Tag, UserTag
  <1>4. slot[r] \in Slot
    BY <1>1, BusySlot
  <1> HIDE DEF up
  <1>5. /\ s.pc = "put_challenge" /\ s.user = v /\ s.hash = old
        /\ s.upgraded = up /\ s.resets = k
    BY <1>4 DEF Slot
  <1> HIDE DEF s, g, old, k, v
  <1>6. ASSUME NEW u \in Users, NEW h \in Hash, NEW n \in Nat, Tag(u, h, n)'
        PROVE  Tag(u, h, n) \/ (u = v /\ h = up /\ n = k)
    <2>1. SlotTag(s, u, h, n) => u = v /\ n = k /\ (h = old \/ h = up)
      BY <1>5 DEF SlotTag, Carrying
    <2>2. \/ Tag(u, h, n)
          \/ \E x \in Reqs : slot'[x] # slot[x] /\ SlotTag(slot'[x], u, h, n)
      BY <1>1, <1>6, TagSource DEF accounts
    <2> QED
      BY <1>1, <1>3, <2>1, <2>2, GotoSlot
  <1>7. CASE old.legacy
    <2>1. up = g /\ salts' = salts + 1
      BY <1>1, <1>7 DEF up
    <2> QED
      BY <1>2, <1>6, <2>1, FreshTag
  <1>8. CASE ~ old.legacy
    <2>1. up = NoHash /\ salts' = salts
      BY <1>1, <1>8 DEF up
    <2> QED
      BY <1>6, <2>1, NoHashAssumption, NoNewTag
  <1> QED
    BY <1>7, <1>8

\* The hash goes from the slot to the challenge and from there to a slot.
LEMMA ChallengeStepTag ==
    ASSUME TypeInv, TagInv, NEW r \in Reqs,
           consumeChallenge(r) \/ \E c \in Challenges : PutChallenge(r, c)
    PROVE  TagInv'
  <1>1. ASSUME NEW c \in Challenges, PutChallenge(r, c)
        PROVE  TagInv'
    <2> DEFINE s == slot[r]
               d == [ state |-> "open", user |-> s.user, hash |-> s.hash,
                      upgraded |-> s.upgraded, resets |-> s.resets,
                      expires |-> now + LoginChallengeLifetime ]
    <2>1. /\ s.pc = "put_challenge" /\ Done(r)
          /\ challenge' = [x \in Challenges |->
                IF x = c THEN d
                ELSE IF challenge[x].state = "open" /\ challenge[x].expires <= now
                THEN Spent ELSE challenge[x]]
          /\ UNCHANGED << accounts, salts >>
      BY <1>1 DEF PutChallenge
    <2>2. /\ d.user = s.user /\ d.hash = s.hash /\ d.upgraded = s.upgraded
          /\ d.resets = s.resets
      OBVIOUS
    <2>3. Spent.state # "open"
      BY DEF Spent, Unissued
    <2> HIDE DEF s, d
    <2>4. ASSUME NEW u \in Users, NEW h \in Hash, NEW n \in Nat, Tag(u, h, n)'
          PROVE  Tag(u, h, n)
      <3>1. \A x \in Reqs : slot'[x] # slot[x] => ~ SlotTag(slot'[x], u, h, n)
        BY <2>1, GotoSlot, IdleTag DEF Done
      <3>2. ChallengeTag(d, u, h, n) => SlotTag(s, u, h, n)
        BY <2>1, <2>2 DEF ChallengeTag, SlotTag, Carrying
      <3>3. ASSUME NEW x \in Challenges, challenge'[x] # challenge[x],
                   ChallengeTag(challenge'[x], u, h, n)
            PROVE  Tag(u, h, n)
        <4>1. challenge'[x] = d
          BY <2>1, <2>3, <3>3 DEF ChallengeTag
        <4> QED
          BY <3>2, <3>3, <4>1 DEF Tag, s
      <3> QED
        BY <2>1, <2>4, <3>1, <3>3, TagSource DEF accounts
    <2> QED
      BY <2>1, <2>4, NoNewTag
  <1>2. CASE consumeChallenge(r)
    <2> DEFINE c == slot[r].q.challenge
               d == challenge[c]
               s == [slot[r] EXCEPT !.pc = "login_tx", !.at = now,
                                    !.user = d.user, !.hash = d.hash,
                                    !.upgraded = d.upgraded,
                                    !.resets = d.resets]
    <2>1. /\ slot[r].pc = "complete_login" /\ d.state = "open"
          /\ challenge' = [challenge EXCEPT ![c] = Spent]
          /\ Goto(r, s) \/ Done(r)
          /\ UNCHANGED << accounts, salts >>
      BY <1>2 DEF consumeChallenge
    <2>2. slot[r] \in Slot /\ slot[r].q \in Requests
          /\ slot[r].q.op = "complete_login"
      BY <2>1, BusySlot, StepOp DEF Ops
    <2>3. c \in Challenges
      BY <2>2, RequestFields DEF WellFormed
    <2> HIDE DEF c, d
    <2>4. /\ s.pc = "login_tx" /\ s.user = d.user /\ s.hash = d.hash
          /\ s.upgraded = d.upgraded /\ s.resets = d.resets
      BY <2>2 DEF Slot
    <2> HIDE DEF s
    <2>5. Spent.state # "open"
      BY DEF Spent, Unissued
    <2>6. ASSUME NEW u \in Users, NEW h \in Hash, NEW n \in Nat, Tag(u, h, n)'
          PROVE  Tag(u, h, n)
      <3>1. SlotTag(s, u, h, n) => Tag(u, h, n)
        BY <2>1, <2>3, <2>4 DEF ChallengeTag, SlotTag, Carrying, Tag, d
      <3>2. \A x \in Reqs : slot'[x] # slot[x] =>
                               slot'[x] = s \/ slot'[x] = IdleSlot
        BY <2>1, GotoSlot DEF Done
      <3>3. \A x \in Challenges : challenge'[x] # challenge[x] =>
                               ~ ChallengeTag(challenge'[x], u, h, n)
        BY <2>1, <2>3, <2>5 DEF ChallengeTag, TypeInv, TypeOK
      <3> QED
        BY <2>1, <2>6, <3>1, <3>2, <3>3, IdleTag, TagSource DEF accounts
    <2> QED
      BY <2>1, <2>6, NoNewTag
  <1> QED
    BY <1>1, <1>2

\* What the login transaction finds: the password it compares has been reset
\* as often as the one that the login began with.
LEMMA LoginResets ==
    ASSUME TypeInv, TagInv, NEW r \in Reqs, slot[r].pc = "login_tx",
           PasswordUnchanged(slot[r])
    PROVE  user[slot[r].user].resets = slot[r].resets
  <1> DEFINE s == slot[r]
  <1>1. s.user \in Users /\ s.resets \in Nat
    BY BusySlot DEF SlotOK
  <1>2. user[s.user].exists /\ user[s.user].hash = s.hash
    BY DEF PasswordUnchanged
  <1>3. s.hash \in Hash /\ user[s.user].resets \in Nat
    BY <1>1, <1>2 DEF TypeInv, TypeOK, RowsOK, User
  <1>4. Tag(s.user, s.hash, user[s.user].resets)
    BY <1>2 DEF Tag, UserTag
  <1>5. Tag(s.user, s.hash, s.resets)
    BY DEF Tag, SlotTag, Carrying
  <1> QED
    BY <1>1, <1>3, <1>4, <1>5 DEF TagInv

\* The upgraded hash goes from the slot into the row; a reset draws a salt.
LEMMA PasswordTag ==
    ASSUME TypeInv, TagInv, NEW r \in Reqs,
           ResetPassword(r) \/ \E t \in Sessions : completeLogin(r, t)
    PROVE  TagInv'
  <1>1. ASSUME NEW t \in Sessions, completeLogin(r, t)
        PROVE  TagInv'
    <2> DEFINE s == slot[r]
               e == [s EXCEPT !.pc = "login_resolve", !.session = t]
    <2>1. /\ s.pc = "login_tx" /\ PasswordUnchanged(s) /\ Goto(r, e)
          /\ user' = IF s.upgraded = NoHash THEN user
                     ELSE [user EXCEPT ![s.user].hash = s.upgraded]
          /\ UNCHANGED << challenge, salts >>
      BY <1>1 DEF completeLogin
    <2>2. s \in Slot /\ s.user \in Users
      BY <2>1, BusySlot DEF SlotOK
    <2>3. e.pc = "login_resolve"
      BY <2>2 DEF Slot
    <2> HIDE DEF e
    <2>4. user[s.user].resets = s.resets
      BY <2>1, LoginResets
    <2>5. Tag(s.user, s.upgraded, s.resets)
      BY <2>1 DEF Tag, SlotTag, Carrying
    <2> HIDE DEF s
    <2>6. ASSUME NEW u \in Users, NEW h \in Hash, NEW n \in Nat, Tag(u, h, n)'
          PROVE  Tag(u, h, n)
      <3>1. ~ SlotTag(e, u, h, n)
        BY <2>3 DEF SlotTag, Carrying
      <3>2. \A x \in Reqs : slot'[x] # slot[x] => ~ SlotTag(slot'[x], u, h, n)
        BY <2>1, <3>1, GotoSlot
      <3>3. user'[u] # user[u] =>
              /\ u = s.user /\ user'[u].hash = s.upgraded
              /\ user'[u].resets = s.resets
        BY <2>1, <2>2, <2>4 DEF TypeInv, TypeOK, User
      <3>4. user'[u] # user[u] /\ UserTag(user'[u], h, n) => Tag(u, h, n)
        BY <2>5, <3>3 DEF UserTag
      <3> QED
        BY <2>1, <2>6, <3>2, <3>4, TagSource
    <2> QED
      BY <2>1, <2>6, NoNewTag
  <1>2. CASE ResetPassword(r)
    <2> DEFINE v == slot[r].q.user
               g == NewHash(slot[r].q.password)
               e == [slot[r] EXCEPT !.pc = "forget_challenges"]
               k == user[v].resets + 1
    <2>1. /\ slot[r].pc = "reset_password" /\ Goto(r, e)
          /\ user' = [user EXCEPT ![v].hash = g, ![v].resets = k]
          /\ salts' = salts + 1 /\ UNCHANGED challenge
      BY <1>2 DEF ResetPassword
    <2>2. g.salt = salts + 1
      BY DEF NewHash
    <2>3. slot[r] \in Slot
      BY <2>1, BusySlot
    <2>4. e.pc = "forget_challenges"
      BY <2>3 DEF Slot
    <2> HIDE DEF v, g, e, k
    <2>5. ASSUME NEW u \in Users, NEW h \in Hash, NEW n \in Nat, Tag(u, h, n)'
          PROVE  Tag(u, h, n) \/ (u = v /\ h = g /\ n = k)
      <3>1. ~ SlotTag(e, u, h, n)
        BY <2>4 DEF SlotTag, Carrying
      <3>2. \A x \in Reqs : slot'[x] # slot[x] => ~ SlotTag(slot'[x], u, h, n)
        BY <2>1, <3>1, GotoSlot
      <3>3. user'[u] # user[u] =>
              u = v /\ user'[u].hash = g /\ user'[u].resets = k
        BY <2>1 DEF TypeInv, TypeOK, User
      <3> QED
        BY <2>1, <2>5, <3>2, <3>3, TagSource DEF UserTag
    <2> QED
      BY <2>1, <2>2, <2>5, FreshTag
  <1> QED
    BY <1>1, <1>2

\* The steps that carry no hash on.  Used for the challenges as well.
Plain ==
    /\ UNCHANGED << salts, opened >>
    /\ \A u \in Users : /\ user'[u].exists = user[u].exists
                        /\ user'[u].hash = user[u].hash
                        /\ user'[u].resets = user[u].resets
    /\ \A r \in Reqs : \/ slot'[r] = slot[r]
                       \/ slot'[r].pc \notin Carrying \cup { "initial_owner_tx" }
    /\ \A c \in Challenges : \/ challenge'[c] = challenge[c]
                             \/ challenge'[c].state = "gone"

\* The steps that are not plain.
LEMMA PlainSteps ==
    ASSUME TypeInv, [Next]_vars
    PROVE  \/ Plain
           \/ Provision
           \/ \E r \in Reqs :
                \/ InitialOwnerCheck(r) \/ createInitialOwner(r)
                \/ BeginLogin(r) \/ consumeChallenge(r) \/ ResetPassword(r)
                \/ \E c \in Challenges : PutChallenge(r, c)
                \/ \E t \in Sessions : completeLogin(r, t)
  <1>1. \A c \in Challenges : Spent.state = "gone"
    BY DEF Spent, Unissued
  <1>2. ASSUME NEW r \in Reqs, NEW s, Goto(r, s),
               s.pc \notin Carrying \cup { "initial_owner_tx" },
               UNCHANGED << user, salts, opened, challenge >>
        PROVE  Plain
    BY <1>2, GotoSlot DEF Plain
  <1>3. IdleSlot.pc \notin Carrying \cup { "initial_owner_tx" }
    BY DEF IdleSlot, Carrying
  <1>4. ASSUME NEW r \in Reqs, NEW q \in Requests, Start(r, q)
        PROVE  Plain
    <2> DEFINE s == [IdleSlot EXCEPT !.pc = q.op, !.q = q, !.at = now,
                                     !.n = begun + 1]
    <2>1. s.pc = q.op /\ q.op \in Ops
      BY RequestFields DEF IdleSlot
    <2>2. /\ Goto(r, s) /\ UNCHANGED << user, salts, opened, challenge >>
      BY <1>4 DEF Start, accounts, history
    <2> HIDE DEF s
    <2>3. s.pc \notin Carrying \cup { "initial_owner_tx" }
      BY <2>1 DEF Ops, Carrying
    <2> QED
      BY <1>2, <2>2, <2>3
  <1>5. ASSUME NEW r \in Reqs,
               \/ End(r) \/ LoginDeliver(r) \/ LoginLogout(r)
               \/ ResolveSession(r) \/ verifyRecentTOTP(r) \/ LogoutAudited(r)
               \/ RevokeUserSessions(r)
        PROVE  Plain
    <2>1. Goto(r, IdleSlot) /\ UNCHANGED << user, salts, opened, challenge >>
      BY <1>5 DEF End, LoginDeliver, LoginLogout, ResolveSession,
                  verifyRecentTOTP, LogoutAudited, RevokeUserSessions, Done,
                  accounts, history
    <2> QED
      BY <1>2, <1>3, <2>1
  <1>6. ASSUME NEW r \in Reqs, LoginResolve(r) \/ LoginRecord(r) \/ LoginFails(r)
        PROVE  Plain
    <2>1. /\ UNCHANGED << user, salts, opened, challenge >>
          /\ \/ Goto(r, [slot[r] EXCEPT !.pc = "login_record"])
             \/ Goto(r, [slot[r] EXCEPT !.pc = "login_deliver"])
             \/ Goto(r, [slot[r] EXCEPT !.pc = "login_logout"])
      BY <1>6 DEF LoginResolve, LoginRecord, LoginFails, accounts, history
    <2>2. slot[r] \in Slot
      BY DEF TypeInv, TypeOK
    <2>3. \A p \in { "login_record", "login_deliver", "login_logout" } :
            [slot[r] EXCEPT !.pc = p].pc \notin Carrying \cup {"initial_owner_tx"}
      BY <2>2 DEF Slot, Carrying
    <2> QED
      BY <1>2, <2>1, <2>3
  <1>7. ASSUME NEW r \in Reqs, ChangeSystemRole(r)
        PROVE  Plain
    <2>1. /\ Goto(r, IdleSlot) /\ UNCHANGED << salts, opened, challenge >>
          /\ user' = [user EXCEPT ![slot[r].q.user].role = slot[r].q.role]
      BY <1>7 DEF ChangeSystemRole, Done, history
    <2>2. \A u \in Users : /\ user'[u].exists = user[u].exists
                           /\ user'[u].hash = user[u].hash
                           /\ user'[u].resets = user[u].resets
      BY <2>1 DEF TypeInv, TypeOK, User
    <2> QED
      BY <1>3, <2>1, <2>2, GotoSlot DEF Plain
  <1>8. ASSUME NEW r \in Reqs, ForgetChallenges(r)
        PROVE  Plain
    <2>1. /\ Goto(r, IdleSlot) /\ UNCHANGED << user, salts, opened >>
          /\ \A c \in Challenges : \/ challenge'[c] = challenge[c]
                                   \/ challenge'[c].state = "gone"
      BY <1>1, <1>8 DEF ForgetChallenges, Done, accounts, history
    <2> QED
      BY <1>3, <2>1, GotoSlot DEF Plain
  <1>9. CASE Crash
    BY <1>1, <1>3, <1>9 DEF Crash, Plain, accounts, history
  <1>10. CASE Tick \/ UNCHANGED vars
               \/ \E started \in 0..now : cleanupExpiredState(started)
    BY <1>10 DEF Tick, vars, cleanupExpiredState, Plain, accounts, history
  <1>11. ASSUME NEW r \in Reqs, RequestStep(r)
         PROVE  \/ Plain
                \/ InitialOwnerCheck(r) \/ createInitialOwner(r)
                \/ BeginLogin(r) \/ consumeChallenge(r) \/ ResetPassword(r)
                \/ \E c \in Challenges : PutChallenge(r, c)
                \/ \E t \in Sessions : completeLogin(r, t)
    BY <1>4, <1>5, <1>6, <1>7, <1>8, <1>11 DEF RequestStep, LoginStep
  <1> QED
    BY <1>9, <1>10, <1>11 DEF Next

\* TagInv is inductive.
LEMMA TagInductive ==
    ASSUME TypeInv, TagInv, [Next]_vars
    PROVE  TagInv'
  <1>1. CASE Plain
    BY <1>1, TagFrame DEF Plain
  <1> QED
    BY <1>1, PlainSteps, InitialOwnerTag, AccountTag, BeginTag,
       ChallengeStepTag, PasswordTag

\* Sessions follow their accounts as long as hashes stand for passwords.
LEMMA FollowInductive ==
    ASSUME TypeInv, FactorInv, TagInv, SessionsFollowAccount, [Next]_vars
    PROVE  SessionsFollowAccount'
  <1>1. \A t \in Sessions : session[t].state = "valid" =>
          session[t].user \in Users /\ user[session[t].user].exists
    BY DEF TypeInv, RowsOK, FactorInv
  <1>2. ASSUME SessionsShrink,
               \A t \in Sessions : session'[t].state = "valid" =>
                 /\ user'[session[t].user].resets = user[session[t].user].resets
                 /\ user'[session[t].user].role = user[session[t].user].role
        PROVE  SessionsFollowAccount'
    BY <1>2 DEF SessionsFollowAccount, SessionsShrink
  <1>3. CASE Quiet
    BY <1>2, <1>3 DEF Quiet
  <1>4. ASSUME NEW u \in Users, NEW hash, NEW role,
               InsertAccount(u, hash, role), UNCHANGED session
        PROVE  SessionsFollowAccount'
    <2>1. ~ user[u].exists /\ \A v \in Users \ { u } : user'[v] = user[v]
      BY <1>4 DEF InsertAccount, TypeInv, TypeOK
    <2> QED
      BY <1>1, <1>4, <2>1 DEF SessionsFollowAccount
  <1>5. CASE Provision
    BY <1>4, <1>5 DEF Provision, ProvisionUser
  <1>6. ASSUME NEW r \in Reqs, createInitialOwner(r)
        PROVE  SessionsFollowAccount'
    <2>1. slot[r].pc = "initial_owner_tx"
      BY <1>6 DEF createInitialOwner
    <2>2. slot[r].q \in Requests /\ slot[r].q.op = "initial_owner"
      BY <2>1, BusySlot, StepOp
    <2>3. slot[r].q.user \in Users
      BY <2>2, RequestFields DEF WellFormed
    <2> QED
      BY <1>4, <1>6, <2>3 DEF createInitialOwner
  <1>7. ASSUME NEW r \in Reqs, verifyRecentTOTP(r)
        PROVE  SessionsFollowAccount'
    <2> DEFINE t == slot[r].q.session
    <2>1. /\ slot[r].pc = "reverify" /\ UNCHANGED user
          /\ session' = [session EXCEPT ![t].recent = slot[r].at + 1,
                                        ![t].idle = NextIdle(t, slot[r].at)]
      BY <1>7 DEF verifyRecentTOTP
    <2>2. slot[r].q \in Requests /\ slot[r].q.op = "reverify"
          /\ slot[r].at \in Nat
      BY <2>1, BusySlot, StepOp DEF Ops
    <2>3. t \in Sessions
      BY <2>2, RequestFields DEF WellFormed
    <2> QED
      BY <1>2, <2>1, <2>2, <2>3, ShrinkOne
  <1>8. ASSUME NEW r \in Reqs, ChangeSystemRole(r) \/ ResetPassword(r)
        PROVE  SessionsFollowAccount'
    <2> DEFINE u == slot[r].q.user
    <2>1. slot[r].pc # "idle" /\ revokeUserSessionsTx(u, slot[r].at)
      BY <1>8 DEF ChangeSystemRole, ResetPassword
    <2>2. /\ SessionsShrink
          /\ \A t \in Sessions : session'[t].state = "valid" =>
                                     session'[t].user # u
      BY <2>1, BusySlot, ShrinkUser
    <2>3. \A v \in Users : v # u => user'[v] = user[v]
      BY <1>8 DEF ChangeSystemRole, ResetPassword, TypeInv, TypeOK
    <2> HIDE DEF u
    <2>4. \A t \in Sessions : session'[t].state = "valid" =>
            session[t].state = "valid" /\ session[t].user = session'[t].user
      BY <2>2 DEF SessionsShrink
    <2> QED
      BY <1>1, <1>2, <2>2, <2>3, <2>4
  <1>9. ASSUME NEW r \in Reqs, NEW t \in Sessions, completeLogin(r, t)
        PROVE  SessionsFollowAccount'
    <2> DEFINE s == slot[r]
    <2>1. /\ s.pc = "login_tx" /\ PasswordUnchanged(s)
          /\ user' = IF s.upgraded = NoHash THEN user
                     ELSE [user EXCEPT ![s.user].hash = s.upgraded]
      BY <1>9 DEF completeLogin
    <2>2. user[s.user].resets = s.resets
      BY <2>1, LoginResets
    <2>3. s.user \in Users
      BY <2>1, BusySlot DEF SlotOK
    <2>4. /\ session'[t].user = s.user /\ session'[t].password = s.resets
          /\ session'[t].role = user[s.user].role
          /\ \A y \in Sessions \ { t } : session'[y] = session[y]
      BY <1>9 DEF completeLogin, TypeInv, TypeOK
    <2> HIDE DEF s
    <2>5. \A v \in Users : /\ user'[v].resets = user[v].resets
                           /\ user'[v].role = user[v].role
      BY <2>1 DEF TypeInv, TypeOK, User
    <2> QED
      BY <1>1, <2>2, <2>3, <2>4, <2>5 DEF SessionsFollowAccount
  <1> QED
    BY <1>3, <1>5, <1>6, <1>7, <1>8, <1>9, QuietSteps

\* No session outlives the password or the role it was opened with, whichever
\* reset, change of role and login race (SessionsFollowAccount).
THEOREM SessionsAreCurrent == Spec => []SessionsFollowAccount
  <1> DEFINE FollowInv == TypeInv /\ FactorInv /\ TagInv /\ SessionsFollowAccount
  <1>1. Init => FactorInv /\ SessionsFollowAccount
    BY DEF Init, FactorInv, SecondFactorOnce, SessionsFollowAccount, FreeSession
  <1>2. Init => TagInv
    BY DEF Init, TagInv, Tag, UserTag, SlotTag, ChallengeTag, Carrying,
           NoAccount, IdleSlot, Unissued
  <1>3. FollowInv /\ [Next]_vars => FollowInv'
    BY TypeInductive, FactorInductive, TagInductive, FollowInductive
  <1>4. FollowInv => SessionsFollowAccount
    OBVIOUS
  <1> QED
    BY <1>1, <1>2, <1>3, <1>4, TypeInit, PTL DEF Spec

-----------------------------------------------------------------------------
(***************************************************************************)
(* A challenge opens one session.                                          *)
(***************************************************************************)

\* Only the request that has taken a challenge out of the map may open a
\* session with it, and it has not done so yet.
OnceInv ==
    /\ ChallengeOpensOnce
    /\ \A e \in opened : challenge[e.challenge].state = "gone"
    /\ \A r \in Reqs : slot[r].pc = "login_tx" =>
         /\ challenge[slot[r].q.challenge].state = "gone"
         /\ \A e \in opened : e.challenge # slot[r].q.challenge
         /\ \A x \in Reqs \ { r } : slot[x].pc = "login_tx" =>
              slot[x].q.challenge # slot[r].q.challenge

\* Steps that open nothing and begin no login transaction.
LEMMA OnceFrame ==
    ASSUME TypeInv, OnceInv, UNCHANGED opened,
           \A c \in Challenges :
               challenge[c].state = "gone" => challenge'[c].state = "gone",
           \A r \in Reqs : slot'[r] = slot[r] \/ slot'[r].pc # "login_tx"
    PROVE  OnceInv'
  <1>1. \A e \in opened : e.challenge \in Challenges
    BY DEF TypeInv, TypeOK
  <1>2. \A r \in Reqs : slot[r].pc = "login_tx" =>
                            slot[r].q.challenge \in Challenges
    BY StepOp, BusySlot, RequestFields DEF WellFormed
  <1> QED
    BY <1>1, <1>2 DEF OnceInv, ChallengeOpensOnce

\* OnceInv is inductive.
LEMMA OnceInductive ==
    ASSUME TypeInv, OnceInv, [Next]_vars
    PROVE  OnceInv'
  <1>1. CASE Plain
    BY <1>1, OnceFrame DEF Plain, Carrying
  <1>2. ASSUME NEW r \in Reqs, NEW s, Goto(r, s), s.pc # "login_tx",
               UNCHANGED << opened, challenge >>
        PROVE  OnceInv'
    BY <1>2, GotoSlot, OnceFrame
  <1>3. IdleSlot.pc # "login_tx"
    BY DEF IdleSlot
  <1>4. CASE Provision
    BY <1>4, OnceFrame DEF Provision, ProvisionUser, history
  <1>5. ASSUME NEW r \in Reqs, createInitialOwner(r)
        PROVE  OnceInv'
    BY <1>2, <1>3, <1>5 DEF createInitialOwner, Done
  <1>6. ASSUME NEW r \in Reqs,
               InitialOwnerCheck(r) \/ BeginLogin(r) \/ ResetPassword(r)
        PROVE  OnceInv'
    <2>1. UNCHANGED << opened, challenge >> /\ slot[r] \in Slot
      BY <1>6 DEF InitialOwnerCheck, BeginLogin, ResetPassword, history,
                  TypeInv, TypeOK
    <2>2. slot'[r].pc # "login_tx" /\ \A x \in Reqs \ { r } : slot'[x] = slot[x]
      <3>1. CASE InitialOwnerCheck(r)
        BY <2>1, <3>1 DEF InitialOwnerCheck, Goto, Slot, TypeInv, TypeOK
      <3>2. CASE BeginLogin(r)
        BY <2>1, <3>2 DEF BeginLogin, Goto, Slot, TypeInv, TypeOK
      <3>3. CASE ResetPassword(r)
        BY <2>1, <3>3 DEF ResetPassword, Goto, Slot, TypeInv, TypeOK
      <3> QED
        BY <1>6, <3>1, <3>2, <3>3
    <2> QED
      BY <2>1, <2>2, OnceFrame
  <1>7. ASSUME NEW r \in Reqs, NEW c \in Challenges, PutChallenge(r, c)
        PROVE  OnceInv'
    <2>1. /\ challenge[c].state = "new" /\ Goto(r, IdleSlot) /\ UNCHANGED opened
          /\ \A x \in Challenges \ { c } :
               challenge'[x] = challenge[x] \/ challenge'[x] = Spent
      BY <1>7 DEF PutChallenge, Done, history
    <2>2. Spent.state = "gone"
      BY DEF Spent, Unissued
    <2>3. \A x \in Challenges :
            challenge[x].state = "gone" => challenge'[x].state = "gone"
      BY <2>1, <2>2
    <2> QED
      BY <1>3, <2>1, <2>3, GotoSlot, OnceFrame
  <1>8. ASSUME NEW r \in Reqs, consumeChallenge(r)
        PROVE  OnceInv'
    <2> DEFINE c == slot[r].q.challenge
    <2>1. /\ slot[r].pc = "complete_login" /\ challenge[c].state = "open"
          /\ challenge' = [challenge EXCEPT ![c] = Spent]
          /\ UNCHANGED opened
      BY <1>8 DEF consumeChallenge, history
    <2>2. slot[r] \in Slot /\ slot[r].q \in Requests
          /\ slot[r].q.op = "complete_login"
      BY <2>1, BusySlot, StepOp DEF Ops
    <2>3. c \in Challenges
      BY <2>2, RequestFields DEF WellFormed
    <2>4. /\ slot'[r] = IdleSlot \/ slot'[r].q = slot[r].q
          /\ \A x \in Reqs \ { r } : slot'[x] = slot[x]
      <3> DEFINE h == challenge[c]
                 s == [slot[r] EXCEPT !.pc = "login_tx", !.at = now,
                                      !.user = h.user, !.hash = h.hash,
                                      !.upgraded = h.upgraded,
                                      !.resets = h.resets]
      <3>1. Goto(r, s) \/ Goto(r, IdleSlot)
        BY <1>8 DEF consumeChallenge, Done
      <3>2. s.q = slot[r].q
        BY <2>2 DEF Slot
      <3> HIDE DEF s
      <3> QED
        BY <3>1, <3>2, GotoSlot
    <2>5. /\ challenge'[c].state = "gone"
          /\ \A x \in Challenges \ { c } : challenge'[x] = challenge[x]
      BY <2>1, <2>3 DEF Spent, Unissued, TypeInv, TypeOK
    <2>7. /\ \A e \in opened : e.challenge \in Challenges /\ e.challenge # c
          /\ \A x \in Reqs : slot[x].pc = "login_tx" =>
               slot[x].q.challenge \in Challenges /\ slot[x].q.challenge # c
      <3>1. \A x \in Reqs : slot[x].pc = "login_tx" =>
              slot[x].q.challenge \in Challenges
        BY StepOp, BusySlot, RequestFields DEF WellFormed
      <3> QED
        BY <2>1, <3>1 DEF OnceInv, TypeInv, TypeOK
    <2>8. CASE slot'[r] = IdleSlot
      BY <1>3, <2>1, <2>5, <2>4, <2>7, <2>8, OnceFrame
    <2>9. CASE slot'[r].q = slot[r].q
      <3>1. slot'[r].q.challenge = c
        BY <2>9
      <3> HIDE DEF c
      <3>2. \A e \in opened' : challenge'[e.challenge].state = "gone"
        BY <2>1, <2>5, <2>7 DEF OnceInv
      <3>3. ASSUME NEW x \in Reqs, slot'[x].pc = "login_tx"
            PROVE  /\ challenge'[slot'[x].q.challenge].state = "gone"
                   /\ \A e \in opened' : e.challenge # slot'[x].q.challenge
                   /\ \A y \in Reqs \ { x } : slot'[y].pc = "login_tx" =>
                        slot'[y].q.challenge # slot'[x].q.challenge
        <4>1. CASE x = r
          BY <2>1, <2>5, <2>4, <2>7, <3>1, <4>1
        <4>2. CASE x # r
          BY <2>1, <2>5, <2>4, <2>7, <3>1, <3>3, <4>2 DEF OnceInv
        <4> QED
          BY <4>1, <4>2
      <3>4. ChallengeOpensOnce'
        BY <2>1 DEF OnceInv, ChallengeOpensOnce
      <3> QED
        BY <3>2, <3>3, <3>4 DEF OnceInv
    <2> QED
      BY <2>4, <2>8, <2>9
  <1>9. ASSUME NEW r \in Reqs, NEW t \in Sessions, completeLogin(r, t)
        PROVE  OnceInv'
    <2> DEFINE c == slot[r].q.challenge
               n == [challenge |-> c, session |-> t]
               s == [slot[r] EXCEPT !.pc = "login_resolve", !.session = t]
    <2>1. /\ slot[r].pc = "login_tx" /\ opened' = opened \cup { n }
          /\ Goto(r, s) /\ UNCHANGED challenge
      BY <1>9 DEF completeLogin
    <2>2. slot[r] \in Slot
      BY <2>1, BusySlot
    <2>3. s.pc # "login_tx" /\ n.challenge = c
      BY <2>2 DEF Slot
    <2> HIDE DEF s, n
    <2>4. slot'[r] = s /\ \A x \in Reqs \ { r } : slot'[x] = slot[x]
      BY <2>1, GotoSlot
    <2>5. /\ challenge[c].state = "gone" /\ \A e \in opened : e.challenge # c
          /\ \A x \in Reqs \ { r } : slot[x].pc = "login_tx" =>
               slot[x].q.challenge # c
      BY <2>1 DEF OnceInv
    <2> HIDE DEF c
    <2>6. ChallengeOpensOnce'
      BY <2>1, <2>3, <2>5 DEF OnceInv, ChallengeOpensOnce
    <2>7. \A e \in opened' : challenge'[e.challenge].state = "gone"
      BY <2>1, <2>3, <2>5 DEF OnceInv
    <2>8. ASSUME NEW x \in Reqs, slot'[x].pc = "login_tx"
          PROVE  /\ challenge'[slot'[x].q.challenge].state = "gone"
                 /\ \A e \in opened' : e.challenge # slot'[x].q.challenge
                 /\ \A y \in Reqs \ { x } : slot'[y].pc = "login_tx" =>
                      slot'[y].q.challenge # slot'[x].q.challenge
      <3>1. x # r /\ slot'[x] = slot[x]
        BY <2>3, <2>4, <2>8
      <3> QED
        BY <2>1, <2>3, <2>4, <2>5, <2>8, <3>1 DEF OnceInv
    <2> QED
      BY <2>6, <2>7, <2>8 DEF OnceInv
  <1> QED
    BY <1>1, <1>4, <1>5, <1>6, <1>7, <1>8, <1>9, PlainSteps

\* However many requests present a challenge at once, it opens at most one
\* session (ChallengeOpensOnce).
THEOREM OneSessionPerChallenge == Spec => []ChallengeOpensOnce
  <1>1. Init => OnceInv
    BY DEF Init, OnceInv, ChallengeOpensOnce, IdleSlot
  <1>2. TypeInv /\ OnceInv /\ [Next]_vars => TypeInv' /\ OnceInv'
    BY TypeInductive, OnceInductive
  <1>3. OnceInv => ChallengeOpensOnce
    BY DEF OnceInv
  <1> QED
    BY <1>1, <1>2, <1>3, TypeInit, PTL DEF Spec

-----------------------------------------------------------------------------
(***************************************************************************)
(* Tokens and the audit log.                                               *)
(***************************************************************************)

\* The token of a recorded login is on its way to the client.
TokenInv ==
    /\ TokenAudited
    /\ \A r \in Reqs : slot[r].pc = "login_deliver" => slot[r].session \in audited

\* Steps that record nothing and send nothing.
LEMMA TokenFrame ==
    ASSUME TokenInv, UNCHANGED << audited, delivered >>,
           \A r \in Reqs : slot'[r] = slot[r] \/ slot'[r].pc # "login_deliver"
    PROVE  TokenInv'
  BY DEF TokenInv, TokenAudited

\* TokenInv is inductive.
LEMMA TokenInductive ==
    ASSUME TypeInv, TokenInv, [Next]_vars
    PROVE  TokenInv'
  <1>1. ASSUME NEW r \in Reqs, NEW s, Goto(r, s), s.pc # "login_deliver",
               UNCHANGED << audited, delivered >>
        PROVE  TokenInv'
    BY <1>1, GotoSlot, TokenFrame
  <1>2. IdleSlot.pc = "idle"
    BY DEF IdleSlot
  <1>3. ASSUME UNCHANGED << slot, audited, delivered >> PROVE TokenInv'
    BY <1>3, TokenFrame
  <1>4. ASSUME NEW r \in Reqs, Done(r), UNCHANGED << audited, delivered >>
        PROVE  TokenInv'
    BY <1>1, <1>2, <1>4 DEF Done
  <1>5. ASSUME NEW r \in Reqs, RequestStep(r) PROVE TokenInv'
    <2>1. slot[r] \in Slot
      BY DEF TypeInv, TypeOK
    <2>2. ASSUME NEW q \in Requests, Start(r, q) PROVE TokenInv'
      <3>1. PICK s : s = [IdleSlot EXCEPT !.pc = q.op, !.q = q, !.at = now,
                                          !.n = begun + 1]
        OBVIOUS
      <3>2. s.pc = q.op
        BY <3>1 DEF IdleSlot
      <3>3. q.op \in Ops
        BY RequestFields
      <3>4. s.pc # "login_deliver"
        BY <3>2, <3>3 DEF Ops
      <3> QED
        BY <1>1, <2>2, <3>1, <3>4 DEF Start, history
    <2>3. CASE \/ End(r) \/ createInitialOwner(r) \/ LoginLogout(r)
               \/ \E h \in Challenges : PutChallenge(r, h)
      BY <1>4, <2>3 DEF End, createInitialOwner, PutChallenge, LoginLogout, history
    <2>4. CASE \/ ResolveSession(r) \/ verifyRecentTOTP(r) \/ LogoutAudited(r)
               \/ RevokeUserSessions(r) \/ ChangeSystemRole(r) \/ ForgetChallenges(r)
      BY <1>4, <2>4 DEF ResolveSession, verifyRecentTOTP, LogoutAudited,
                        RevokeUserSessions, ChangeSystemRole, ForgetChallenges, history
    <2>5. CASE InitialOwnerCheck(r)
      <3>1. PICK h : Goto(r, [slot[r] EXCEPT !.pc = "initial_owner_tx", !.hash = h])
        BY <2>5 DEF InitialOwnerCheck
      <3>2. PICK s : s = [slot[r] EXCEPT !.pc = "initial_owner_tx", !.hash = h]
        OBVIOUS
      <3>3. s.pc = "initial_owner_tx"
        BY <2>1, <3>2 DEF Slot
      <3> QED
        BY <1>1, <2>5, <3>1, <3>2, <3>3 DEF InitialOwnerCheck, history
    <2>6. CASE BeginLogin(r)
      <3>1. PICK u, h, g, n :
              Goto(r, [slot[r] EXCEPT !.pc = "put_challenge", !.user = u, !.hash = h,
                                      !.upgraded = g, !.resets = n])
        BY <2>6 DEF BeginLogin
      <3>2. PICK s : s = [slot[r] EXCEPT !.pc = "put_challenge", !.user = u, !.hash = h,
                                         !.upgraded = g, !.resets = n]
        OBVIOUS
      <3>3. s.pc = "put_challenge"
        BY <2>1, <3>2 DEF Slot
      <3> QED
        BY <1>1, <2>6, <3>1, <3>2, <3>3 DEF BeginLogin, history
    <2>7. CASE consumeChallenge(r)
      <3>1. PICK h : h = challenge[slot[r].q.challenge]
        OBVIOUS
      <3>2. PICK s : s = [slot[r] EXCEPT !.pc = "login_tx", !.at = now, !.user = h.user,
                                         !.hash = h.hash, !.upgraded = h.upgraded,
                                         !.resets = h.resets]
        OBVIOUS
      <3>3. s.pc = "login_tx"
        BY <2>1, <3>2 DEF Slot
      <3>4. (Goto(r, s) \/ Done(r)) /\ UNCHANGED << audited, delivered >>
        BY <2>7, <3>1, <3>2 DEF consumeChallenge, history
      <3> QED
        BY <1>1, <1>4, <3>3, <3>4
    <2>8. ASSUME NEW t \in Sessions, completeLogin(r, t) PROVE TokenInv'
      <3>1. PICK s : s = [slot[r] EXCEPT !.pc = "login_resolve", !.session = t]
        OBVIOUS
      <3>2. s.pc = "login_resolve"
        BY <2>1, <3>1 DEF Slot
      <3>3. Goto(r, s) /\ UNCHANGED << audited, delivered >>
        BY <2>8, <3>1 DEF completeLogin
      <3> QED
        BY <1>1, <3>2, <3>3
    <2>9. ASSUME NEW pc \in { "login_record", "login_logout", "forget_challenges" },
                 Goto(r, [slot[r] EXCEPT !.pc = pc]), UNCHANGED << audited, delivered >>
          PROVE  TokenInv'
      <3>1. PICK s : s = [slot[r] EXCEPT !.pc = pc]
        OBVIOUS
      <3>2. s.pc = pc
        BY <2>1, <3>1 DEF Slot
      <3> QED
        BY <1>1, <2>9, <3>1, <3>2
    <2>10. CASE LoginResolve(r) \/ LoginFails(r) \/ ResetPassword(r)
      BY <2>9, <2>10 DEF LoginResolve, LoginFails, ResetPassword, history
    <2>11. CASE LoginRecord(r)
      <3>1. PICK s : s = [slot[r] EXCEPT !.pc = "login_deliver"]
        OBVIOUS
      <3>2. s.session = slot[r].session
        BY <2>1, <3>1 DEF Slot
      <3>3. /\ Goto(r, s) /\ audited' = audited \cup { slot[r].session }
            /\ UNCHANGED delivered
        BY <2>11, <3>1 DEF LoginRecord
      <3>4. slot'[r] = s /\ \A x \in Reqs \ { r } : slot'[x] = slot[x]
        BY <3>3, GotoSlot
      <3> QED
        BY <3>2, <3>3, <3>4 DEF TokenInv, TokenAudited
    <2>12. CASE LoginDeliver(r)
      <3>1. /\ slot[r].pc = "login_deliver" /\ Goto(r, IdleSlot)
            /\ delivered' = delivered \cup { slot[r].session } /\ UNCHANGED audited
        BY <2>12 DEF LoginDeliver, Done
      <3>2. slot'[r] = IdleSlot /\ \A x \in Reqs \ { r } : slot'[x] = slot[x]
        BY <3>1, GotoSlot
      <3> QED
        BY <1>2, <3>1, <3>2 DEF TokenInv, TokenAudited
    <2> QED
      BY <1>5, <2>2, <2>3, <2>4, <2>5, <2>6, <2>7, <2>8, <2>10, <2>11, <2>12
      DEF RequestStep, LoginStep
  <1>6. CASE \/ Provision \/ Tick \/ UNCHANGED vars
             \/ \E started \in 0..now : cleanupExpiredState(started)
    BY <1>3, <1>6 DEF Provision, ProvisionUser, Tick, vars, cleanupExpiredState, history
  <1>7. CASE Crash
    <2>1. \A r \in Reqs : slot'[r].pc # "login_deliver"
      BY <1>2, <1>7 DEF Crash
    <2> QED
      BY <1>7, <2>1, TokenFrame DEF Crash, history
  <1> QED
    BY <1>5, <1>6, <1>7 DEF Next

\* The token of a session leaves the server only after the login has been
\* recorded (TokenAudited): the login handler sends it last, and a login that
\* cannot be recorded is revoked instead.
THEOREM TokensAreAudited == Spec => []TokenAudited
  <1>1. Init => TokenInv
    BY DEF Init, TokenInv, TokenAudited, IdleSlot
  <1>2. TypeInv /\ TokenInv /\ [Next]_vars => TypeInv' /\ TokenInv'
    BY TypeInductive, TokenInductive
  <1>3. TokenInv => TokenAudited
    BY DEF TokenInv
  <1> QED
    BY <1>1, <1>2, <1>3, TypeInit, PTL DEF Spec

-----------------------------------------------------------------------------
(***************************************************************************)
(* A change of role needs a recent TOTP code.                              *)
(***************************************************************************)

\* recent_totp_at of a session tells of a TOTP code accepted in it.
RecentInv ==
    \A t \in Sessions : session[t].recent # 0 =>
        \E e \in accepted : /\ e.session = t /\ e.kind = "totp"
                            /\ e.at + 1 = session[t].recent

RecentKept == \A t \in Sessions : session'[t].recent = session[t].recent

\* Steps that accept nothing and verify no session.
LEMMA RecentFrame ==
    ASSUME RecentInv, RecentKept, accepted \subseteq accepted'
    PROVE  RecentInv'
  BY DEF RecentInv, RecentKept

\* A revoked session keeps its time of verification.
LEMMA RevokedRecent ==
    ASSUME NEW x \in Session, NEW at
    PROVE  Revoked(x, at).recent = x.recent
  BY DEF Revoked, Session

LEMMA RevokeUserRecent ==
    ASSUME TypeInv, NEW u, NEW at, revokeUserSessionsTx(u, at)
    PROVE  RecentKept
  <1> SUFFICES ASSUME NEW t \in Sessions
               PROVE  session'[t].recent = session[t].recent
    BY DEF RecentKept
  <1>1. session[t] \in Session
    BY DEF TypeInv, TypeOK
  <1>2. session'[t] = IF session[t].user = u THEN Revoked(session[t], at) ELSE session[t]
    BY DEF revokeUserSessionsTx
  <1> QED
    BY <1>1, <1>2, RevokedRecent

LEMMA OneRecent ==
    ASSUME TypeInv, NEW t, NEW y,
           session' = [session EXCEPT ![t] = y],
           t \in Sessions => y.recent = session[t].recent
    PROVE  RecentKept
  BY DEF RecentKept, TypeInv, TypeOK

LEMMA IdleRecent ==
    ASSUME TypeInv, NEW t \in Sessions, NEW n,
           session' = [session EXCEPT ![t].idle = n]
    PROVE  RecentKept
  <1>1. session[t] \in Session
    BY DEF TypeInv, TypeOK
  <1>2. PICK y : y = [session[t] EXCEPT !.idle = n]
    OBVIOUS
  <1>3. y.recent = session[t].recent
    BY <1>1, <1>2 DEF Session
  <1>4. session' = [session EXCEPT ![t] = y]
    BY <1>2
  <1> QED
    BY <1>3, <1>4, OneRecent

\* A TOTP code accepted in a session.
LEMMA AcceptedTOTP ==
    ASSUME NEW s, NEW t, NEW u, verifyAndConsumeTOTP(s, t, u)
    PROVE  /\ accepted \subseteq accepted'
           /\ \E e \in accepted' : e.session = t /\ e.kind = "totp" /\ e.at = s.at
  <1>1. PICK k : Accept(s, t, u, "totp", k)
    BY DEF verifyAndConsumeTOTP
  <1>2. PICK e : e = [ user |-> u, kind |-> "totp", id |-> k, session |-> t,
                       at |-> s.at, n |-> s.n ]
    OBVIOUS
  <1>3. e.session = t /\ e.kind = "totp" /\ e.at = s.at
    BY <1>2
  <1>4. accepted' = accepted \cup { e }
    BY <1>1, <1>2 DEF Accept
  <1> QED
    BY <1>3, <1>4

LEMMA RecentInductive ==
    ASSUME TypeInv, RecentInv, [Next]_vars
    PROVE  RecentInv'
  <1>1. ASSUME UNCHANGED << session, accepted >> PROVE RecentInv'
    BY <1>1, RecentFrame DEF RecentKept
  <1>2. ASSUME NEW r \in Reqs, RequestStep(r) PROVE RecentInv'
    <2>1. CASE \/ End(r) \/ InitialOwnerCheck(r) \/ createInitialOwner(r)
               \/ BeginLogin(r) \/ consumeChallenge(r) \/ LoginRecord(r)
               \/ LoginDeliver(r) \/ LoginFails(r) \/ ForgetChallenges(r)
               \/ \E q \in Requests : Start(r, q)
               \/ \E h \in Challenges : PutChallenge(r, h)
      BY <1>1, <2>1
      DEF End, InitialOwnerCheck, createInitialOwner, BeginLogin, consumeChallenge,
          LoginRecord, LoginDeliver, LoginFails, ForgetChallenges, Start, PutChallenge,
          history
    <2>2. CASE RevokeUserSessions(r) \/ ChangeSystemRole(r) \/ ResetPassword(r)
      <3>1. UNCHANGED accepted
        BY <2>2 DEF RevokeUserSessions, ChangeSystemRole, ResetPassword, history
      <3>2. RecentKept
        BY <2>2, RevokeUserRecent DEF RevokeUserSessions, ChangeSystemRole, ResetPassword
      <3> QED
        BY <3>1, <3>2, RecentFrame
    <2>3. CASE LoginResolve(r) \/ ResolveSession(r)
      <3>1. UNCHANGED accepted
        BY <2>3 DEF LoginResolve, ResolveSession, history
      <3>2. PICK t, at : t \in Sessions /\ resolveSession(t, at)
        <4>1. CASE LoginResolve(r)
          <5>1. slot[r].session \in Sessions
            BY <4>1, BusySlot DEF LoginResolve, SlotOK, LoginEnd
          <5> QED
            BY <4>1, <5>1 DEF LoginResolve
        <4>2. CASE ResolveSession(r)
          <5>1. slot[r].pc = "resolve"
            BY <4>2 DEF ResolveSession
          <5>2. slot[r].q \in Requests /\ slot[r].q.op = "resolve"
            BY <5>1, BusySlot, StepOp DEF Ops
          <5>3. slot[r].q.session \in Sessions
            BY <5>2, RequestFields DEF WellFormed
          <5> QED
            BY <4>2, <5>3 DEF ResolveSession
        <4> QED
          BY <2>3, <4>1, <4>2
      <3>3. RecentKept
        BY <3>2, IdleRecent DEF resolveSession
      <3> QED
        BY <3>1, <3>3, RecentFrame
    <2>4. CASE LoginLogout(r) \/ LogoutAudited(r)
      <3>1. UNCHANGED accepted
        BY <2>4 DEF LoginLogout, LogoutAudited, history
      <3>2. PICK t, at : session' = [session EXCEPT ![t] = Revoked(session[t], at)]
        BY <2>4 DEF LoginLogout, LogoutAudited
      <3>3. t \in Sessions => Revoked(session[t], at).recent = session[t].recent
        BY RevokedRecent DEF TypeInv, TypeOK
      <3>4. RecentKept
        BY <3>2, <3>3, OneRecent
      <3> QED
        BY <3>1, <3>4, RecentFrame
    <2>5. CASE verifyRecentTOTP(r)
      <3>1. PICK s : s = slot[r]
        OBVIOUS
      <3>2. PICK t : t = s.q.session
        OBVIOUS
      <3>3. s.pc = "reverify"
        BY <2>5, <3>1 DEF verifyRecentTOTP
      <3>4. s \in Slot /\ s.q \in Requests /\ s.q.op = "reverify"
        BY <3>1, <3>3, BusySlot, StepOp DEF Ops
      <3>5. t \in Sessions /\ session[t] \in Session
        BY <3>2, <3>4, RequestFields DEF WellFormed, TypeInv, TypeOK
      <3>6. verifyAndConsumeTOTP(s, t, session[t].user)
        BY <2>5, <3>1, <3>2 DEF verifyRecentTOTP
      <3>7. PICK n : session' = [session EXCEPT ![t].recent = s.at + 1, ![t].idle = n]
        BY <2>5, <3>1, <3>2 DEF verifyRecentTOTP
      <3>8. /\ session'[t].recent = s.at + 1
            /\ \A y \in Sessions : y # t => session'[y] = session[y]
        BY <3>5, <3>7 DEF TypeInv, TypeOK, Session
      <3>9. PICK u : u = session[t].user
        OBVIOUS
      <3>10. verifyAndConsumeTOTP(s, t, u)
        BY <3>6, <3>9
      <3>11. /\ accepted \subseteq accepted'
             /\ \E e \in accepted' : e.session = t /\ e.kind = "totp" /\ e.at = s.at
        BY <3>10, AcceptedTOTP
      <3> QED
        BY <3>8, <3>11 DEF RecentInv
    <2>6. ASSUME NEW t \in Sessions, completeLogin(r, t) PROVE RecentInv'
      <3>1. PICK s : s = slot[r]
        OBVIOUS
      <3>2. VerifyFactor(s, t)
        BY <2>6, <3>1 DEF completeLogin
      <3>3. PICK y : y = [ state |-> "valid", user |-> s.user,
                           expires |-> s.at + SessionAbsoluteLifetime,
                           idle |-> s.at + SessionIdleLifetime,
                           recent |-> RecentAfterLogin(s), revokedAt |-> 0,
                           password |-> s.resets, role |-> user[s.user].role ]
        OBVIOUS
      <3>4. y.recent = RecentAfterLogin(s)
        BY <3>3
      <3>5. session' = [session EXCEPT ![t] = y]
        BY <2>6, <3>1, <3>3 DEF completeLogin
      <3>6. session'[t] = y /\ \A z \in Sessions : z # t => session'[z] = session[z]
        BY <3>5 DEF TypeInv, TypeOK
      <3>7. CASE s.q.factor.kind = "totp"
        <4>1. verifyAndConsumeTOTP(s, t, s.user)
          BY <3>2, <3>7 DEF VerifyFactor
        <4>2. /\ accepted \subseteq accepted'
              /\ \E e \in accepted' : e.session = t /\ e.kind = "totp" /\ e.at = s.at
          BY <4>1, AcceptedTOTP
        <4>3. session'[t].recent = s.at + 1
          BY <3>4, <3>6, <3>7 DEF RecentAfterLogin
        <4> QED
          BY <3>6, <4>2, <4>3 DEF RecentInv
      <3>8. CASE s.q.factor.kind # "totp"
        <4>1. session'[t].recent = 0
          BY <3>4, <3>6, <3>8 DEF RecentAfterLogin
        <4>2. accepted \subseteq accepted'
          BY <3>2, <3>8 DEF VerifyFactor, consumeRecoveryCode, Accept
        <4> QED
          BY <3>6, <4>1, <4>2 DEF RecentInv
      <3> QED
        BY <3>7, <3>8
    <2> QED
      BY <1>2, <2>1, <2>2, <2>3, <2>4, <2>5, <2>6 DEF RequestStep, LoginStep
  <1>3. ASSUME NEW started \in 0..now, cleanupExpiredState(started) PROVE RecentInv'
    <2>1. RecentKept
      <3> SUFFICES ASSUME NEW t \in Sessions
                   PROVE  session'[t].recent = session[t].recent
        BY DEF RecentKept
      <3>1. session[t] \in Session
        BY DEF TypeInv, TypeOK
      <3>2. [session[t] EXCEPT !.state = "removed"].recent = session[t].recent
        BY <3>1 DEF Session
      <3> QED
        BY <1>3, <3>2 DEF cleanupExpiredState
    <2> QED
      BY <1>3, <2>1, RecentFrame DEF cleanupExpiredState, history
  <1>4. CASE Provision \/ Crash \/ Tick \/ UNCHANGED vars
    BY <1>1, <1>4 DEF Provision, ProvisionUser, Crash, Tick, vars, history
  <1> QED
    BY <1>2, <1>3, <1>4 DEF Next

\* A role changes only at the request of a session in which a TOTP code was
\* accepted shortly before (RoleChangeNeedsTOTP): ChangeSystemRole asks
\* HasRecentTOTP, and completeLogin leaves it unset after a recovery code.
THEOREM RoleChangesNeedTOTP == Spec => RoleChangeNeedsTOTP
  <1> DEFINE Backed(r) ==
               \E e \in accepted :
                   /\ e.session = slot[r].q.session /\ e.kind = "totp"
                   /\ slot[r].at < e.at + RecentTOTPLifetime
             Changes(r) ==
               slot[r].pc = "change_role" /\ user' # user /\ slot'[r].pc = "idle"
  <1>1. ASSUME TypeInv, RecentInv, [Next]_vars, NEW r \in Reqs, Changes(r)
        PROVE  Backed(r)
    <2>1. ASSUME NEW x \in Reqs, x # r, NEW s, Goto(x, s) PROVE FALSE
      <3>1. slot'[r] = slot[r]
        BY <1>1, <2>1, GotoSlot
      <3> QED
        BY <1>1, <3>1
    <2>2. ~ Quiet
      BY <1>1 DEF Quiet
    <2>3. ~ Provision
      BY <1>1 DEF Provision, ProvisionUser
    <2>4. PICK x \in Reqs :
            \/ createInitialOwner(x) \/ verifyRecentTOTP(x) \/ ChangeSystemRole(x)
            \/ ResetPassword(x) \/ \E t \in Sessions : completeLogin(x, t)
      BY <1>1, <2>2, <2>3, QuietSteps
    <2>5. x = r
      BY <2>1, <2>4 DEF createInitialOwner, verifyRecentTOTP, ChangeSystemRole,
                        ResetPassword, completeLogin, Done
    <2>6. ChangeSystemRole(r)
      BY <1>1, <2>4, <2>5 DEF createInitialOwner, verifyRecentTOTP, ResetPassword,
                              completeLogin
    <2>7. /\ slot[r].q \in Requests /\ slot[r].q.op = "change_role"
          /\ slot[r].at \in Nat
      BY <1>1, BusySlot, StepOp DEF Ops
    <2>8. PICK t \in Sessions : t = slot[r].q.session
      BY <2>7, RequestFields DEF WellFormed
    <2>9. HasRecentTOTP(t, slot[r].at)
      BY <2>6, <2>8 DEF ChangeSystemRole
    <2>10. PICK e \in accepted : /\ e.session = t /\ e.kind = "totp"
                                 /\ e.at + 1 = session[t].recent
      BY <1>1, <2>9 DEF RecentInv, HasRecentTOTP
    <2>11. e.at \in Nat
      BY <1>1 DEF TypeInv, TypeOK
    <2>12. slot[r].at < e.at + RecentTOTPLifetime
      BY <2>7, <2>9, <2>10, <2>11, Lifetimes DEF HasRecentTOTP
    <2> QED
      BY <2>8, <2>10, <2>12
  <1>2. TypeInv /\ RecentInv /\ [Next]_vars =>
          [\A r \in Reqs : Changes(r) => Backed(r)]_vars
    BY <1>1
  <1>3. Init => RecentInv
    BY DEF Init, RecentInv, FreeSession
  <1>4. TypeInv /\ RecentInv /\ [Next]_vars => TypeInv' /\ RecentInv'
    BY TypeInductive, RecentInductive
  <1> QED
    BY <1>2, <1>3, <1>4, TypeInit, PTL DEF Spec, RoleChangeNeedsTOTP
=============================================================================
