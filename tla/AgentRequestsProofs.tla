------------------------ MODULE AgentRequestsProofs ------------------------
(***************************************************************************)
(* Proofs about the agent service and the requests of agents, for any      *)
(* number of agents, tokens, keys, managing calls and concurrent requests, *)
(* and a clock that is set back any number of times.                       *)
(***************************************************************************)
EXTENDS AgentRequests, TLAPS

Row == [agent : Agents \cup {NoToken}, created : Nat, expires : Nat,
        revoked : BOOLEAN, used : Int]
TokensOK ==
    /\ tokens \in [Tokens -> Row]
    /\ \A t \in Tokens : Issued(t) => tokens[t].agent \in Agents

\* A call that waits has sampled a time the clock has shown.
ClockOK == now \in Nat /\ high \in Nat /\ now <= high
CallsOK ==
    /\ call \in [Managers -> [c : Calls \cup {NoCall}, at : Nat]]
    /\ \A m \in Managers :
         call[m].at <= high /\ (call[m] = FreeSlot \/ call[m].c \in Calls)

\* The raw value of a token was returned once, if the token was issued.
ShownOnce ==
    /\ shown \in [Tokens -> Nat]
    /\ \A t \in Tokens : shown[t] <= 1 /\ (shown[t] = 1 <=> Issued(t))

\* One record per endpoint and key.
IdemOK ==
    /\ \A i \in idem : i.expires \in Nat
    /\ \A i, j \in idem : i.endpoint = j.endpoint /\ i.key = j.key => i = j

\* What was created is remembered for its lifetime, or that has passed.
Elapsed(x) == high - x.at >= IdemTTL - 1
Remembered(x) ==
    \E i \in idem : /\ i.endpoint = x.endpoint /\ i.key = x.key
                    /\ i.expires >= x.at + IdemTTL
MadeOK == \A x \in made : /\ x.at \in Nat /\ x.high \in Nat
                          /\ Remembered(x) \/ Elapsed(x)

\* The first part of CreatedOncePerKey.
Once == \A x, y \in made :
          (x.endpoint = y.endpoint /\ x.key = y.key /\ x.id # y.id)
            => Max({x.high, y.high}) - Min({x.at, y.at}) >= IdemTTL - 1

ServiceInv == TokensOK /\ ClockOK /\ CallsOK /\ ShownOnce /\ IdemOK /\ MadeOK /\ Once

-----------------------------------------------------------------------------
LEMMA MaxOfTwo ==
    ASSUME NEW a \in Int, NEW b \in Int
    PROVE  Max({a, b}) \in {a, b} /\ Max({a, b}) >= a /\ Max({a, b}) >= b
<1>1. \E x \in {a, b} : \A y \in {a, b} : x >= y
  OBVIOUS
<1> QED BY <1>1 DEF Max

LEMMA MinOfTwo ==
    ASSUME NEW a \in Int, NEW b \in Int
    PROVE  Min({a, b}) \in {a, b} /\ Min({a, b}) <= a /\ Min({a, b}) <= b
<1>1. \E x \in {a, b} : \A y \in {a, b} : x =< y
  OBVIOUS
<1> QED BY <1>1 DEF Min

LEMMA SpreadOfTwo ==
    ASSUME NEW h \in Nat, NEW k \in Nat, NEW s \in Nat, NEW t \in Nat,
           NEW n \in Nat, k - s >= n - 1
    PROVE  /\ Max({h, k}) - Min({s, t}) >= n - 1
           /\ Max({k, h}) - Min({t, s}) >= n - 1
<1>1. {h, k} = {k, h} /\ {s, t} = {t, s}
  OBVIOUS
<1>2. Max({h, k}) \in {h, k} /\ Max({h, k}) >= k
  BY MaxOfTwo
<1>3. Min({s, t}) \in {s, t} /\ Min({s, t}) <= s
  BY MinOfTwo
<1> QED BY <1>1, <1>2, <1>3

LEMMA NoRowType == NoRow \in Row
  BY DEF NoRow, Row

\* A record whose lifetime ended, up to the fraction of a second, is removed.
LEMMA CleanedUpElapsed ==
    ASSUME NEW i \in idem, i.expires \in Nat, NEW t \in Nat, CleanedUp(i, t)
    PROVE  i.expires <= t + 1
<1> DEFINE e == i.expires
<1>1. e \in Nat /\ e \div 2 <= t \div 2
  BY DEF CleanedUp
<1> HIDE DEF e
<1>2. e <= t + 1
  BY <1>1
<1> QED BY <1>2 DEF e

LEMMA InitService == ServiceInit => ServiceInv
<1> SUFFICES ASSUME ServiceInit PROVE ServiceInv
  OBVIOUS
<1>1. TokensOK
  BY NoRowType DEF ServiceInit, TokensOK, Issued
<1>2. ClockOK /\ CallsOK
  BY DEF ServiceInit, ClockOK, CallsOK, FreeSlot
<1>3. ShownOnce
  BY DEF ServiceInit, ShownOnce, Issued
<1>4. IdemOK /\ MadeOK /\ Once
  BY DEF ServiceInit, IdemOK, MadeOK, Once
<1> QED BY <1>1, <1>2, <1>3, <1>4 DEF ServiceInv

-----------------------------------------------------------------------------
(***************************************************************************)
(* The managing calls.                                                     *)
(***************************************************************************)

LEMMA EndCallOK ==
    ASSUME CallsOK, ClockOK, NEW m \in Managers, EndCall(m), high' = high
    PROVE  CallsOK'
<1>1. FreeSlot \in [c : Calls \cup {NoCall}, at : Nat] /\ FreeSlot.at = 0
  BY DEF FreeSlot
<1>2. call' \in [Managers -> [c : Calls \cup {NoCall}, at : Nat]]
  BY <1>1 DEF EndCall, CallsOK
<1>3. ASSUME NEW k \in Managers
      PROVE  call'[k].at <= high' /\ (call'[k] = FreeSlot \/ call'[k].c \in Calls)
  <2>1. CASE k = m
    BY <2>1, <1>1 DEF EndCall, CallsOK, ClockOK
  <2>2. CASE k # m
    BY <2>2 DEF EndCall, CallsOK
  <2> QED BY <2>1, <2>2
<1> QED BY <1>2, <1>3 DEF CallsOK

\* The idempotency check of a call that goes on, with all it establishes:
\* whatever was created under its key was created a lifetime ago.
LEMMA ProceedsOK ==
    ASSUME ServiceInv, NEW m \in Managers, NEW op, Proceeds(m, op)
    PROVE  /\ CallsOK' /\ IdemOK' /\ ClockOK'
           /\ call[m].c \in Calls /\ call[m].at \in Nat /\ call[m].at <= high
           /\ \A x \in made : (Remembered(x) \/ Elapsed(x))'
           /\ \A x \in made : x.endpoint = Endpoint(call[m].c) /\ x.key = call[m].c.key
                                => Elapsed(x)
           /\ \E i \in idem' : /\ i.endpoint = Endpoint(call[m].c)
                               /\ i.key = call[m].c.key
                               /\ i.expires = call[m].at + IdemTTL
<1> DEFINE c == call[m].c
           t == call[m].at
           new == [endpoint |-> Endpoint(c), key |-> c.key,
                   hash |-> humanRequestHash(c), expires |-> t + IdemTTL]
<1>1. c \in Calls /\ t \in Nat /\ t <= high /\ high \in Nat
  BY DEF ServiceInv, CallsOK, ClockOK, Proceeds
<1>2. CallsOK' /\ ClockOK'
  BY EndCallOK DEF ServiceInv, Proceeds, ClockOK
<1>3. /\ idem' = (idem \ Records(c)) \cup {new} /\ high' = high
      /\ checkHumanIdempotency(c, t) = "new"
  BY DEF Proceeds, saveHumanIdempotency
<1>4. /\ new.endpoint = Endpoint(c) /\ new.key = c.key
      /\ new.expires = t + IdemTTL /\ new.expires \in Nat
  BY <1>1, CallsAssumption
<1> HIDE DEF new, c, t
<1>5. IdemOK'
  BY <1>3, <1>4 DEF ServiceInv, IdemOK, Records
<1>6. \A i \in Records(c) : t >= i.expires
  <2>1. Records(c) = {} \/ \E i \in Records(c) : t >= i.expires
    BY <1>3 DEF checkHumanIdempotency
  <2> QED BY <2>1 DEF ServiceInv, IdemOK, Records
<1>7. ASSUME NEW x \in made, x.endpoint = Endpoint(c), x.key = c.key
      PROVE  Elapsed(x) /\ (Remembered(x) \/ Elapsed(x))'
  <2>1. x.at \in Nat /\ (Remembered(x) \/ Elapsed(x))
    BY DEF ServiceInv, MadeOK
  <2>2. CASE Remembered(x)
    <3>1. PICK i \in idem : /\ i.endpoint = x.endpoint /\ i.key = x.key
                            /\ i.expires >= x.at + IdemTTL
      BY <2>2 DEF Remembered
    <3>2. i \in Records(c) /\ i.expires \in Nat
      BY <3>1, <1>7 DEF Records, ServiceInv, IdemOK
    <3> QED BY <3>1, <3>2, <2>1, <1>6, <1>1, <1>3, CallsAssumption DEF Elapsed
  <2>3. CASE Elapsed(x)
    BY <2>3, <1>3 DEF Elapsed
  <2> QED BY <2>1, <2>2, <2>3
<1>8. ASSUME NEW x \in made, ~(x.endpoint = Endpoint(c) /\ x.key = c.key)
      PROVE  (Remembered(x) \/ Elapsed(x))'
  <2>1. CASE Remembered(x)
    BY <2>1, <1>8, <1>3 DEF Remembered, Records
  <2>2. CASE Elapsed(x)
    BY <2>2, <1>3 DEF Elapsed
  <2> QED BY <2>1, <2>2 DEF ServiceInv, MadeOK
<1>9. \E i \in idem' : i.endpoint = Endpoint(c) /\ i.key = c.key /\ i.expires = t + IdemTTL
  BY <1>3, <1>4
<1> QED BY <1>1, <1>2, <1>5, <1>7, <1>8, <1>9 DEF c, t

\* What a call creates is far from what its key created before.
LEMMA MadeGrows ==
    ASSUME ServiceInv, NEW m \in Managers, NEW op, Proceeds(m, op), NEW id,
           made' = made \cup {Made(call[m].c, call[m].at, id)}
    PROVE  MadeOK' /\ Once'
<1> DEFINE c == call[m].c
           t == call[m].at
<1>0. PICK z : z = Made(c, t, id)
  OBVIOUS
<1>1. /\ z.at = t /\ z.high = high /\ z.endpoint = Endpoint(c) /\ z.key = c.key
      /\ t \in Nat /\ t <= high /\ high \in Nat /\ high' = high
  BY <1>0, ProceedsOK DEF Made, ServiceInv, ClockOK, Proceeds
<1>2. made' = made \cup {z}
  BY <1>0
<1>3. Remembered(z)'
  BY ProceedsOK, <1>1, CallsAssumption DEF Remembered
<1>4. \A x \in made : (Remembered(x) \/ Elapsed(x))'
  BY ProceedsOK
<1>5. \A x \in made : x.endpoint = z.endpoint /\ x.key = z.key => Elapsed(x)
  BY ProceedsOK, <1>1
<1> HIDE DEF t, c
<1>6. MadeOK'
  BY <1>1, <1>2, <1>3, <1>4 DEF MadeOK, ServiceInv
<1>7. ASSUME NEW x \in made, x.endpoint = z.endpoint, x.key = z.key
      PROVE  /\ Max({x.high, z.high}) - Min({x.at, z.at}) >= IdemTTL - 1
             /\ Max({z.high, x.high}) - Min({z.at, x.at}) >= IdemTTL - 1
  <2>1. x.high \in Nat /\ x.at \in Nat /\ z.high \in Nat /\ z.at \in Nat
    BY <1>1 DEF ServiceInv, MadeOK
  <2>2. z.high - x.at >= IdemTTL - 1
    BY <1>7, <1>5, <1>1 DEF Elapsed
  <2> QED BY <2>1, <2>2, SpreadOfTwo, CallsAssumption
<1>8. Once'
  <2> SUFFICES ASSUME NEW x \in made', NEW y \in made',
                      x.endpoint = y.endpoint, x.key = y.key, x.id # y.id
               PROVE  Max({x.high, y.high}) - Min({x.at, y.at}) >= IdemTTL - 1
    BY DEF Once
  <2>1. CASE x \in made /\ y \in made
    BY <2>1 DEF ServiceInv, Once
  <2>2. CASE x \in made /\ y = z
    BY <2>2, <1>7
  <2>3. CASE x = z /\ y \in made
    BY <2>3, <1>7
  <2> QED BY <2>1, <2>2, <2>3, <1>2
<1> QED BY <1>6, <1>8

-----------------------------------------------------------------------------
(***************************************************************************)
(* What the steps do to the tokens.                                        *)
(***************************************************************************)

\* The record of a token goes forward.
Forward(t) == Issued(t) => /\ tokens'[t].used >= tokens[t].used
                           /\ tokens[t].revoked => tokens'[t] = tokens[t]

LEMMA TokensKept ==
    ASSUME TokensOK, ShownOnce, UNCHANGED <<tokens, shown>>
    PROVE  TokensOK' /\ ShownOnce' /\ \A t \in Tokens : Forward(t)
<1>1. \A t \in Tokens : Issued(t)' <=> Issued(t)
  BY DEF Issued
<1>2. \A t \in Tokens : tokens[t].used \in Int
  BY DEF TokensOK, Row
<1> QED BY <1>1, <1>2 DEF TokensOK, ShownOnce, Forward

\* The row of an issued token is replaced by one that continues it.
LEMMA TokenTo ==
    ASSUME TokensOK, ShownOnce, NEW t \in Tokens, Issued(t), NEW new \in Row,
           new.agent = tokens[t].agent, tokens' = [tokens EXCEPT ![t] = new],
           shown' = shown, new.used >= tokens[t].used,
           tokens[t].revoked => new = tokens[t]
    PROVE  TokensOK' /\ ShownOnce' /\ \A k \in Tokens : Forward(k)
<1>1. tokens' \in [Tokens -> Row] /\ tokens'[t] = new
  BY DEF TokensOK
<1>2. \A k \in Tokens : k # t => tokens'[k] = tokens[k] /\ tokens[k].used \in Int
  BY DEF TokensOK, Row
<1>3. new.agent \in Agents /\ new # NoRow
  BY CallsAssumption DEF TokensOK, NoRow
<1>4. \A k \in Tokens : Issued(k)' <=> Issued(k)
  BY <1>1, <1>2, <1>3 DEF Issued
<1>5. TokensOK'
  BY <1>1, <1>2, <1>3, <1>4 DEF TokensOK
<1>6. ShownOnce'
  BY <1>4 DEF ShownOnce
<1> QED BY <1>1, <1>2, <1>5, <1>6 DEF Forward

LEMMA TokenIssued ==
    ASSUME TokensOK, ShownOnce, NEW t \in Tokens, ~Issued(t), NEW new \in Row,
           new.agent \in Agents, tokens' = [tokens EXCEPT ![t] = new],
           shown' = [shown EXCEPT ![t] = @ + 1]
    PROVE  TokensOK' /\ ShownOnce' /\ \A k \in Tokens : Forward(k)
<1>1. tokens' \in [Tokens -> Row] /\ tokens'[t] = new
  BY DEF TokensOK
<1>2. \A k \in Tokens : k # t => tokens'[k] = tokens[k] /\ tokens[k].used \in Int
  BY DEF TokensOK, Row
<1>3. new # NoRow
  BY CallsAssumption DEF NoRow
<1>4. Issued(t)' /\ \A k \in Tokens : k # t => (Issued(k)' <=> Issued(k))
  BY <1>1, <1>2, <1>3 DEF Issued
<1>5. TokensOK'
  BY <1>1, <1>2, <1>3, <1>4 DEF TokensOK
<1>6. shown[t] = 0
  BY DEF ShownOnce
<1>7. ShownOnce'
  BY <1>4, <1>6 DEF ShownOnce
<1>8. \A k \in Tokens : Forward(k)
  BY <1>1, <1>2 DEF Forward
<1> QED BY <1>5, <1>7, <1>8

LEMMA MadeKept ==
    ASSUME ServiceInv, UNCHANGED made,
           \A x \in made : (Remembered(x) \/ Elapsed(x))'
    PROVE  MadeOK' /\ Once'
  BY DEF ServiceInv, MadeOK, Once

-----------------------------------------------------------------------------
(***************************************************************************)
(* The steps of the service.                                               *)
(***************************************************************************)
LEMMA StepQuiet ==
    ASSUME ServiceInv, UNCHANGED <<tokens, shown, now, high, call, idem, made>>
    PROVE  ServiceInv' /\ \A t \in Tokens : Forward(t)
<1>1. TokensOK' /\ ShownOnce' /\ \A t \in Tokens : Forward(t)
  BY TokensKept DEF ServiceInv
<1>2. ClockOK' /\ CallsOK' /\ IdemOK'
  BY DEF ServiceInv, ClockOK, CallsOK, IdemOK
<1>3. \A x \in made : (Remembered(x) \/ Elapsed(x))'
  BY DEF ServiceInv, MadeOK, Remembered, Elapsed
<1>4. MadeOK' /\ Once'
  BY <1>3, MadeKept
<1> QED BY <1>1, <1>2, <1>4 DEF ServiceInv

LEMMA StepCallBegin ==
    ASSUME ServiceInv, NEW m \in Managers, NEW c \in Calls, CallBegin(m, c)
    PROVE  ServiceInv' /\ \A t \in Tokens : Forward(t)
<1>1. TokensOK' /\ ShownOnce' /\ \A t \in Tokens : Forward(t)
  BY TokensKept DEF ServiceInv, CallBegin
<1>2. ClockOK' /\ IdemOK'
  BY DEF ServiceInv, ClockOK, IdemOK, CallBegin
<1>3. CallsOK'
  <2>1. PICK n : n = [c |-> c, at |-> now]
    OBVIOUS
  <2>2. /\ n \in [c : Calls \cup {NoCall}, at : Nat]
        /\ n.c \in Calls /\ n.at <= high
    BY <2>1 DEF ServiceInv, ClockOK
  <2>3. call' = [call EXCEPT ![m] = n] /\ high' = high
    BY <2>1 DEF CallBegin
  <2>4. call' \in [Managers -> [c : Calls \cup {NoCall}, at : Nat]]
    BY <2>2, <2>3 DEF ServiceInv, CallsOK
  <2>5. ASSUME NEW k \in Managers
        PROVE  call'[k].at <= high' /\ (call'[k] = FreeSlot \/ call'[k].c \in Calls)
    <3>1. CASE k = m
      BY <3>1, <2>2, <2>3 DEF ServiceInv, CallsOK
    <3>2. CASE k # m
      BY <3>2, <2>3 DEF ServiceInv, CallsOK
    <3> QED BY <3>1, <3>2
  <2> QED BY <2>4, <2>5 DEF CallsOK
<1>4. \A x \in made : (Remembered(x) \/ Elapsed(x))'
  BY DEF ServiceInv, MadeOK, Remembered, Elapsed, CallBegin
<1>5. MadeOK' /\ Once'
  BY <1>4, MadeKept DEF CallBegin
<1> QED BY <1>1, <1>2, <1>3, <1>5 DEF ServiceInv

LEMMA StepCallReturns ==
    ASSUME ServiceInv, NEW m \in Managers, CallReturns(m)
    PROVE  ServiceInv' /\ \A t \in Tokens : Forward(t)
<1>1. TokensOK' /\ ShownOnce' /\ \A t \in Tokens : Forward(t)
  BY TokensKept DEF ServiceInv, CallReturns
<1>2. ClockOK' /\ IdemOK'
  BY DEF ServiceInv, ClockOK, IdemOK, CallReturns
<1>3. CallsOK'
  BY EndCallOK DEF ServiceInv, CallReturns
<1>4. \A x \in made : (Remembered(x) \/ Elapsed(x))'
  BY DEF ServiceInv, MadeOK, Remembered, Elapsed, CallReturns
<1>5. MadeOK' /\ Once'
  BY <1>4, MadeKept DEF CallReturns
<1> QED BY <1>1, <1>2, <1>3, <1>5 DEF ServiceInv

LEMMA StepCreate ==
    ASSUME ServiceInv, NEW m \in Managers, NEW g \in Agents, Create(m, g)
    PROVE  ServiceInv' /\ \A t \in Tokens : Forward(t)
<1>1. Proceeds(m, "create")
  BY DEF Create
<1>2. CallsOK' /\ IdemOK' /\ ClockOK'
  BY <1>1, ProceedsOK
<1>3. TokensOK' /\ ShownOnce' /\ \A t \in Tokens : Forward(t)
  BY TokensKept DEF ServiceInv, Create
<1>4. MadeOK' /\ Once'
  BY <1>1, MadeGrows DEF Create
<1> QED BY <1>2, <1>3, <1>4 DEF ServiceInv

LEMMA StepIssueToken ==
    ASSUME ServiceInv, NEW m \in Managers, NEW t \in Tokens, IssueToken(m, t)
    PROVE  ServiceInv' /\ \A k \in Tokens : Forward(k)
<1> DEFINE c == call[m].c
           at == call[m].at
<1>1. Proceeds(m, "issue")
  BY DEF IssueToken
<1>2. CallsOK' /\ IdemOK' /\ ClockOK' /\ c \in Calls /\ at \in Nat
  BY <1>1, ProceedsOK
<1>3. c.agent \in Agents /\ c.expires \in Nat
  BY <1>2, CallsAssumption DEF Call
<1>4. PICK new : new = [agent |-> c.agent, created |-> at, revoked |-> FALSE,
                        used |-> -1, expires |-> c.expires]
  OBVIOUS
<1>5. new \in Row /\ new.agent \in Agents
  BY <1>2, <1>3, <1>4 DEF Row
<1>6. /\ tokens' = [tokens EXCEPT ![t] = new] /\ ~Issued(t)
      /\ shown' = [shown EXCEPT ![t] = @ + 1]
  BY <1>4 DEF IssueToken
<1>7. TokensOK' /\ ShownOnce' /\ \A k \in Tokens : Forward(k)
  BY <1>5, <1>6, TokenIssued DEF ServiceInv
<1>8. MadeOK' /\ Once'
  BY <1>1, MadeGrows DEF IssueToken
<1> QED BY <1>2, <1>7, <1>8 DEF ServiceInv

LEMMA StepRevokeToken ==
    ASSUME ServiceInv, NEW m \in Managers, RevokeToken(m)
    PROVE  ServiceInv' /\ \A k \in Tokens : Forward(k)
<1>1. Proceeds(m, "revoke")
  BY DEF RevokeToken
<1>2. CallsOK' /\ IdemOK' /\ ClockOK' /\ \A x \in made : (Remembered(x) \/ Elapsed(x))'
  BY <1>1, ProceedsOK
<1>3. MadeOK' /\ Once'
  BY <1>2, MadeKept DEF RevokeToken
<1>4. CASE call[m].c.token \notin Tokens
  <2>1. tokens' = tokens /\ shown' = shown
    BY <1>4 DEF RevokeToken, ServiceInv, TokensOK
  <2>2. TokensOK' /\ ShownOnce' /\ \A k \in Tokens : Forward(k)
    BY <2>1, TokensKept DEF ServiceInv
  <2> QED BY <1>2, <1>3, <2>2 DEF ServiceInv
<1>5. ASSUME NEW t \in Tokens, t = call[m].c.token
      PROVE  TokensOK' /\ ShownOnce' /\ \A k \in Tokens : Forward(k)
  <2>1. PICK new : new = [tokens[t] EXCEPT !.revoked = TRUE]
    OBVIOUS
  <2>2. tokens[t] \in Row
    BY DEF ServiceInv, TokensOK
  <2>3. /\ new \in Row /\ new.agent = tokens[t].agent
        /\ tokens[t].used \in Int /\ new.used = tokens[t].used
    BY <2>1, <2>2 DEF Row
  <2>4. tokens[t].revoked => new = tokens[t]
    <3>1. tokens[t].revoked \in BOOLEAN
      BY <2>2 DEF Row
    <3>2. tokens[t].revoked => tokens[t].revoked = TRUE
      BY <3>1, Zenon
    <3> QED BY <3>2, <2>1, <2>2 DEF Row
  <2>5. tokens' = [tokens EXCEPT ![t] = new] /\ shown' = shown /\ Issued(t)
    BY <1>5, <2>1 DEF RevokeToken, ServiceInv, TokensOK
  <2>6. new.used >= tokens[t].used
    BY <2>3
  <2> QED BY <2>3, <2>4, <2>5, <2>6, TokenTo DEF ServiceInv
<1> QED BY <1>2, <1>3, <1>4, <1>5 DEF ServiceInv

LEMMA StepSetGrant ==
    ASSUME ServiceInv, NEW m \in Managers, SetGrant(m)
    PROVE  ServiceInv' /\ \A t \in Tokens : Forward(t)
<1>1. Proceeds(m, "grant")
  BY DEF SetGrant
<1>2. CallsOK' /\ IdemOK' /\ ClockOK' /\ \A x \in made : (Remembered(x) \/ Elapsed(x))'
  BY <1>1, ProceedsOK
<1>3. MadeOK' /\ Once'
  BY <1>2, MadeKept DEF SetGrant
<1>4. TokensOK' /\ ShownOnce' /\ \A t \in Tokens : Forward(t)
  BY TokensKept DEF ServiceInv, SetGrant
<1> QED BY <1>2, <1>3, <1>4 DEF ServiceInv

LEMMA StepCleanup ==
    ASSUME ServiceInv, NEW t \in 0..high, Cleanup(t)
    PROVE  ServiceInv' /\ \A k \in Tokens : Forward(k)
<1>1. TokensOK' /\ ShownOnce' /\ \A k \in Tokens : Forward(k)
  BY TokensKept DEF ServiceInv, Cleanup
<1>2. ClockOK' /\ CallsOK'
  BY DEF ServiceInv, ClockOK, CallsOK, Cleanup
<1>3. IdemOK'
  BY DEF ServiceInv, IdemOK, Cleanup
<1>4. ASSUME NEW x \in made PROVE (Remembered(x) \/ Elapsed(x))'
  <2>1. x.at \in Nat /\ (Remembered(x) \/ Elapsed(x)) /\ high' = high /\ high \in Nat
    BY DEF ServiceInv, MadeOK, ClockOK, Cleanup
  <2>2. CASE Elapsed(x)
    BY <2>2, <2>1 DEF Elapsed
  <2>3. CASE Remembered(x)
    <3>1. PICK i \in idem : /\ i.endpoint = x.endpoint /\ i.key = x.key
                            /\ i.expires >= x.at + IdemTTL
      BY <2>3 DEF Remembered
    <3>2. CASE ~CleanedUp(i, t)
      BY <3>1, <3>2 DEF Cleanup, Remembered
    <3>3. CASE CleanedUp(i, t)
      <4>1. i.expires \in Nat /\ t \in Nat /\ t <= high
        BY <2>1 DEF ServiceInv, IdemOK
      <4>2. i.expires <= t + 1
        BY <4>1, <3>3, CleanedUpElapsed
      <4> QED BY <4>1, <4>2, <3>1, <2>1, CallsAssumption DEF Elapsed
    <3> QED BY <3>2, <3>3
  <2> QED BY <2>1, <2>2, <2>3
<1>5. MadeOK' /\ Once'
  BY <1>4, MadeKept DEF Cleanup
<1> QED BY <1>1, <1>2, <1>3, <1>5 DEF ServiceInv

LEMMA StepSetClock ==
    ASSUME ServiceInv, NEW t \in Nat, SetClock(t)
    PROVE  ServiceInv' /\ \A k \in Tokens : Forward(k)
<1>1. TokensOK' /\ ShownOnce' /\ \A k \in Tokens : Forward(k)
  BY TokensKept DEF ServiceInv, SetClock, managing
<1>2. high \in Nat /\ high' \in Nat /\ high' >= high /\ now' = t /\ t <= high'
  <2>1. high \in Nat /\ high \in Int /\ t \in Int
    BY DEF ServiceInv, ClockOK
  <2>2. Max({high, t}) \in {high, t} /\ Max({high, t}) >= high /\ Max({high, t}) >= t
    BY <2>1, MaxOfTwo
  <2> QED BY <2>1, <2>2 DEF SetClock
<1>3. ClockOK' /\ CallsOK'
  <2>1. ClockOK'
    BY <1>2 DEF ClockOK
  <2>2. \A m \in Managers : call[m].at \in Nat
    BY DEF ServiceInv, CallsOK
  <2>3. CallsOK'
    BY <2>2, <1>2 DEF ServiceInv, CallsOK, SetClock, managing
  <2> QED BY <2>1, <2>3
<1>4. IdemOK'
  BY DEF ServiceInv, IdemOK, SetClock, managing
<1>5. \A x \in made : (Remembered(x) \/ Elapsed(x))'
  <2> SUFFICES ASSUME NEW x \in made PROVE (Remembered(x) \/ Elapsed(x))'
    OBVIOUS
  <2>1. x.at \in Nat /\ (Remembered(x) \/ Elapsed(x)) /\ idem' = idem
    BY DEF ServiceInv, MadeOK, SetClock, managing
  <2> QED BY <2>1, <1>2, CallsAssumption DEF Remembered, Elapsed
<1>6. MadeOK' /\ Once'
  BY <1>5, MadeKept DEF SetClock, managing
<1> QED BY <1>1, <1>3, <1>4, <1>6 DEF ServiceInv

LEMMA StepService ==
    ASSUME ServiceInv, ServiceNext
    PROVE  ServiceInv' /\ \A t \in Tokens : Forward(t)
<1>1. CASE \E m \in Managers, c \in Calls : CallBegin(m, c)
  BY <1>1, StepCallBegin
<1>2. CASE \E m \in Managers : CallReturns(m) \/ RevokeToken(m) \/ SetGrant(m)
  BY <1>2, StepCallReturns, StepRevokeToken, StepSetGrant
<1>3. CASE \E m \in Managers, g \in Agents : Create(m, g)
  BY <1>3, StepCreate
<1>4. CASE \E m \in Managers, t \in Tokens : IssueToken(m, t)
  BY <1>4, StepIssueToken
<1>5. CASE \E t \in 0..high : Cleanup(t)
  BY <1>5, StepCleanup
<1>6. CASE ChangeRole
  BY <1>6, StepQuiet DEF ChangeRole, managing
<1> QED BY <1>1, <1>2, <1>3, <1>4, <1>5, <1>6 DEF ServiceNext

-----------------------------------------------------------------------------
(***************************************************************************)
(* Requests.                                                               *)
(***************************************************************************)
Pcs == {"free", "inspect", "strict", "check", "authenticate", "audit", "tool",
        "generate", "record", "answer"}
Bodies == {"none", "error", "done", "metadata", "plaintext", "code"}
Request == [pc : Pcs, w : Wishes \cup {NoRequest}, last : Int, failed : BOOLEAN,
            back : BOOLEAN, at : Nat, principal : SUBSET Grant,
            audited : SUBSET {"auth", "read", "generate"}, body : Bodies,
            done : BOOLEAN]

\* The events of a request are written before what they account for is in the
\* buffer.
Accounted(q) ==
    /\ q.pc \in {"tool", "generate", "record"} => "auth" \in q.audited
    /\ q.pc \in {"generate", "record"} => "read" \in q.audited
    /\ q.pc = "answer" => Needed[q.body] \subseteq q.audited

\* The guard has failed when the clock went back, and then nothing but an error
\* is in the buffer; a mutation is done with its answer in the buffer.
Truthful(q) ==
    /\ q.back = TRUE => q.failed = TRUE
    /\ q.failed = TRUE => q.pc = "answer" /\ q.body = "error" /\ q.done = FALSE
    /\ q.done = TRUE => q.pc = "answer" /\ q.body = "done"

RequestOK(q) ==
    /\ q \in Request /\ (q.pc # "free" => q.w \in Wishes)
    /\ Accounted(q) /\ Truthful(q)
RequestsOK ==
    /\ req \in [Reqs -> Request] /\ \A r \in Reqs : RequestOK(req[r])
GrantsOK == grants \in [Agents -> SUBSET Grant]

\* Before the tool is done a request is plain.
Plain(q) == q.failed = FALSE /\ q.back = FALSE /\ q.done = FALSE

LEMMA FreshOK ==
    ASSUME NEW w \in Wishes
    PROVE  /\ RequestOK(Fresh(w)) /\ Plain(Fresh(w)) /\ Fresh(w).pc = "inspect"
           /\ Fresh(w).last = -1 /\ Fresh(w).w = w
<1>1. Fresh(w) \in Request
  BY DEF Fresh, Request, Pcs, Bodies
<1> QED BY <1>1 DEF Fresh, RequestOK, Accounted, Truthful, Plain

LEMMA FreeOK == RequestOK(Free)
<1>1. Fresh(NoRequest) \in Request
  BY DEF Fresh, Request, Pcs, Bodies
<1>2. Free \in Request /\ Free.pc = "free"
  BY <1>1 DEF Free, Request, Pcs
<1>3. Free.back = FALSE /\ Free.failed = FALSE /\ Free.done = FALSE
  BY DEF Free, Fresh
<1> QED BY <1>2, <1>3 DEF RequestOK, Accounted, Truthful

LEMMA RequestTo ==
    ASSUME RequestsOK, NEW r \in Reqs, NEW x, RequestOK(x),
           req' = [req EXCEPT ![r] = x]
    PROVE  RequestsOK'
<1>1. x \in Request
  BY DEF RequestOK
<1>2. req' \in [Reqs -> Request]
  BY <1>1 DEF RequestsOK
<1>3. \A k \in Reqs : req'[k] = IF k = r THEN x ELSE req[k]
  BY DEF RequestsOK
<1> QED BY <1>2, <1>3 DEF RequestsOK

\* Before the answer the guard has not failed.
LEMMA BusyIsPlain ==
    ASSUME NEW q, RequestOK(q), q.pc # "answer"
    PROVE  Plain(q)
<1>1. q.failed \in BOOLEAN /\ q.back \in BOOLEAN /\ q.done \in BOOLEAN
  BY DEF RequestOK, Request
<1>2. q.failed # TRUE /\ q.done # TRUE /\ q.back # TRUE
  BY DEF RequestOK, Truthful
<1> QED BY <1>1, <1>2 DEF Plain

\* What a request is after it has drawn a time: the guard fails exactly when
\* the clock went back.
LEMMA DrawnOK ==
    ASSUME ClockOK, NEW q \in Request, Plain(q)
    PROVE  /\ Drawn(q) \in Request /\ Drawn(q).pc = q.pc /\ Drawn(q).w = q.w
           /\ Drawn(q).audited = q.audited /\ Drawn(q).body = q.body
           /\ Drawn(q).done = FALSE /\ Drawn(q).failed = Drawn(q).back
           /\ q.last = -1 => Drawn(q).failed = FALSE
<1>1. CASE q.w.via = "rest"
  BY <1>1 DEF Drawn, Plain
<1>2. CASE q.w.via # "rest"
  <2>1. CASE now < q.last
    <3>1. (q.failed \/ now < q.last) = TRUE /\ (q.back \/ now < q.last) = TRUE
      BY <2>1
    <3>2. Drawn(q) = [q EXCEPT !.last = q.last, !.failed = TRUE, !.back = TRUE]
      BY <1>2, <2>1, <3>1 DEF Drawn
    <3>3. q.last # -1
      BY <2>1 DEF ClockOK
    <3> QED BY <3>2, <3>3 DEF Request, Plain
  <2>2. CASE ~(now < q.last)
    <3>1. (q.failed \/ now < q.last) = FALSE /\ (q.back \/ now < q.last) = FALSE
      BY <2>2 DEF Plain
    <3>2. Drawn(q) = [q EXCEPT !.last = now, !.failed = FALSE, !.back = FALSE]
      BY <1>2, <2>2, <3>1 DEF Drawn
    <3>3. now \in Int
      BY DEF ClockOK
    <3> QED BY <3>2, <3>3 DEF Request, Plain
  <2> QED BY <2>1, <2>2
<1> QED BY <1>1, <1>2

\* A step before the tool: q is plain but for the guard.
LEMMA StepOK ==
    ASSUME RequestsOK, NEW r \in Reqs, NEW q \in Request, q.w \in Wishes,
           q.failed = q.back, q.done = FALSE, q.pc # "answer", Accounted(q),
           Step(r, q)
    PROVE  RequestsOK'
<1>1. q.failed \in BOOLEAN
  BY DEF Request
<1>2. CASE q.failed = TRUE
  BY <1>2, FreeOK, RequestTo DEF Step
<1>3. CASE q.failed = FALSE
  <2>1. RequestOK(q)
    BY <1>3 DEF RequestOK, Truthful
  <2>2. req' = [req EXCEPT ![r] = q]
    BY <1>3 DEF Step
  <2> QED BY <2>1, <2>2, RequestTo
<1> QED BY <1>1, <1>2, <1>3

\* The answer goes to the buffer with its events.
LEMMA BufferOK ==
    ASSUME RequestsOK, NEW r \in Reqs, NEW q \in Request, q.w \in Wishes,
           q.failed = q.back, NEW body \in Bodies,
           q.failed = FALSE => Needed[body] \subseteq q.audited,
           q.done = TRUE => q.failed = FALSE /\ body = "done", Buffer(r, q, body)
    PROVE  RequestsOK'
<1>0. PICK b \in Bodies : b = IF q.failed THEN "error" ELSE body
  BY DEF Bodies
<1>1. q.failed \in BOOLEAN /\ q.done \in BOOLEAN
  BY DEF Request
<1>2. PICK x : x = [q EXCEPT !.pc = "answer", !.last = -1, !.principal = {}, !.body = b]
  OBVIOUS
<1>3. /\ x \in Request /\ x.pc = "answer" /\ x.w = q.w /\ x.failed = q.failed
      /\ x.back = q.back /\ x.audited = q.audited /\ x.done = q.done /\ x.body = b
  <2>1. PICK p \in SUBSET Grant : p = {}
    OBVIOUS
  <2>2. PICK l \in Int : l = -1
    OBVIOUS
  <2>3. x = [q EXCEPT !.pc = "answer", !.last = l, !.principal = p, !.body = b]
    BY <1>2, <2>1, <2>2
  <2> QED BY <2>3 DEF Request, Pcs
<1>4. req' = [req EXCEPT ![r] = x]
  BY <1>0, <1>2 DEF Buffer
<1>5. CASE q.failed = TRUE
  <2>1. b = "error" /\ q.done = FALSE
    BY <1>0, <1>1, <1>5
  <2>2. Needed[b] = {}
    BY <2>1 DEF Needed
  <2> QED BY <2>1, <2>2, <1>3, <1>4, <1>5, RequestTo DEF RequestOK, Accounted, Truthful
<1>6. CASE q.failed = FALSE
  <2>1. b = body
    BY <1>0, <1>6
  <2> QED BY <2>1, <1>1, <1>3, <1>4, <1>6, RequestTo DEF RequestOK, Accounted, Truthful
<1> QED BY <1>1, <1>5, <1>6

LEMMA StepArrive ==
    ASSUME RequestsOK, ClockOK, NEW r \in Reqs, NEW w \in Wishes, Arrive(r, w)
    PROVE  RequestsOK'
<1>1. PICK q : q = Fresh(w)
  OBVIOUS
<1>2. RequestOK(q) /\ Plain(q) /\ q.pc = "inspect" /\ q.last = -1 /\ q.w = w
  BY <1>1, FreshOK
<1>3. PICK x : x = Drawn(q)
  OBVIOUS
<1>4. /\ x \in Request /\ x.pc = "inspect" /\ x.w = w /\ x.done = FALSE
      /\ x.failed = FALSE /\ x.back = FALSE
  BY <1>2, <1>3, DrawnOK DEF RequestOK
<1>5. RequestOK(x)
  BY <1>4 DEF RequestOK, Accounted, Truthful
<1> QED BY <1>1, <1>3, <1>5, RequestTo DEF Arrive

\* The request that steps, what it is after a draw.
LEMMA ServedOK ==
    ASSUME RequestsOK, ClockOK, NEW r \in Reqs, req[r].pc \notin {"free", "answer"}
    PROVE  /\ RequestOK(req[r]) /\ req[r] \in Request /\ req[r].w \in Wishes
           /\ Plain(req[r])
           /\ Drawn(req[r]) \in Request /\ Drawn(req[r]).pc = req[r].pc
           /\ Drawn(req[r]).w = req[r].w /\ Drawn(req[r]).audited = req[r].audited
           /\ Drawn(req[r]).done = FALSE /\ Drawn(req[r]).failed = Drawn(req[r]).back
           /\ Drawn(req[r]).failed \in BOOLEAN
<1>1. RequestOK(req[r]) /\ req[r] \in Request /\ req[r].w \in Wishes
  BY DEF RequestsOK, RequestOK
<1>2. Plain(req[r])
  BY <1>1, BusyIsPlain
<1>3. PICK q : q = req[r]
  OBVIOUS
<1>4. q \in Request /\ Plain(q)
  BY <1>1, <1>2, <1>3
<1>5. /\ Drawn(q) \in Request /\ Drawn(q).pc = q.pc /\ Drawn(q).w = q.w
      /\ Drawn(q).audited = q.audited
      /\ Drawn(q).done = FALSE /\ Drawn(q).failed = Drawn(q).back
  BY <1>4, DrawnOK
<1>6. Drawn(q).failed \in BOOLEAN
  BY <1>5 DEF Request
<1> QED BY <1>1, <1>2, <1>3, <1>5, <1>6

LEMMA StepBeforeTool ==
    ASSUME RequestsOK, ClockOK, NEW r \in Reqs,
           Refused(r) \/ Inspect(r) \/ Strict(r) \/ AuthenticateCheck(r) \/ AuthAudit(r)
    PROVE  RequestsOK'
<1>1. CASE Refused(r)
  BY <1>1, FreeOK, RequestTo DEF Refused, Ends
<1>2. CASE Inspect(r)
  <2>1. PICK q : q = Drawn(req[r])
    OBVIOUS
  <2>2. PICK x : x = [q EXCEPT !.pc = "strict"]
    OBVIOUS
  <2>3. q \in Request /\ q.w \in Wishes /\ q.done = FALSE /\ q.failed = q.back
    BY <1>2, <2>1, ServedOK DEF Inspect, At
  <2>4. /\ x \in Request /\ x.w \in Wishes /\ x.done = FALSE /\ x.failed = x.back
        /\ x.pc = "strict"
    BY <2>2, <2>3 DEF Request, Pcs
  <2>5. Step(r, x) \/ Ends(r)
    BY <1>2, <2>1, <2>2 DEF Inspect, Goes
  <2>6. CASE Step(r, x)
    BY <2>4, <2>6, StepOK DEF Accounted
  <2>7. CASE Ends(r)
    BY <2>7, FreeOK, RequestTo DEF Ends
  <2> QED BY <2>5, <2>6, <2>7
<1>3. CASE Strict(r)
  <2>1. PICK q : q = Drawn(req[r])
    OBVIOUS
  <2>2. PICK x : x = [q EXCEPT !.pc = "check", !.at = now]
    OBVIOUS
  <2>3. q \in Request /\ q.w \in Wishes /\ q.done = FALSE /\ q.failed = q.back
    BY <1>3, <2>1, ServedOK DEF Strict, At
  <2>4. /\ x \in Request /\ x.w \in Wishes /\ x.done = FALSE /\ x.failed = x.back
        /\ x.pc = "check"
    BY <2>2, <2>3 DEF Request, Pcs, ClockOK
  <2>5. Step(r, x)
    BY <1>3, <2>1, <2>2 DEF Strict
  <2> QED BY <2>4, <2>5, StepOK DEF Accounted
<1>4. CASE AuthenticateCheck(r)
  <2>1. PICK q : q = req[r]
    OBVIOUS
  <2>2. PICK x : x = [q EXCEPT !.pc = "authenticate"]
    OBVIOUS
  <2>3. q \in Request /\ q.w \in Wishes /\ q.done = FALSE /\ q.failed = q.back
    BY <1>4, <2>1, ServedOK DEF AuthenticateCheck, At, Plain
  <2>4. /\ x \in Request /\ x.w \in Wishes /\ x.done = FALSE /\ x.failed = x.back
        /\ x.pc = "authenticate"
    BY <2>2, <2>3 DEF Request, Pcs
  <2>5. Step(r, x) \/ Ends(r)
    BY <1>4, <2>1, <2>2 DEF AuthenticateCheck, Goes
  <2>6. CASE Step(r, x)
    BY <2>4, <2>6, StepOK DEF Accounted
  <2>7. CASE Ends(r)
    BY <2>7, FreeOK, RequestTo DEF Ends
  <2> QED BY <2>5, <2>6, <2>7
<1>5. CASE AuthAudit(r)
  <2>1. PICK q : q = Drawn(req[r])
    OBVIOUS
  <2>2. PICK x : x = [q EXCEPT !.pc = "tool", !.audited = @ \cup {"auth"}]
    OBVIOUS
  <2>3. q \in Request /\ q.w \in Wishes /\ q.done = FALSE /\ q.failed = q.back
    BY <1>5, <2>1, ServedOK DEF AuthAudit, At
  <2>4. /\ x \in Request /\ x.w \in Wishes /\ x.done = FALSE /\ x.failed = x.back
        /\ x.pc = "tool" /\ "auth" \in x.audited
    BY <2>2, <2>3 DEF Request, Pcs
  <2>5. Step(r, x)
    BY <1>5, <2>1, <2>2 DEF AuthAudit
  <2> QED BY <2>4, <2>5, StepOK DEF Accounted
<1> QED BY <1>1, <1>2, <1>3, <1>4, <1>5

LEMMA StepTool ==
    ASSUME RequestsOK, ClockOK, NEW r \in Reqs,
           ToolError(r) \/ ToolList(r) \/ ToolWrite(r)
    PROVE  RequestsOK'
<1>0. PICK q : q = req[r]
  OBVIOUS
<1>1. req[r].pc \in {"tool", "generate", "record"}
  BY DEF ToolError, ToolList, ToolWrite, At
<1>2. /\ q \in Request /\ q.w \in Wishes /\ q.failed = FALSE /\ q.back = FALSE
      /\ q.done = FALSE /\ "auth" \in q.audited
  BY <1>0, <1>1, ServedOK DEF Plain, RequestOK, Accounted
<1>3. CASE ToolError(r)
  <2>1. "error" \in Bodies /\ Needed["error"] = {}
    BY DEF Bodies, Needed
  <2> QED BY <1>0, <1>2, <1>3, <2>1, BufferOK DEF ToolError
<1>4. CASE ToolList(r)
  <2>1. "metadata" \in Bodies /\ Needed["metadata"] = {"auth"}
    BY DEF Bodies, Needed
  <2> QED BY <1>0, <1>2, <1>4, <2>1, BufferOK DEF ToolList
<1>5. CASE ToolWrite(r)
  <2>1. PICK d : d = Drawn(q)
    OBVIOUS
  <2>2. /\ d \in Request /\ d.w \in Wishes /\ d.done = FALSE /\ d.failed = d.back
        /\ d.audited = q.audited /\ d.failed \in BOOLEAN
    BY <1>0, <1>1, <2>1, ServedOK
  <2>3. CASE d.failed /\ Buffer(r, d, "error")
    <3>1. "error" \in Bodies /\ Needed["error"] = {}
      BY DEF Bodies, Needed
    <3> QED BY <2>2, <2>3, <3>1, BufferOK
  <2>4. CASE ~d.failed /\ Buffer(r, [d EXCEPT !.done = TRUE], "done")
    <3>1. PICK x : x = [d EXCEPT !.done = TRUE]
      OBVIOUS
    <3>2. d.failed = FALSE
      BY <2>2, <2>4, Zenon
    <3>3. /\ x \in Request /\ x.w \in Wishes /\ x.failed = FALSE /\ x.back = FALSE
          /\ "auth" \in x.audited
      BY <1>2, <2>2, <3>1, <3>2 DEF Request
    <3>4. "done" \in Bodies /\ Needed["done"] = {"auth"}
      BY DEF Bodies, Needed
    <3> QED BY <2>4, <3>1, <3>3, <3>4, BufferOK
  <2> QED BY <1>0, <1>5, <2>1, <2>3, <2>4 DEF ToolWrite
<1> QED BY <1>3, <1>4, <1>5

LEMMA StepToolRead ==
    ASSUME RequestsOK, ClockOK, NEW r \in Reqs,
           ToolGet(r) \/ ToolGenerate(r) \/ ToolRecord(r)
    PROVE  RequestsOK'
<1>1. req[r].pc \in {"tool", "generate", "record"}
  BY DEF ToolGet, ToolGenerate, ToolRecord, At
<1>2. PICK q : q = Drawn(req[r])
  OBVIOUS
<1>3. /\ q \in Request /\ q.w \in Wishes /\ q.done = FALSE /\ q.failed = q.back
      /\ q.failed \in BOOLEAN /\ "auth" \in q.audited
      /\ req[r].pc \in {"generate", "record"} => "read" \in q.audited
  BY <1>1, <1>2, ServedOK DEF RequestOK, Accounted
<1>4. CASE q.failed /\ Buffer(r, q, "error")
  <2>1. "error" \in Bodies /\ Needed["error"] = {}
    BY DEF Bodies, Needed
  <2> QED BY <1>3, <1>4, <2>1, BufferOK
<1>5. ASSUME ~q.failed, NEW x \in Request, x.w = q.w, x.failed = q.failed, x.back = q.back,
             x.done = q.done, x.pc \in {"generate", "record"}, Accounted(x),
             req' = [req EXCEPT ![r] = x]
      PROVE  RequestsOK'
  <2>1. q.failed = FALSE
    BY <1>3, <1>5, Zenon
  <2>2. RequestOK(x)
    BY <2>1, <1>3, <1>5 DEF RequestOK, Truthful
  <2> QED BY <1>5, <2>2, RequestTo
<1>6. CASE ToolGet(r) /\ ~q.failed
  <2>1. PICK x : x = [q EXCEPT !.audited = @ \cup {"read"}]
    OBVIOUS
  <2>2. /\ x \in Request /\ x.w = q.w /\ x.failed = q.failed /\ x.back = q.back
        /\ x.done = q.done /\ {"auth", "read"} \subseteq x.audited
    BY <1>3, <2>1 DEF Request
  <2>3. CASE Buffer(r, x, "plaintext")
    <3>1. "plaintext" \in Bodies /\ Needed["plaintext"] = {"auth", "read"}
      BY DEF Bodies, Needed
    <3> QED BY <2>2, <2>3, <3>1, <1>3, BufferOK
  <2>4. CASE req' = [req EXCEPT ![r] = [x EXCEPT !.pc = "generate"]]
    <3>1. PICK y : y = [x EXCEPT !.pc = "generate"]
      OBVIOUS
    <3>2. /\ y \in Request /\ y.w = q.w /\ y.failed = q.failed /\ y.back = q.back
          /\ y.done = q.done /\ {"auth", "read"} \subseteq y.audited /\ y.pc = "generate"
      BY <2>2, <3>1 DEF Request, Pcs
    <3>3. Accounted(y)
      BY <3>2 DEF Accounted
    <3> QED BY <1>5, <1>6, <2>4, <3>1, <3>2, <3>3
  <2> QED BY <1>2, <1>6, <2>1, <2>3, <2>4 DEF ToolGet
<1>7. CASE ToolGenerate(r) /\ ~q.failed
  <2>1. PICK y : y = [q EXCEPT !.pc = "record"]
    OBVIOUS
  <2>2. "read" \in q.audited
    BY <1>3, <1>7 DEF ToolGenerate, At
  <2>3. /\ y \in Request /\ y.w = q.w /\ y.failed = q.failed /\ y.back = q.back
        /\ y.done = q.done /\ {"auth", "read"} \subseteq y.audited /\ y.pc = "record"
    BY <1>3, <2>1, <2>2 DEF Request, Pcs
  <2>4. Accounted(y)
    BY <2>3 DEF Accounted
  <2>5. req' = [req EXCEPT ![r] = y]
    BY <1>2, <1>7, <2>1 DEF ToolGenerate
  <2> QED BY <1>5, <1>7, <2>3, <2>4, <2>5
<1>8. CASE ToolRecord(r) /\ ~q.failed
  <2>1. PICK x : x = [q EXCEPT !.audited = @ \cup {"generate"}]
    OBVIOUS
  <2>2. "read" \in q.audited
    BY <1>3, <1>8 DEF ToolRecord, At
  <2>3. /\ x \in Request /\ x.w = q.w /\ x.failed = q.failed /\ x.back = q.back
        /\ x.done = q.done /\ {"auth", "read", "generate"} \subseteq x.audited
    BY <1>3, <2>1, <2>2 DEF Request
  <2>4. "code" \in Bodies /\ Needed["code"] = {"auth", "read", "generate"}
    BY DEF Bodies, Needed
  <2>5. Buffer(r, x, "code")
    BY <1>2, <1>8, <2>1 DEF ToolRecord
  <2> QED BY <1>3, <2>3, <2>4, <2>5, BufferOK
<1> QED BY <1>2, <1>4, <1>6, <1>7, <1>8 DEF ToolGet, ToolGenerate, ToolRecord

\* The transaction repeats the checks: it uses a token that is issued, not
\* revoked, and not used at a later time.
LEMMA StepAuthenticate ==
    ASSUME ServiceInv, RequestsOK, GrantsOK, NEW r \in Reqs, Authenticate(r)
    PROVE  RequestsOK' /\ ServiceInv' /\ \A k \in Tokens : Forward(k)
<1>0. PICK q : q = req[r]
  OBVIOUS
<1>1. /\ q \in Request /\ q.w \in Wishes /\ q.failed = FALSE /\ q.back = FALSE
      /\ q.done = FALSE
  BY <1>0, ServedOK DEF Authenticate, At, Plain, ServiceInv
<1>2. PICK t \in Tokens : t = q.w.token
  BY <1>1, WishesAssumption
<1>3. q.at \in Int
  BY <1>1 DEF Request
<1>4. CASE ~validateAuthenticationCandidate(t, q.at)
  <2>1. tokens' = tokens /\ Ends(r)
    BY <1>0, <1>2, <1>4 DEF Authenticate, Goes
  <2>2. RequestsOK'
    BY <2>1, FreeOK, RequestTo DEF Ends
  <2> QED BY <2>1, <2>2, StepQuiet DEF Authenticate, managing
<1>5. CASE validateAuthenticationCandidate(t, q.at)
  <2>1. /\ tokens[t] \in Row /\ Issued(t) /\ ~tokens[t].revoked
        /\ tokens[t].agent \in Agents
    BY <1>5 DEF validateAuthenticationCandidate, ServiceInv, TokensOK
  <2>2. tokens[t].used \in Int
    BY <2>1 DEF Row
  <2>3. PICK u \in Int : u = Max({tokens[t].used, q.at}) /\ u >= tokens[t].used
    <3>1. PICK a \in Int, b \in Int : a = tokens[t].used /\ b = q.at
      BY <2>2, <1>3
    <3>2. Max({a, b}) \in {a, b} /\ Max({a, b}) >= a
      BY MaxOfTwo
    <3> QED BY <3>1, <3>2
  <2>4. PICK new : new = [tokens[t] EXCEPT !.used = u]
    OBVIOUS
  <2>5. /\ new \in Row /\ new.agent = tokens[t].agent /\ new.used = u
        /\ new.used >= tokens[t].used
    BY <2>1, <2>3, <2>4 DEF Row
  <2>6. tokens' = [tokens EXCEPT ![t] = new]
    BY <1>0, <1>2, <1>5, <2>3, <2>4 DEF Authenticate, Used
  <2>7. shown' = shown
    BY DEF Authenticate, managing
  <2>8. TokensOK' /\ ShownOnce' /\ \A k \in Tokens : Forward(k)
    BY <2>1, <2>5, <2>6, <2>7, TokenTo DEF ServiceInv
  <2>9. ClockOK' /\ CallsOK' /\ IdemOK'
    BY DEF ServiceInv, ClockOK, CallsOK, IdemOK, Authenticate, managing
  <2>10. \A x \in made : (Remembered(x) \/ Elapsed(x))'
    BY DEF ServiceInv, MadeOK, Remembered, Elapsed, Authenticate, managing
  <2>11. MadeOK' /\ Once'
    BY <2>10, MadeKept DEF Authenticate, managing
  <2>12. PICK p \in SUBSET Grant : p = grants[tokens[t].agent]
    BY <2>1 DEF GrantsOK
  <2>13. PICK x : x = [q EXCEPT !.pc = "audit", !.at = 0, !.principal = p]
    OBVIOUS
  <2>14. /\ x \in Request /\ x.w \in Wishes /\ x.failed = FALSE /\ x.back = FALSE
         /\ x.done = FALSE /\ x.pc = "audit"
    BY <1>1, <2>13 DEF Request, Pcs
  <2>15. Step(r, x)
    BY <1>0, <1>2, <1>5, <2>12, <2>13 DEF Authenticate, Goes
  <2>16. RequestsOK'
    BY <2>14, <2>15, StepOK DEF Accounted
  <2> QED BY <2>8, <2>9, <2>11, <2>16 DEF ServiceInv
<1> QED BY <1>4, <1>5

LEMMA StepAnswer ==
    ASSUME RequestsOK, NEW r \in Reqs, Answer(r)
    PROVE  RequestsOK'
  BY FreeOK, RequestTo DEF Answer, Ends

-----------------------------------------------------------------------------
(***************************************************************************)
(* The inductive invariant.                                                *)
(***************************************************************************)
IInv == ServiceInv /\ GrantsOK /\ RequestsOK

LEMMA InitIInv == Init => IInv
<1> SUFFICES ASSUME Init PROVE IInv
  OBVIOUS
<1>1. ServiceInv
  BY InitService DEF Init
<1>2. GrantsOK
  BY CallsAssumption DEF Init, ServiceInit, GrantsOK
<1>3. Free \in Request
  BY FreeOK DEF RequestOK
<1>4. RequestsOK
  BY <1>3, FreeOK DEF Init, RequestsOK
<1> QED BY <1>1, <1>2, <1>4 DEF IInv

LEMMA GrantsKept ==
    ASSUME IInv, Next
    PROVE  GrantsOK'
<1>1. CASE grants' = grants
  BY <1>1 DEF IInv, GrantsOK
<1>2. ASSUME NEW m \in Managers, SetGrant(m) PROVE GrantsOK'
  <2>1. call[m].c \in Calls
    BY <1>2, ProceedsOK DEF SetGrant, IInv
  <2>2. PICK c \in Call : c = call[m].c
    BY <2>1, CallsAssumption
  <2>3. c.agent \in Agents /\ c.grant \in Grant
    BY DEF Call
  <2>4. grants' = [grants EXCEPT ![c.agent] =
                     {x \in grants[c.agent] : x.space # c.grant.space} \cup {c.grant}]
    BY <1>2, <2>2, <2>3 DEF SetGrant, IInv, GrantsOK
  <2> QED BY <2>3, <2>4 DEF IInv, GrantsOK
<1>3. CASE ServiceNext
  BY <1>1, <1>2, <1>3 DEF ServiceNext, CallBegin, CallReturns, Create, IssueToken,
     RevokeToken, Cleanup, ChangeRole
<1>4. ASSUME NEW r \in Reqs, Serve(r) \/ \E w \in Wishes : Arrive(r, w)
      PROVE  GrantsOK'
  BY <1>1, <1>4 DEF Serve, Arrive, Refused, Inspect, Strict, AuthenticateCheck, Authenticate,
     AuthAudit, ToolError, ToolList, ToolGet, ToolGenerate, ToolRecord, ToolWrite, Answer,
     serviceVars
<1>5. CASE Tick \/ SetBack
  BY <1>1, <1>5 DEF Tick, SetBack, SetClock
<1> QED BY <1>3, <1>4, <1>5 DEF Next

LEMMA StepIInv ==
    ASSUME IInv, [Next]_vars
    PROVE  IInv' /\ \A t \in Tokens : Forward(t)
<1>1. CASE ServiceNext /\ UNCHANGED requestVars
  <2>1. ServiceInv' /\ \A t \in Tokens : Forward(t)
    BY <1>1, StepService DEF IInv
  <2>2. RequestsOK'
    BY <1>1 DEF IInv, RequestsOK, requestVars
  <2>3. GrantsOK'
    BY <1>1, GrantsKept DEF Next
  <2> QED BY <2>1, <2>2, <2>3 DEF IInv
<1>2. ASSUME NEW r \in Reqs, Serve(r) \/ \E w \in Wishes : Arrive(r, w)
      PROVE  IInv' /\ \A t \in Tokens : Forward(t)
  <2>1. GrantsOK'
    BY <1>2, GrantsKept DEF Next
  <2>2. CASE Authenticate(r)
    BY <2>1, <2>2, StepAuthenticate DEF IInv
  <2>3. CASE \E w \in Wishes : Arrive(r, w)
    <3>1. RequestsOK'
      BY <2>3, StepArrive DEF IInv, ServiceInv
    <3>2. UNCHANGED serviceVars
      BY <2>3 DEF Arrive
    <3> QED BY <2>1, <3>1, <3>2, StepQuiet DEF IInv, serviceVars, managing
  <2>4. CASE Refused(r) \/ Inspect(r) \/ Strict(r) \/ AuthenticateCheck(r) \/ AuthAudit(r)
    <3>1. RequestsOK'
      BY <2>4, StepBeforeTool DEF IInv, ServiceInv
    <3>2. UNCHANGED serviceVars
      BY <2>4 DEF Refused, Inspect, Strict, AuthenticateCheck, AuthAudit
    <3> QED BY <2>1, <3>1, <3>2, StepQuiet DEF IInv, serviceVars, managing
  <2>5. CASE ToolError(r) \/ ToolList(r) \/ ToolWrite(r)
    <3>1. RequestsOK'
      BY <2>5, StepTool DEF IInv, ServiceInv
    <3>2. UNCHANGED serviceVars
      BY <2>5 DEF ToolError, ToolList, ToolWrite
    <3> QED BY <2>1, <3>1, <3>2, StepQuiet DEF IInv, serviceVars, managing
  <2>6. CASE ToolGet(r) \/ ToolGenerate(r) \/ ToolRecord(r)
    <3>1. RequestsOK'
      BY <2>6, StepToolRead DEF IInv, ServiceInv
    <3>2. UNCHANGED serviceVars
      BY <2>6 DEF ToolGet, ToolGenerate, ToolRecord
    <3> QED BY <2>1, <3>1, <3>2, StepQuiet DEF IInv, serviceVars, managing
  <2>7. CASE Answer(r)
    <3>1. RequestsOK'
      BY <2>7, StepAnswer DEF IInv
    <3>2. UNCHANGED serviceVars
      BY <2>7 DEF Answer
    <3> QED BY <2>1, <3>1, <3>2, StepQuiet DEF IInv, serviceVars, managing
  <2> QED BY <1>2, <2>2, <2>3, <2>4, <2>5, <2>6, <2>7 DEF Serve
<1>3. CASE Tick \/ SetBack
  <2>1. PICK t \in Nat : SetClock(t)
    BY <1>3 DEF Tick, SetBack, IInv, ServiceInv, ClockOK
  <2>2. req' = req
    BY <1>3 DEF Tick, SetBack, requestVars
  <2>3. GrantsOK'
    BY <1>3, GrantsKept DEF Next
  <2>4. ServiceInv' /\ \A k \in Tokens : Forward(k)
    BY <2>1, StepSetClock DEF IInv
  <2> QED BY <2>2, <2>3, <2>4 DEF IInv, RequestsOK
<1>4. CASE UNCHANGED vars
  <2>1. UNCHANGED <<tokens, shown, now, high, call, idem, made>> /\ UNCHANGED <<req, grants>>
    BY <1>4 DEF vars, serviceVars, requestVars, managing
  <2> QED BY <2>1, StepQuiet DEF IInv, RequestsOK, GrantsOK
<1> QED BY <1>1, <1>2, <1>3, <1>4 DEF Next

LEMMA Inductive == Spec => []IInv
<1>1. IInv /\ [Next]_vars => IInv'
  BY StepIInv
<1> QED BY InitIInv, <1>1, PTL DEF Spec

-----------------------------------------------------------------------------
(***************************************************************************)
(* The theorems.                                                           *)
(***************************************************************************)

\* Under one endpoint and key the agent service creates nothing a second time
\* before the lifetime of its record has passed, whatever order calls, retries
\* and cleanups sample the clock in; and it returns the raw value of a token at
\* most once, with the row of the token committed.
THEOREM CreatesOncePerKey == Spec => []CreatedOncePerKey
<1>1. IInv => CreatedOncePerKey
  BY DEF IInv, ServiceInv, Once, ShownOnce, CreatedOncePerKey
<1> QED BY <1>1, Inductive, PTL

\* Whatever an agent is answered, the audit events that the answer needs were
\* written before: a write of an event that fails ends the request.
THEOREM AnswersAreAudited == Spec => []AnswerAudited
<1>1. ASSUME IInv PROVE AnswerAudited
  <2> SUFFICES ASSUME NEW r \in Reqs, At(r, "answer")
               PROVE  Needed[Sent(req[r])] \subseteq req[r].audited
    BY DEF AnswerAudited
  <2>1. RequestOK(req[r]) /\ req[r].pc = "answer"
    BY <1>1 DEF IInv, RequestsOK, At
  <2>2. Needed["error"] = {}
    BY DEF Needed
  <2> QED BY <2>1, <2>2 DEF Sent, RequestOK, Accounted
<1> QED BY <1>1, Inductive, PTL

\* An MCP request between two of whose times the clock went back is answered
\* with an error, and a mutation that committed is reported as done.
THEOREM AnswersAreHonest == Spec => []AnswerHonest
<1>1. ASSUME IInv PROVE AnswerHonest
  <2> SUFFICES ASSUME NEW r \in Reqs, At(r, "answer")
               PROVE  /\ req[r].w.via = "mcp" /\ req[r].back => Sent(req[r]) = "error"
                      /\ req[r].done => Sent(req[r]) = "done"
    BY DEF AnswerHonest
  <2>1. RequestOK(req[r]) /\ req[r] \in Request
    BY <1>1 DEF IInv, RequestsOK, RequestOK
  <2>2. req[r].back \in BOOLEAN /\ req[r].done \in BOOLEAN /\ req[r].failed \in BOOLEAN
    BY <2>1 DEF Request
  <2>3. ASSUME req[r].back PROVE Sent(req[r]) = "error"
    <3>1. req[r].back = TRUE
      BY <2>2, <2>3, Zenon
    <3> QED BY <3>1, <2>1 DEF RequestOK, Truthful, Sent
  <2>4. ASSUME req[r].done PROVE Sent(req[r]) = "done"
    <3>1. req[r].done = TRUE
      BY <2>2, <2>4, Zenon
    <3>2. req[r].failed = FALSE /\ req[r].body = "done"
      BY <3>1, <2>1, <2>2 DEF RequestOK, Truthful
    <3> QED BY <3>2 DEF Sent
  <2> QED BY <2>3, <2>4
<1> QED BY <1>1, Inductive, PTL

\* The record of a token only moves forward, though its use is checked before
\* the transaction that records it.
THEOREM TokensMoveForward == Spec => TokenHistoryForward
<1>1. IInv /\ [Next]_vars
        => [\A t \in Tokens : Issued(t) =>
              /\ tokens'[t].used >= tokens[t].used
              /\ tokens[t].revoked => tokens'[t] = tokens[t]]_tokens
  BY StepIInv DEF Forward
<1> QED BY <1>1, Inductive, PTL DEF Spec, TokenHistoryForward
=============================================================================
