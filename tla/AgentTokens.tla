---------------------------- MODULE AgentTokens ----------------------------
(***************************************************************************)
(* The agent service: a human creates agents, issues and revokes their     *)
(* tokens and sets their grants, each under an idempotency key; an agent   *)
(* is authenticated by its token.  A managing call samples the clock and   *)
(* then executes one write transaction; a transaction that fails leaves no *)
(* trace.  No operation deletes an agent, so none is deleted here.  A tick *)
(* of the clock is half a second.                                          *)
(***************************************************************************)
EXTENDS Authorization, Integers, FiniteSetsExt

CONSTANTS
    Tokens,         \* identifiers of tokens; a token stands for its raw value
    Managers,       \* slots of concurrent managing calls
    Calls,          \* what a managing call may ask: see Call
    InitialAgents,  \* agents that exist at the start
    InitialGrants,  \* and the grants they have
    IdemTTL,        \* humanIdempotencyLifetime
    MaxTime,        \* bound of the clock
    MaxCalls,       \* bound of the managing calls
    NoToken, NoCall

VARIABLES
    agents, tokens, grants,
    idem,           \* human_agent_idempotency_records
    system,         \* system role of the human
    now,
    high,           \* the highest time the clock has shown
    call,           \* slot -> [c, at]: a call and the time it sampled
    calls,          \* number of managing calls so far
    shown,          \* how often the raw value of each token was returned
    made            \* [endpoint, key, id, at, high] of everything created

managing == <<idem, call, calls, shown, made>>
serviceVars == <<agents, tokens, grants, managing, system, now, high>>

\* A call; expires is the time a new token ends, 0: never.
Call == [op : {"create", "issue", "revoke", "grant"}, key : STRING,
         agent : Agents, token : Tokens \cup {NoToken}, expires : Nat,
         grant : Grant]

ASSUME CallsAssumption ==
    /\ Calls \subseteq Call /\ NoCall \notin Calls /\ NoToken \notin Agents
    /\ InitialGrants \in [Agents -> SUBSET Grant] /\ IdemTTL \in Nat

NoRow == [agent |-> NoToken, created |-> 0, expires |-> 0, revoked |-> FALSE,
          used |-> -1]
Issued(t) == tokens[t] # NoRow
FreeSlot == [c |-> NoCall, at |-> 0]

ServiceInit ==
    /\ agents = InitialAgents /\ tokens = [t \in Tokens |-> NoRow]
    /\ grants = InitialGrants /\ idem = {} /\ system = "system_admin"
    /\ now = 0 /\ high = 0
    /\ call = [m \in Managers |-> FreeSlot] /\ calls = 0
    /\ shown = [t \in Tokens |-> 0] /\ made = {}

(***************************************************************************)
(* The managing calls.                                                     *)
(***************************************************************************)
Endpoint(c) == CASE c.op = "create" -> <<"create">>
                 [] c.op = "issue" -> <<"issue", c.agent>>
                 [] c.op = "revoke" -> <<"revoke", c.token>>
                 [] c.op = "grant" -> <<"grant", c.agent, c.grant.space>>

\* The key is no part of what is hashed.
humanRequestHash(c) == [c EXCEPT !.key = ""]

Action(c) == CASE c.op = "create" -> "agent.create"
               [] c.op = "issue" -> "agent.token.issue"
               [] c.op = "revoke" -> "agent.token.revoke"
               [] c.op = "grant" -> "agent.grant.manage"

\* The role is the one of the transaction.
Authorized(c) ==
    LET p == [kind |-> "human", authenticated |-> TRUE, system |-> system,
              roles |-> [s \in Spaces |-> "none"], grants |-> {}]
        res == [space |-> IF c.op = "grant" THEN c.grant.space ELSE NoSpace,
                labels |-> {}]
    IN  DecisionForHuman(p, res, Action(c)) = "allowed"

requireActiveAgentTx(c) == c.op \in {"issue", "grant"} => c.agent \in agents

Records(c) == {i \in idem : i.endpoint = Endpoint(c) /\ i.key = c.key}

checkHumanIdempotency(c, t) ==
    IF Records(c) = {} \/ \E i \in Records(c) : t >= i.expires THEN "new"
    ELSE IF \E i \in Records(c) : i.hash # humanRequestHash(c) THEN "conflict"
    ELSE "found"

saveHumanIdempotency(c, t) ==
    (idem \ Records(c)) \cup
    {[endpoint |-> Endpoint(c), key |-> c.key, hash |-> humanRequestHash(c),
      expires |-> t + IdemTTL]}

Made(c, t, id) ==
    [endpoint |-> Endpoint(c), key |-> c.key, id |-> id, at |-> t, high |-> high]

CallBegin(m, c) ==
    /\ call[m] = FreeSlot /\ calls < MaxCalls
    /\ calls' = calls + 1
    /\ call' = [call EXCEPT ![m] = [c |-> c, at |-> now]]
    /\ UNCHANGED <<agents, tokens, grants, idem, system, now, high, shown, made>>

EndCall(m) == call' = [call EXCEPT ![m] = FreeSlot]

\* Mutant: a replay of an issue returns the raw value again.
CallReturns_RawAgain(m) ==
    LET c == call[m].c
        again == {x.id : x \in {y \in made : y.endpoint = Endpoint(c) /\ y.key = c.key}}
    IN  /\ call[m] # FreeSlot /\ EndCall(m)
        /\ shown' = [t \in Tokens |-> IF t \in again THEN shown[t] + 1 ELSE shown[t]]
        /\ UNCHANGED <<agents, tokens, grants, idem, system, now, high, calls, made>>

\* A refusal (of the input, of the role, for want of a recent TOTP code), a
\* conflict, a replay, or a transaction that fails: nothing changes.  A replay
\* returns what is stored, and never the raw value.
CallReturns(m) ==
    /\ call[m] # FreeSlot /\ EndCall(m)
    /\ UNCHANGED <<agents, tokens, grants, idem, system, now, high, calls,
                   shown, made>>

Proceeds(m, op) ==
    LET c == call[m].c
    IN  /\ call[m] # FreeSlot /\ c.op = op
        /\ Authorized(c) /\ requireActiveAgentTx(c)
        /\ checkHumanIdempotency(c, call[m].at) = "new"
        /\ idem' = saveHumanIdempotency(c, call[m].at)
        /\ EndCall(m)
        /\ UNCHANGED <<system, now, high, calls>>

Create(m, g) ==
    /\ Proceeds(m, "create") /\ g \notin agents /\ agents' = agents \cup {g}
    /\ made' = made \cup {Made(call[m].c, call[m].at, g)}
    /\ UNCHANGED <<tokens, grants, shown>>

IssueToken(m, t) ==
    LET c == call[m].c
        at == call[m].at
    IN  /\ Proceeds(m, "issue") /\ ~Issued(t)
        /\ c.expires = 0 \/ c.expires > at
        /\ tokens' = [tokens EXCEPT ![t] =
             [agent |-> c.agent, created |-> at, revoked |-> FALSE, used |-> -1,
              expires |-> c.expires]]
        /\ shown' = [shown EXCEPT ![t] = @ + 1]
        /\ made' = made \cup {Made(c, at, t)}
        /\ UNCHANGED <<agents, grants>>

\* A second revocation, under another key, is recorded and keeps the first.
RevokeToken(m) ==
    /\ Proceeds(m, "revoke") /\ Issued(call[m].c.token)
    /\ tokens' = [tokens EXCEPT ![call[m].c.token].revoked = TRUE]
    /\ UNCHANGED <<agents, grants, shown, made>>

SetGrant(m) ==
    LET c == call[m].c
    IN  /\ Proceeds(m, "grant") /\ c.grant.scopes # {}
        /\ grants' = [grants EXCEPT ![c.agent] =
             {x \in @ : x.space # c.grant.space} \cup {c.grant}]
        /\ UNCHANGED <<agents, tokens, shown, made>>

\* Mutant: a record goes by the time it was made.
CleanedUp_Created(i, t) == (i.expires - IdemTTL) \div 2 <= t \div 2

\* expires_at <= ? on text: a stored time has nine digits and the cutoff drops a
\* zero fraction, so that a whole second sorts after the fractions that follow
\* it.  With two ticks to a second this compares seconds.
CleanedUp(i, t) == i.expires \div 2 <= t \div 2

\* cleanupExpiredState of the scheduler, at a time sampled before.
Cleanup(t) ==
    /\ idem' = {i \in idem : ~CleanedUp(i, t)}
    /\ idem' # idem
    /\ UNCHANGED <<agents, tokens, grants, system, now, high, call, calls,
                   shown, made>>

(***************************************************************************)
(* Authentication.                                                         *)
(***************************************************************************)

\* Mutant: expiry alone is checked.
validateAuthenticationCandidate_Expiry(t, at) ==
    Issued(t) /\ (tokens[t].expires = 0 \/ at < tokens[t].expires)

validateAuthenticationCandidate(t, at) ==
    /\ Issued(t) /\ ~tokens[t].revoked
    /\ tokens[t].expires = 0 \/ at < tokens[t].expires
    /\ at >= tokens[t].created /\ at >= tokens[t].used

\* The UPDATE of the authenticating transaction, whose WHERE repeats the checks.
Used(t, at) == [tokens EXCEPT ![t].used = Max({@, at})]

(***************************************************************************)
(* What other components do: a change of the human's role, and the clock,  *)
(* which may be set back.                                                  *)
(***************************************************************************)
ChangeRole ==
    /\ system = "system_admin" /\ system' = "member"
    /\ UNCHANGED <<agents, tokens, grants, managing, now, high>>
SetClock(t) ==
    /\ now' = t /\ high' = Max({high, t})
    /\ UNCHANGED <<agents, tokens, grants, managing, system>>

ServiceNext ==
    \/ \E m \in Managers :
         \/ \E c \in Calls : CallBegin(m, c)
         \/ CallReturns(m)
         \/ \E g \in Agents : Create(m, g)
         \/ \E t \in Tokens : IssueToken(m, t)
         \/ RevokeToken(m) \/ SetGrant(m)
    \/ \E t \in 0..high : Cleanup(t)
    \/ ChangeRole

(***************************************************************************)
(* Properties of the service.                                              *)
(***************************************************************************)

\* A repeated call does nothing twice.  Under one key and endpoint nothing is
\* created a second time before the lifetime of the record has passed on the
\* clock, up to the fraction of a second by which text and time differ, although
\* a retry may have sampled the clock before a cleanup that sampled it later; and
\* the raw value of a token is returned at most once, with its row committed.
CreatedOncePerKey ==
    /\ \A x, y \in made :
         (x.endpoint = y.endpoint /\ x.key = y.key /\ x.id # y.id)
           => Max({x.high, y.high}) - Min({x.at, y.at}) >= IdemTTL - 1
    /\ \A t \in Tokens : shown[t] <= 1 /\ (shown[t] = 1 <=> Issued(t))

\* The record of a token only moves forward: its last use never goes back, it
\* is never unrevoked, and once it is revoked its last use stands, though an
\* authentication checked the token before the revocation.
TokenHistoryForward ==
    [][\A t \in Tokens : Issued(t) =>
         /\ tokens'[t].used >= tokens[t].used
         /\ tokens[t].revoked => tokens'[t] = tokens[t]]_tokens
=============================================================================
