---------------------------- MODULE Credentials ----------------------------
(***************************************************************************)
(* The credential service of internal/credentials: versioned encrypted     *)
(* credentials behind an authorization policy, with an audit event in the  *)
(* transaction of every change, an idempotency record for every change an  *)
(* agent makes, a recycle bin, and the nightly maintenance that empties it *)
(* (internal/maintenance).                                                 *)
(*                                                                         *)
(* Requests are concurrent: each occupies a slot and advances by one       *)
(* database access at a time.  A read outside a transaction is one step    *)
(* per SQL statement; a transaction (storage.WithTx, one writer            *)
(* connection) is one step, which commits or rolls back.                   *)
(*                                                                         *)
(* A tick of the clock is half a second.  Times are stored as RFC3339Nano  *)
(* text, which drops a zero fraction, and SQL compares that text: see      *)
(* module Timestamps.                                                      *)
(***************************************************************************)
EXTENDS Timestamps, FiniteSets, Authorization

CONSTANTS
    Creds,          \* identifiers randomCredentialID may return
    Keys,           \* idempotency keys
    Payloads,       \* credential payloads
    Assets,         \* asset identifiers
    AssetSpace,     \* the Space of each asset
    Reqs,           \* request slots of the server
    Requests,       \* the requests clients may send
    NoCred, NoKey, NoPayload, NoRecord, NoReq,
    Keep,           \* an update field left out of the input
    IdemTTL,        \* retention of an idempotency record, in ticks
    Retention,      \* time in the recycle bin, in ticks
    Interval,       \* DailyInterval: the period of the maintenance, in ticks
    MaxVersion,     \* bound on the version of a credential
    MaxTime,        \* the clock stops there: MaxTime or later
    MaxRequests     \* bound on the number of requests begun

Versions == 1..MaxVersion
WriteOps == { "create", "update", "delete", "restore", "purge" }
IdemOps == { "create", "update", "delete" }
Ops == WriteOps \cup { "get", "purge_expired" }

\* A request.  space is the Space of the URL or of the tool call: the Space
\* of a new credential, the BoundSpaceID of every other operation.
Request ==
    [ p : Principal, op : Ops, cred : Creds \cup { NoCred }, space : Spaces,
      ver : 0..MaxVersion, labels : { Keep } \cup SUBSET Labels,
      links : { Keep } \cup SUBSET Assets, payload : Payloads \cup { Keep },
      key : Keys \cup { NoKey } ]

WellFormed(q) ==
    /\ q \in Request
    /\ q.p.authenticated
    /\ q.p.id \in IF q.p.kind = "agent" THEN Agents ELSE Users
    /\ q.op \in { "create", "purge_expired" } <=> q.cred = NoCred
    /\ q.op = "create" => /\ q.labels # Keep
                          /\ q.links # Keep
                          /\ q.payload # Keep
    /\ q.op = "update" => q.ver < MaxVersion

ASSUME RequestsAssumption == \A q \in Requests : WellFormed(q)

\* A server has finitely many requests in progress.
ASSUME ReqsAssumption == IsFiniteSet(Reqs)

\* A day and thirty days are whole numbers of seconds: even in ticks.
ASSUME TimesAssumption ==
    /\ IdemTTL \in Nat /\ IdemTTL % 2 = 0
    /\ Retention \in Nat /\ Retention % 2 = 0
    /\ Interval \in Nat \ {0}
    /\ MaxVersion \in Nat \ {0} /\ MaxTime \in Nat /\ MaxRequests \in Nat

ASSUME NullsAssumption ==
    /\ NoCred \notin Creds /\ NoKey \notin Keys /\ NoPayload \notin Payloads
    /\ Keep \notin Payloads /\ NoReq \notin Requests
    /\ \A L \in SUBSET Labels : Keep # L
    /\ \A A \in SUBSET Assets : Keep # A
    /\ Users \cap Agents = {}
    /\ AssetSpace \in [Assets -> Spaces]

VARIABLES
    row,        \* table credentials with its tags and asset links
    versions,   \* table credential_versions: the payload of each version
    idem,       \* table idempotency_records
    trail,      \* number of success events of each kind in audit_events
    slot,       \* the requests in progress
    maint,      \* Scheduler.RunOnce in progress
    ticker,     \* the ticker of Scheduler.loop
    now,        \* the clock
    begun,      \* number of requests begun
    execs,      \* history: the changes agents made
    delivered   \* history: plaintexts returned to callers

tables == << row, versions, idem, trail, execs >>
vars == << tables, slot, maint, ticker, now, begun, delivered >>

-----------------------------------------------------------------------------
(***************************************************************************)
(* Data.                                                                   *)
(***************************************************************************)

States == { "free", "live", "deleted", "purged" }

Row ==
    [ state : States,
      space : Spaces \cup { NoSpace }, ver : 0..MaxVersion,
      labels : SUBSET Labels, links : SUBSET Assets, deletedAt : Nat ]

IdemKeys == [agent : Agents, op : IdemOps, cred : Creds \cup { NoCred },
             key : Keys]

Fingerprints ==
    [ op : Ops, cred : Creds \cup { NoCred }, space : Spaces \cup { NoSpace },
      ver : 0..MaxVersion, labels : { Keep } \cup SUBSET Labels,
      links : { Keep } \cup SUBSET Assets, payload : Payloads \cup { Keep } ]

IdemRecord == [fp : Fingerprints, cred : Creds, ver : Versions, expires : Nat]

ASSUME NoRecordAssumption == NoRecord \notin IdemRecord

Exec == [key : IdemKeys, fp : Fingerprints, cred : Creds, ver : Versions,
         nth : Nat, at : Nat, done : Nat]

Kinds == WriteOps \cup { "read" }

ErrorCodes ==
    { "NOT_FOUND", "PERMISSION_DENIED", "UNAUTHENTICATED", "INVALID_INPUT",
      "VERSION_CONFLICT", "IDEMPOTENCY_REQUIRED", "IDEMPOTENCY_CONFLICT",
      "AUTHORIZATION_FAILED", "AUDIT_UNAVAILABLE", "INTERNAL_ERROR" }

\* The steps of a request that run one transaction of the operation.
TxSteps == WriteOps \cup { "purge_expired", "update_replay", "get_audit" }
ReadSteps == { "get_row", "get_tags", "update_row", "update_tags" }

Slot ==
    [ pc : { "idle", "fail", "done" } \cup TxSteps \cup ReadSteps,
      q : Requests \cup { NoReq },
      at : Nat,                             \* the now of the operation
      ver : 0..MaxVersion,                  \* recordByID: current_version
      state : States,                       \*   whether deleted_at is set
      payload : Payloads \cup { NoPayload },\*   the current payload
      own : SUBSET Labels,                  \* history: that version's labels
      seen : SUBSET Labels,                 \* the tags loadRelations read
      code : ErrorCodes \cup { "OK" },      \* the outcome
      cred : Creds \cup { NoCred },         \* failureMetadata, or the reply
      space : Spaces \cup { NoSpace } ]

IdleSlot ==
    [ pc |-> "idle", q |-> NoReq, at |-> 0, ver |-> 0, state |-> "free",
      payload |-> NoPayload, own |-> {}, seen |-> {}, code |-> "OK",
      cred |-> NoCred, space |-> NoSpace ]

FreeRow ==
    [ state |-> "free", space |-> NoSpace, ver |-> 0, labels |-> {},
      links |-> {}, deletedAt |-> 0 ]

IdleMaint == [pc |-> "idle", started |-> 0]

\* time.NewTicker(DailyInterval): its first tick comes a whole interval after
\* Start, and its channel holds one tick that was not received yet.
Tickers == [phase : 0..(Interval - 1), full : BOOLEAN]

NewTicker == [phase |-> 0, full |-> FALSE]

Advanced(t) ==
    LET phase == (t.phase + 1) % Interval
    IN  [phase |-> phase, full |-> t.full \/ phase = 0]

\* What a transaction reads of the tables of other components: whether the
\* Space is active, which assets are, and what the session row tells
\* verifyAuthoritativePurgeSession.
SessionVerdicts == { "OK", "AUTHORIZATION_FAILED", "PERMISSION_DENIED" }
Env == [spaceActive : BOOLEAN, assets : SUBSET Assets,
        session : SessionVerdicts]

Init ==
    /\ row = [c \in Creds |-> FreeRow]
    /\ versions = [c \in Creds |-> [v \in Versions |-> NoPayload]]
    /\ idem = [k \in IdemKeys |-> NoRecord]
    /\ trail = [c \in Creds |-> [k \in Kinds |-> 0]]
    /\ slot = [r \in Reqs |-> IdleSlot]
    /\ maint = IdleMaint
    /\ ticker = NewTicker
    /\ now = 0
    /\ begun = 0
    /\ execs = {}
    /\ delivered = [c \in Creds |-> 0]

-----------------------------------------------------------------------------
(***************************************************************************)
(* Helpers of the handlers.                                                *)
(***************************************************************************)

Exists(c) == row[c].state \in { "live", "deleted" }

\* failureMetadata: what a failure event may name.
NoMetadata == [cred |-> NoCred, space |-> NoSpace]
MetadataOf(c) == [cred |-> c, space |-> row[c].space]

ActionOf ==
    [ get |-> "credential.read", create |-> "credential.create",
      update |-> "credential.update", delete |-> "credential.delete",
      restore |-> "credential.restore", purge |-> "credential.purge",
      purge_expired |-> "credential.purge" ]

authorize(q, space, labels, a) ==
    LET d == Decision(q.p, [space |-> space, labels |-> labels], a)
    IN  IF space # q.space THEN "NOT_FOUND"
        ELSE IF d = "allowed" THEN "OK"
        ELSE IF d = "unauthenticated" THEN "UNAUTHENTICATED"
        ELSE IF d = "forbidden" /\ q.p.kind = "human" THEN "PERMISSION_DENIED"
        ELSE "NOT_FOUND"

\* authorize on the stored metadata of credential c.
AuthorizeRow(q, c) ==
    authorize(q, row[c].space, row[c].labels, ActionOf[q.op])

authorizeAssetLinksTx(q, space, active) ==
    LET a == authorize(q, space, {}, "asset.credential.link")
    IN  IF a # "OK" THEN a
        ELSE IF q.links \subseteq { x \in active : AssetSpace[x] = space }
             THEN "OK" ELSE "NOT_FOUND"

\* What requestFingerprint hashes; only a create hashes the Space.
Fingerprint(q) ==
    [ op |-> q.op, cred |-> q.cred,
      space |-> IF q.op = "create" THEN q.space ELSE NoSpace,
      ver |-> q.ver, labels |-> q.labels, links |-> q.links,
      payload |-> q.payload ]

\* The endpoint is "credential.create" or "credential.<op>/<id>".
IdemKey(q) ==
    [agent |-> q.p.id, op |-> q.op, cred |-> q.cred, key |-> q.key]

lookupIdempotency(k, at) == idem[k] # NoRecord /\ idem[k].expires > at

\* Mutant: a key is replayed whatever the input.
checkIdempotency_AnyInput(s) ==
    IF s.q.p.kind # "agent" \/ ~ lookupIdempotency(IdemKey(s.q), s.at)
    THEN "MISS" ELSE "REPLAY"

checkIdempotency(s) ==
    IF s.q.p.kind # "agent" \/ ~ lookupIdempotency(IdemKey(s.q), s.at)
        THEN "MISS"
    ELSE IF idem[IdemKey(s.q)].fp # Fingerprint(s.q)
        THEN "IDEMPOTENCY_CONFLICT"
    ELSE "REPLAY"

\* The record found names a credential the caller may still act on.
authorizeReplayTx(s) ==
    LET c == idem[IdemKey(s.q)].cred
    IN  IF row[c].state # "live" THEN "NOT_FOUND"
        ELSE IF AuthorizeRow(s.q, c) = "OK" THEN "REPLAY"
        ELSE AuthorizeRow(s.q, c)

\* saveIdempotency with storeIdempotency, and the history of executions.
saveIdempotency(s, c, v) ==
    IF s.q.p.kind = "agent"
    THEN /\ idem' = [idem EXCEPT ![IdemKey(s.q)] =
                        [ fp |-> Fingerprint(s.q), cred |-> c, ver |-> v,
                          expires |-> s.at + IdemTTL ]]
         /\ execs' = execs \cup
                {[ key |-> IdemKey(s.q), fp |-> Fingerprint(s.q), cred |-> c,
                   ver |-> v, nth |-> trail[c][s.q.op], at |-> s.at,
                   done |-> now ]}
    ELSE UNCHANGED << idem, execs >>

\* AppendTx of a success event inside the transaction of the change.
AppendTx(c, kind) == trail' = [trail EXCEPT ![c][kind] = @ + 1]

\* DELETE FROM credentials: versions, tags and links go with the rows.
DeleteRows(C) ==
    /\ row' = [c \in Creds |->
                IF c \in C
                THEN [row[c] EXCEPT !.state = "purged", !.labels = {},
                                    !.links = {}, !.deletedAt = 0]
                ELSE row[c]]
    /\ versions' = [c \in Creds |->
                IF c \in C THEN [v \in Versions |-> NoPayload]
                ELSE versions[c]]
    /\ trail' = [c \in Creds |->
                IF c \in C THEN [trail[c] EXCEPT !["purge"] = @ + 1]
                ELSE trail[c]]
    /\ UNCHANGED << idem, execs >>

\* Mutants: no retention, and the comparison the wrong way round.
Expired_AtOnce(c, started) ==
    row[c].state = "deleted" /\ LexLE(row[c].deletedAt, started)
Expired_Swapped(c, started) ==
    /\ row[c].state = "deleted"
    /\ LexLE(started, row[c].deletedAt + Retention)

\* deleted_at <= started - Retention, on the stored text.
Expired(c, started) ==
    /\ row[c].state = "deleted"
    /\ started >= Retention
    /\ LexLE(row[c].deletedAt + Retention, started)

-----------------------------------------------------------------------------
(***************************************************************************)
(* Outcomes of a slot.                                                     *)
(***************************************************************************)

\* PurgeExpired is the one operation that records no failure.
RefusedStep(q) == IF q.op = "purge_expired" THEN "done" ELSE "fail"

Failed(s, code, m) ==
    [ IdleSlot EXCEPT !.pc = RefusedStep(s.q), !.q = s.q, !.code = code,
                      !.cred = m.cred, !.space = m.space ]

Succeeded(s, c, v) ==
    [ IdleSlot EXCEPT !.pc = "done", !.q = s.q, !.cred = c, !.ver = v,
                      !.own = s.own ]

Goto(r, s) == slot' = [slot EXCEPT ![r] = s]

-----------------------------------------------------------------------------
(***************************************************************************)
(* The entry of each operation: validation before the first database      *)
(* access, and the authorization that needs none.                         *)
(***************************************************************************)

EntryCode(q) ==
    IF q.op \in WriteOps \ { "create" } /\ q.ver = 0 THEN "VERSION_CONFLICT"
    ELSE IF q.op \in WriteOps /\ q.p.kind = "agent" /\ q.key = NoKey
        THEN "IDEMPOTENCY_REQUIRED"
    ELSE IF q.op = "create"
        THEN authorize(q, q.space, q.labels, "credential.create")
    ELSE IF q.op = "purge_expired"
        THEN authorize(q, q.space, {}, "credential.purge")
    ELSE "OK"

FirstStep(q) ==
    IF q.op = "get" THEN "get_row"
    ELSE IF q.op = "update" THEN "update_row"
    ELSE q.op

Begin(r, q) ==
    /\ slot[r].pc = "idle"
    /\ begun < MaxRequests
    /\ begun' = begun + 1
    /\ Goto(r, [IdleSlot EXCEPT
                  !.q = q, !.at = now, !.code = EntryCode(q),
                  !.pc = IF EntryCode(q) = "OK" THEN FirstStep(q)
                         ELSE RefusedStep(q)])
    /\ UNCHANGED << tables, maint, ticker, now, delivered >>

RejectCodes(op) ==
    IF op \in { "restore", "purge" } THEN { "INVALID_INPUT", "NOT_FOUND" }
    ELSE { "INVALID_INPUT" }

\* RecordInvalidAttempt and RecordConcealedAttempt: the transport refuses the
\* request before its operation and records a failure without metadata.
Reject(r, q) ==
    /\ slot[r].pc = "idle"
    /\ q.op # "purge_expired"
    /\ begun < MaxRequests
    /\ begun' = begun + 1
    /\ \E code \in RejectCodes(q.op) :
         Goto(r, [IdleSlot EXCEPT !.q = q, !.at = now, !.code = code,
                                  !.pc = "fail"])
    /\ UNCHANGED << tables, maint, ticker, now, delivered >>

-----------------------------------------------------------------------------
(***************************************************************************)
(* recordByID on the reader pool: the row joined with its current version  *)
(* in one statement, the tags in a later one.                              *)
(***************************************************************************)

readable(c, includeDeleted) ==
    row[c].state \in IF includeDeleted THEN { "live", "deleted" } ELSE { "live" }

ReadRow(r) ==
    LET s == slot[r]
        c == s.q.cred
        next == IF s.pc = "get_row" THEN "get_tags" ELSE "update_tags"
    IN  /\ s.pc \in { "get_row", "update_row" }
        /\ \/ /\ readable(c, s.q.op = "update")
              /\ Goto(r, [s EXCEPT !.pc = next, !.ver = row[c].ver,
                            !.state = row[c].state,
                            !.payload = versions[c][row[c].ver],
                            !.own = row[c].labels])
           \/ /\ ~ readable(c, s.q.op = "update")
              /\ Goto(r, Failed(s, "NOT_FOUND", NoMetadata))
        /\ UNCHANGED << tables, maint, ticker, now, begun, delivered >>

\* loadRelations and, still without a database access, authorize.
GetTags(r) ==
    LET s == slot[r]
        c == s.q.cred
        code == AuthorizeRow(s.q, c)
    IN  /\ s.pc = "get_tags"
        /\ \/ /\ code = "OK"
              /\ Goto(r, [s EXCEPT !.pc = "get_audit", !.seen = row[c].labels])
           \/ /\ code # "OK"
              /\ Goto(r, Failed(s, code, MetadataOf(c)))
        /\ UNCHANGED << tables, maint, ticker, now, begun, delivered >>

\* Mutant: the plaintext is returned without waiting for the read event.
GetAudit_Unaudited(r) ==
    /\ slot[r].pc = "get_audit"
    /\ Goto(r, Succeeded(slot[r], slot[r].q.cred, slot[r].ver))
    /\ UNCHANGED << tables, maint, ticker, now, begun, delivered >>

\* The read event commits before the plaintext leaves the service.
GetAudit(r) ==
    LET s == slot[r]
    IN  /\ s.pc = "get_audit"
        /\ AppendTx(s.q.cred, "read")
        /\ Goto(r, Succeeded(s, s.q.cred, s.ver))
        /\ UNCHANGED << row, versions, idem, execs, maint, ticker, now,
                        begun, delivered >>

-----------------------------------------------------------------------------
(***************************************************************************)
(* Update.  Everything up to the last transaction works on the snapshot of *)
(* recordByID; the last transaction compares the version again.            *)
(***************************************************************************)

\* Labels the update will store, from the snapshot and the input.
UpdatedLabels(s) == IF s.q.labels = Keep THEN s.seen ELSE s.q.labels

\* Mutant: the payload is taken from the input even when there is none.
UpdatedPayload_Input(s) == s.q.payload

\* Payload the update will store: a decrypted copy when none is given.
UpdatedPayload(s) == IF s.q.payload = Keep THEN s.payload ELSE s.q.payload

\* Mutant: the labels the update will store are not authorized.
PlanCode_OldLabels(s) ==
    IF s.state = "deleted" THEN "NOT_FOUND"
    ELSE IF s.ver # s.q.ver THEN "VERSION_CONFLICT" ELSE "OK"

PlanCode(s) ==
    IF s.state = "deleted" THEN "NOT_FOUND"
    ELSE IF s.ver # s.q.ver THEN "VERSION_CONFLICT"
    ELSE authorize(s.q, row[s.q.cred].space, UpdatedLabels(s),
                   "credential.update")

Planned(s) ==
    IF PlanCode(s) = "OK" THEN [s EXCEPT !.pc = "update"]
                          ELSE Failed(s, PlanCode(s), MetadataOf(s.q.cred))

UpdateTags(r) ==
    LET c == slot[r].q.cred
        s == [slot[r] EXCEPT !.seen = row[c].labels]
        code == AuthorizeRow(s.q, c)
    IN  /\ slot[r].pc = "update_tags"
        /\ \/ /\ code # "OK"
              /\ Goto(r, Failed(s, code, MetadataOf(c)))
           \/ /\ code = "OK" /\ s.q.p.kind = "agent"
              /\ Goto(r, [s EXCEPT !.pc = "update_replay"])
           \/ /\ code = "OK" /\ s.q.p.kind = "human"
              /\ Goto(r, Planned(s))
        /\ UNCHANGED << tables, maint, ticker, now, begun, delivered >>

\* The first transaction of an agent's update found no record in force.  It
\* commits the deletion of an expired one.
UpdateReplayMiss(r) ==
    LET s == slot[r]
    IN  /\ s.pc = "update_replay"
        /\ checkIdempotency(s) = "MISS"
        /\ idem' = [idem EXCEPT ![IdemKey(s.q)] = NoRecord]
        /\ Goto(r, Planned(s))
        /\ UNCHANGED << row, versions, trail, execs, maint, ticker, now,
                        begun, delivered >>

\* Mutants: the UPDATE without one of the conditions of its WHERE clause.
CasMatches_NoVersion(c, expected) == row[c].state = "live"
CasMatches_NoDeleted(c, expected) == Exists(c) /\ row[c].ver = expected

CasMatches(c, expected) == row[c].state = "live" /\ row[c].ver = expected

UpdateCode(s, env) ==
    LET check == checkIdempotency(s)
        links == authorizeAssetLinksTx(s.q, row[s.q.cred].space, env.assets)
    IN  IF check = "REPLAY" THEN authorizeReplayTx(s)
        ELSE IF check # "MISS" THEN check
        ELSE IF s.q.links # Keep /\ links # "OK" THEN links
        ELSE IF ~ CasMatches(s.q.cred, s.q.ver) THEN "VERSION_CONFLICT"
        ELSE "OK"

Update(r) ==
    LET s == slot[r]
        c == s.q.cred
        v == s.ver + 1
    IN  /\ s.pc = "update"
        /\ \E env \in Env : UpdateCode(s, env) = "OK"
        /\ row' = [row EXCEPT
                     ![c].ver = v,
                     ![c].labels = IF s.q.labels = Keep THEN @ ELSE s.q.labels,
                     ![c].links = IF s.q.links = Keep THEN @ ELSE s.q.links]
        /\ versions' = [versions EXCEPT ![c][v] = UpdatedPayload(s)]
        /\ AppendTx(c, "update")
        /\ saveIdempotency(s, c, v)
        /\ Goto(r, Succeeded(s, c, v))
        /\ UNCHANGED << maint, ticker, now, begun, delivered >>

-----------------------------------------------------------------------------
(***************************************************************************)
(* The operations that are one transaction.                                *)
(***************************************************************************)

\* Mutant: a create that does not look for a record first.
CreateCode_NoReplay(s, env) ==
    IF env.spaceActive THEN "OK" ELSE "NOT_FOUND"

CreateCode(s, env) ==
    LET check == checkIdempotency(s)
        links == authorizeAssetLinksTx(s.q, s.q.space, env.assets)
    IN  IF check = "REPLAY" THEN authorizeReplayTx(s)
        ELSE IF check # "MISS" THEN check
        ELSE IF ~ env.spaceActive THEN "NOT_FOUND"
        ELSE IF s.q.links # {} /\ links # "OK" THEN links
        ELSE "OK"

Create(r, c) ==
    LET s == slot[r]
    IN  /\ s.pc = "create"
        /\ row[c].state = "free"
        /\ \E env \in Env : CreateCode(s, env) = "OK"
        /\ row' = [row EXCEPT ![c] =
                     [ state |-> "live", space |-> s.q.space, ver |-> 1,
                       labels |-> s.q.labels, links |-> s.q.links,
                       deletedAt |-> 0 ]]
        /\ versions' = [versions EXCEPT ![c][1] = s.q.payload]
        /\ AppendTx(c, "create")
        /\ saveIdempotency(s, c, 1)
        /\ Goto(r, Succeeded(s, c, 1))
        /\ UNCHANGED << maint, ticker, now, begun, delivered >>

DeleteCode(s) ==
    LET c == s.q.cred
        check == checkIdempotency(s)
    IN  IF ~ Exists(c) THEN "NOT_FOUND"
        ELSE IF AuthorizeRow(s.q, c) # "OK" THEN AuthorizeRow(s.q, c)
        ELSE IF check # "MISS" THEN check
        ELSE IF row[c].state = "deleted" THEN "NOT_FOUND"
        ELSE IF row[c].ver # s.q.ver THEN "VERSION_CONFLICT"
        ELSE "OK"

Delete(r) ==
    LET s == slot[r]
        c == s.q.cred
    IN  /\ s.pc = "delete"
        /\ DeleteCode(s) = "OK"
        /\ row' = [row EXCEPT ![c].state = "deleted", ![c].deletedAt = s.at]
        /\ AppendTx(c, "delete")
        /\ saveIdempotency(s, c, s.q.ver)
        /\ Goto(r, Succeeded(s, c, s.q.ver))
        /\ UNCHANGED << versions, maint, ticker, now, begun, delivered >>

RestoreCode(s) ==
    LET c == s.q.cred
    IN  IF row[c].state # "deleted" THEN "NOT_FOUND"
        ELSE IF AuthorizeRow(s.q, c) # "OK" THEN AuthorizeRow(s.q, c)
        ELSE IF row[c].ver # s.q.ver THEN "VERSION_CONFLICT"
        ELSE "OK"

Restore(r) ==
    LET s == slot[r]
        c == s.q.cred
    IN  /\ s.pc = "restore"
        /\ RestoreCode(s) = "OK"
        /\ row' = [row EXCEPT ![c].state = "live", ![c].deletedAt = 0]
        /\ AppendTx(c, "restore")
        /\ Goto(r, Succeeded(s, c, s.q.ver))
        /\ UNCHANGED << versions, idem, execs, maint, ticker, now, begun,
                        delivered >>

\* Mutant: a purge of a credential that is not in the recycle bin.
PurgeCode_Live(s, env) ==
    IF Exists(s.q.cred) THEN AuthorizeRow(s.q, s.q.cred) ELSE "NOT_FOUND"

PurgeCode(s, env) ==
    LET c == s.q.cred
    IN  IF ~ Exists(c) THEN "NOT_FOUND"
        ELSE IF AuthorizeRow(s.q, c) # "OK" THEN AuthorizeRow(s.q, c)
        ELSE IF env.session # "OK" THEN env.session
        ELSE IF row[c].state # "deleted" THEN "NOT_FOUND"
        ELSE IF row[c].ver # s.q.ver THEN "VERSION_CONFLICT"
        ELSE "OK"

Purge(r) ==
    LET s == slot[r]
    IN  /\ s.pc = "purge"
        /\ \E env \in Env : PurgeCode(s, env) = "OK"
        /\ DeleteRows({ s.q.cred })
        /\ Goto(r, Succeeded(s, s.q.cred, s.q.ver))
        /\ UNCHANGED << maint, ticker, now, begun, delivered >>

PurgeExpired(r) ==
    LET s == slot[r]
    IN  /\ s.pc = "purge_expired"
        /\ DeleteRows({ c \in Creds : Expired(c, s.at)
                                      /\ row[c].space = s.q.space })
        /\ Goto(r, Succeeded(s, NoCred, 0))
        /\ UNCHANGED << maint, ticker, now, begun, delivered >>

-----------------------------------------------------------------------------
(***************************************************************************)
(* The other ways a transaction of an operation ends.                      *)
(***************************************************************************)

TxCode(s, env) ==
    CASE s.pc = "create" -> CreateCode(s, env)
      [] s.pc = "update" -> UpdateCode(s, env)
      [] s.pc = "delete" -> DeleteCode(s)
      [] s.pc = "restore" -> RestoreCode(s)
      [] s.pc = "purge" -> PurgeCode(s, env)
      [] s.pc = "update_replay" ->
            IF checkIdempotency(s) = "REPLAY" THEN authorizeReplayTx(s)
            ELSE checkIdempotency(s)
      [] OTHER -> "OK"

\* failureMetadata at the end of the transaction of a slot.  A create names
\* its Space once the Space is known to be active; the errors before that
\* are concealed or an idempotency conflict.
TxMetadata(s, code) ==
    CASE s.pc \in { "update", "update_replay", "get_audit" } ->
            MetadataOf(s.q.cred)
      [] s.pc = "create" ->
            [ cred |-> NoCred,
              space |-> IF code = "IDEMPOTENCY_CONFLICT" THEN NoSpace
                        ELSE s.q.space ]
      [] s.pc \in { "delete", "restore", "purge" } ->
            IF Exists(s.q.cred) THEN MetadataOf(s.q.cred) ELSE NoMetadata
      [] OTHER -> NoMetadata

\* A record of the same request is in force: its result is returned again.
Replay(r) ==
    LET s == slot[r]
        record == idem[IdemKey(s.q)]
    IN  /\ s.pc \in IdemOps \cup { "update_replay" }
        /\ \E env \in Env : TxCode(s, env) = "REPLAY"
        /\ Goto(r, Succeeded(s, record.cred, record.ver))
        /\ UNCHANGED << tables, maint, ticker, now, begun, delivered >>

\* The transaction returns an error of the operation and rolls back.
Refuse(r) ==
    LET s == slot[r]
    IN  /\ s.pc \in TxSteps
        /\ \E env \in Env :
             LET code == TxCode(s, env)
             IN  /\ code \in ErrorCodes
                 /\ Goto(r, Failed(s, code, TxMetadata(s, code)))
        /\ UNCHANGED << tables, maint, ticker, now, begun, delivered >>

\* An update validates its input between its transactions.
EarlyCodes(pc) ==
    { "INTERNAL_ERROR" } \cup IF pc = "update" THEN { "INVALID_INPUT" } ELSE {}

\* A statement, or the preparation of an update, fails before the operation
\* has decided anything.
EarlyError(r) ==
    LET s == slot[r]
        m == IF s.pc \in { "update", "update_replay", "get_audit" }
             THEN MetadataOf(s.q.cred) ELSE NoMetadata
    IN  /\ s.pc \in TxSteps \cup ReadSteps
        /\ \E code \in EarlyCodes(s.pc) : Goto(r, Failed(s, code, m))
        /\ UNCHANGED << tables, maint, ticker, now, begun, delivered >>

\* A write, the audit event or the commit of an accepted change fails, and
\* everything the transaction did is undone.
LateError(r) ==
    LET s == slot[r]
    IN  /\ s.pc \in TxSteps
        /\ \E env \in Env : TxCode(s, env) = "OK"
        /\ \E code \in { "INTERNAL_ERROR", "AUDIT_UNAVAILABLE" } :
             Goto(r, Failed(s, code, TxMetadata(s, code)))
        /\ UNCHANGED << tables, maint, ticker, now, begun, delivered >>

\* Mutant: lookup failures are not concealed.
Concealed_NotLookups(code) == code = "UNAUTHENTICATED"

Concealed(code) == code \in { "NOT_FOUND", "UNAUTHENTICATED" }

\* appendCredentialFailure, in a transaction of its own after the rollback.
\* The slot keeps what the event names; the log itself is never read here.
AppendFailure(r) ==
    LET s == slot[r]
        m == IF Concealed(s.code) THEN NoMetadata
             ELSE [cred |-> s.cred, space |-> s.space]
    IN  /\ s.pc = "fail"
        /\ Goto(r, [s EXCEPT !.pc = "done", !.cred = m.cred,
                             !.space = m.space])
        /\ UNCHANGED << tables, maint, ticker, now, begun, delivered >>

\* The failure event cannot be written: the caller is told that instead.
AppendFailureError(r) ==
    /\ slot[r].pc = "fail"
    /\ Goto(r, [slot[r] EXCEPT !.pc = "done", !.code = "AUDIT_UNAVAILABLE",
                               !.cred = NoCred, !.space = NoSpace])
    /\ UNCHANGED << tables, maint, ticker, now, begun, delivered >>

\* The response leaves the service.
Return(r) ==
    LET s == slot[r]
    IN  /\ s.pc = "done"
        /\ delivered' = IF s.q.op = "get" /\ s.code = "OK"
                        THEN [delivered EXCEPT ![s.cred] = @ + 1]
                        ELSE delivered
        /\ Goto(r, IdleSlot)
        /\ UNCHANGED << tables, maint, ticker, now, begun >>

-----------------------------------------------------------------------------
(***************************************************************************)
(* Scheduler.loop and RunOnce.  A run starts when the loop receives a tick *)
(* of its ticker and at no other time.  The purge and the cleanup use the  *)
(* time the run started.  A job that fails does not stop the next one.     *)
(***************************************************************************)

MaintStart ==
    /\ maint.pc = "idle" /\ ticker.full
    /\ ticker' = [ticker EXCEPT !.full = FALSE]
    /\ maint' = [pc |-> "purge", started |-> now]
    /\ UNCHANGED << tables, slot, now, begun, delivered >>

PurgeExpiredMaintenance ==
    /\ maint.pc = "purge"
    /\ DeleteRows({ c \in Creds : Expired(c, maint.started) })
    /\ maint' = [maint EXCEPT !.pc = "cleanup"]
    /\ UNCHANGED << slot, ticker, now, begun, delivered >>

\* Mutant: the comparison the wrong way round.
CleanedUp_Swapped(k, started) ==
    idem[k] # NoRecord /\ LexLE(started, idem[k].expires)

CleanedUp(k, started) ==
    idem[k] # NoRecord /\ LexLE(idem[k].expires, started)

cleanupExpiredState ==
    /\ maint.pc = "cleanup"
    /\ idem' = [k \in IdemKeys |->
                  IF CleanedUp(k, maint.started) THEN NoRecord ELSE idem[k]]
    /\ maint' = IdleMaint
    /\ UNCHANGED << row, versions, trail, execs, slot, ticker, now, begun,
                    delivered >>

MaintError ==
    /\ maint.pc # "idle"
    /\ maint' = IF maint.pc = "purge" THEN [maint EXCEPT !.pc = "cleanup"]
                ELSE IdleMaint
    /\ UNCHANGED << tables, slot, ticker, now, begun, delivered >>

-----------------------------------------------------------------------------
(***************************************************************************)
(* The process and the clock.                                              *)
(***************************************************************************)

\* The process dies: what was in progress is lost, the tables stay.  The new
\* process starts a loop with a ticker of its own: the wait begins anew.
Crash ==
    /\ slot' = [r \in Reqs |-> IdleSlot]
    /\ maint' = IdleMaint
    /\ ticker' = NewTicker
    /\ UNCHANGED << tables, now, begun, delivered >>

Tick ==
    /\ now' = IF now < MaxTime THEN now + 1 ELSE now
    /\ ticker' = Advanced(ticker)
    /\ UNCHANGED << tables, slot, maint, begun, delivered >>

RequestStep(r) ==
    \/ \E q \in Requests : Begin(r, q) \/ Reject(r, q)
    \/ ReadRow(r) \/ GetTags(r) \/ GetAudit(r)
    \/ UpdateTags(r) \/ UpdateReplayMiss(r) \/ Update(r)
    \/ \E c \in Creds : Create(r, c)
    \/ Delete(r) \/ Restore(r) \/ Purge(r) \/ PurgeExpired(r)
    \/ Replay(r) \/ Refuse(r) \/ EarlyError(r) \/ LateError(r)
    \/ AppendFailure(r) \/ AppendFailureError(r) \/ Return(r)

MaintenanceStep ==
    MaintStart \/ PurgeExpiredMaintenance \/ cleanupExpiredState \/ MaintError

Next ==
    (\E r \in Reqs : RequestStep(r)) \/ MaintenanceStep \/ Crash \/ Tick

Spec == Init /\ [][Next]_vars

\* The clock advances.  Of the ticks of the ticker that come in, and of the
\* attempts at a job, a restart or an error does not spoil every one: that
\* ticks do come in is no part of it, restarts may keep them away for ever.
FairSpec ==
    /\ Spec
    /\ WF_vars(Tick) /\ SF_vars(MaintStart)
    /\ SF_vars(PurgeExpiredMaintenance) /\ SF_vars(cleanupExpiredState)

-----------------------------------------------------------------------------
(***************************************************************************)
(* Properties.                                                             *)
(***************************************************************************)

\* Every variable has its type.
TypeOK ==
    /\ row \in [Creds -> Row]
    /\ versions \in [Creds -> [Versions -> Payloads \cup { NoPayload }]]
    /\ idem \in [IdemKeys -> IdemRecord \cup { NoRecord }]
    /\ trail \in [Creds -> [Kinds -> Nat]]
    /\ slot \in [Reqs -> Slot]
    /\ maint \in [pc : { "idle", "purge", "cleanup" }, started : Nat]
    /\ ticker \in Tickers
    /\ now \in Nat
    /\ begun \in Nat
    /\ execs \subseteq Exec
    /\ delivered \in [Creds -> Nat]

\* The audit trail tells the whole story: counting the success events of a
\* credential gives back its version and whether it is live, in the recycle
\* bin or gone.  Fails if any change commits without its event, or an event
\* without its change, whatever rolls back or crashes in between.
TrailMatchesState ==
    \A c \in Creds :
        LET n == trail[c]
            state == row[c].state
        IN  /\ n["create"] = IF state = "free" THEN 0 ELSE 1
            /\ row[c].ver = n["create"] + n["update"]
            /\ n["delete"] = n["restore"] +
                    IF state \in { "deleted", "purged" } THEN 1 ELSE 0
            /\ n["purge"] = IF state = "purged" THEN 1 ELSE 0

\* The step commits the update of slot r.
UpdateCommits(r) ==
    slot[r].pc = "update" /\ trail' # trail /\ slot'[r].pc = "done"

\* An update commits only if its caller may update the credential with the
\* labels it has at that moment and with the labels it will have: the labels
\* authorize saw were read in a separate statement, steps before.
UpdateAuthorizedAtCommit ==
    [][ \A r \in Reqs :
          UpdateCommits(r) =>
              LET q == slot[r].q
                  allowed(labels) ==
                    authorize(q, row[q.cred].space, labels, "credential.update")
                        = "OK"
              IN  allowed(row[q.cred].labels) /\ allowed(row'[q.cred].labels)
      ]_vars

\* One agent, endpoint and key make one change while the record is retained:
\* of two changes under one key, the later was made at least IdemTTL (less
\* the half second Stamp may lose) after the time of the earlier.
AgentAtMostOnce ==
    \A e, f \in execs :
        e # f /\ e.key = f.key =>
            \/ f.done + 1 >= e.at + IdemTTL
            \/ e.done + 1 >= f.at + IdemTTL

\* An agent told that its change succeeded gets the credential and version
\* of a change that was made for this same key and this same input, also
\* when the answer is a replay after a crash or a lost response.
ReplyIsExecution ==
    \A r \in Reqs :
        LET s == slot[r]
        IN  /\ s.pc = "done" /\ s.code = "OK"
            /\ s.q.p.kind = "agent" /\ s.q.op \in IdemOps
            => \E e \in execs :
                 /\ e.key = IdemKey(s.q) /\ e.fp = Fingerprint(s.q)
                 /\ e.cred = s.cred /\ e.ver = s.ver

\* Every plaintext returned, or about to be, has its own committed read event.
PlaintextAudited ==
    \A c \in Creds :
        delivered[c] + Cardinality({ r \in Reqs :
                            /\ slot[r].pc = "done" /\ slot[r].code = "OK"
                            /\ slot[r].q.op = "get" /\ slot[r].cred = c })
            <= trail[c]["read"]

\* The caller is known in the Space: the service need not hide it from them.
Visible(p, space) ==
    IF p.kind = "agent" THEN \E g \in p.grants : g.space = space
    ELSE p.system \in { "system_owner", "system_admin" }
            \/ p.roles[space] # "none"

\* A failure event names a Space or a credential only of a Space its actor
\* has access to, so the audit log does not reveal what was concealed.
FailureNamesOnlyVisible ==
    \A r \in Reqs :
        LET s == slot[r]
        IN  s.pc = "done" /\ s.code # "OK" =>
              /\ s.space # NoSpace => Visible(s.q.p, s.space)
              /\ s.cred # NoCred => s.space = row[s.cred].space

\* The step is the manual purge of c by its request.
PurgedByRequest(c) ==
    \E r \in Reqs : slot[r].pc = "purge" /\ slot[r].q.cred = c

\* Only an explicit purge removes a credential before it has been in the
\* recycle bin for the retention, up to the half second Stamp may lose.
RecycleBinRetention ==
    [][ \A c \in Creds :
          /\ row[c].state # "purged" /\ row'[c].state = "purged"
          /\ ~ PurgedByRequest(c)
          => now + 1 >= row[c].deletedAt + Retention ]_vars

\* The cell of CredentialStore a row and its current version stand for.
Content == [payload : Payloads, labels : SUBSET Labels]

cell == [c \in Creds |->
           [ state |-> row[c].state, ver |-> row[c].ver,
             content |-> IF Exists(c)
                         THEN [ payload |-> versions[c][row[c].ver],
                                labels |-> row[c].labels ]
                         ELSE NoPayload ]]

Store == INSTANCE CredentialStore
            WITH Contents <- Content, NoContent <- NoPayload

\* The service implements the atomic store: no interleaving of the steps of
\* updates, deletes, restores and purges, nor a crash, shows in between.
ImplementsStore == Store!Spec

\* If the process again and again stays up for a whole interval, a credential
\* that stays in the recycle bin past its retention is removed, however often
\* runs fail and the process restarts in between.  Without the premise it does
\* not hold: every restart begins the wait of the loop anew and none purges.
RecycleBinDrained ==
    []<>ticker.full =>
        \A c \in Creds :
            row[c].state = "deleted" /\ row[c].deletedAt + Retention < MaxTime
                ~> row[c].state # "deleted"

-----------------------------------------------------------------------------
(***************************************************************************)
(* What the documentation says and the code does not do (design document,  *)
(* line 221).                                                              *)
(***************************************************************************)

\* Design document line 221: label conditions narrow what an agent may read,
\* so the version an agent is given carries labels its grants cover.
ReadAuthorizedByOwnLabels ==
    \A r \in Reqs :
        LET s == slot[r]
        IN  s.pc = "done" /\ s.code = "OK" /\ s.q.op = "get" =>
                authorize(s.q, row[s.cred].space, s.own, "credential.read")
                    = "OK"
=============================================================================
