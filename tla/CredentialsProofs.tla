------------------------- MODULE CredentialsProofs -------------------------
(***************************************************************************)
(* Proofs about module Credentials, for every set of credentials, keys,    *)
(* requests and slots and for every value of the bounds.                   *)
(***************************************************************************)
EXTENDS Credentials, FiniteSetTheorems, TLAPS

-----------------------------------------------------------------------------
(***************************************************************************)
(* The inductive invariant of the control state: which steps a request may *)
(* be at, and what an earlier step has established for it.                 *)
(***************************************************************************)

StepsOf(q) ==
    CASE q.op = "get" -> { "get_row", "get_tags", "get_audit", "fail", "done" }
      [] q.op = "update" -> { "update_row", "update_tags", "update_replay",
                              "update", "fail", "done" }
      [] OTHER -> { q.op, "fail", "done" }

SlotOK(s) ==
    s.pc # "idle" =>
        /\ s.q \in Requests
        /\ s.pc \in StepsOf(s.q)
        /\ /\ s.pc \in WriteOps \cup { "update_row", "update_tags",
                                       "update_replay" }
           /\ s.q.p.kind = "agent"
           => s.q.key # NoKey
        /\ s.pc = "update_replay" => s.q.p.kind = "agent"
        /\ s.pc = "update" => s.ver = s.q.ver

SlotsOK == \A r \in Reqs : SlotOK(slot[r])

\* Every row but a free one has a version.
RowsOK == \A c \in Creds : row[c].state # "free" => row[c].ver \in Versions

Metadata == [cred : Creds \cup { NoCred }, space : Spaces \cup { NoSpace }]

-----------------------------------------------------------------------------
(***************************************************************************)
(* What the helpers return.                                                *)
(***************************************************************************)

\* The fields of a request.
LEMMA RequestFields ==
    ASSUME NEW q \in Requests
    PROVE  /\ q.op \in Ops /\ q.cred \in Creds \cup { NoCred }
           /\ q.space \in Spaces /\ q.ver \in 0..MaxVersion
           /\ q.labels \in { Keep } \cup SUBSET Labels
           /\ q.links \in { Keep } \cup SUBSET Assets
           /\ q.payload \in Payloads \cup { Keep }
           /\ q.key \in Keys \cup { NoKey }
           /\ q.p.kind = "agent" => q.p.id \in Agents
           /\ q.op \notin { "create", "purge_expired" } => q.cred \in Creds
           /\ q.op = "create" => /\ q.cred = NoCred
                                 /\ q.labels \in SUBSET Labels
                                 /\ q.links \in SUBSET Assets
                                 /\ q.payload \in Payloads
           /\ q.op = "update" => q.ver < MaxVersion
           /\ q \in Request
  <1>1. WellFormed(q)
    BY RequestsAssumption
  <1>2. q \in Request
    BY <1>1 DEF WellFormed
  <1>3. q.op = "create" => q.cred = NoCred
    BY <1>1 DEF WellFormed
  <1> QED
    BY <1>1, <1>2, <1>3 DEF WellFormed, Request

\* authorize returns a code.
LEMMA AuthorizeCodes ==
    ASSUME NEW q, NEW space, NEW labels, NEW a
    PROVE  authorize(q, space, labels, a) \in ErrorCodes \cup { "OK" }
  BY DEF authorize, ErrorCodes

\* checkIdempotency returns one of three answers, and replays only a record.
LEMMA CheckCodes ==
    ASSUME NEW s
    PROVE  /\ checkIdempotency(s)
                \in { "MISS", "IDEMPOTENCY_CONFLICT", "REPLAY" }
           /\ checkIdempotency(s) = "REPLAY" =>
                /\ s.q.p.kind = "agent"
                /\ idem[IdemKey(s.q)] # NoRecord
                /\ idem[IdemKey(s.q)].fp = Fingerprint(s.q)
  BY DEF checkIdempotency, lookupIdempotency

\* A failed slot is a slot.
LEMMA FailedType ==
    ASSUME NEW s, s.q \in Requests, NEW code \in ErrorCodes, NEW m \in Metadata
    PROVE  Failed(s, code, m) \in Slot /\ SlotOK(Failed(s, code, m))
  <1>1. Failed(s, code, m) \in Slot
    <2>1. m.cred \in Creds \cup { NoCred } /\ m.space \in Spaces \cup { NoSpace }
      BY DEF Metadata
    <2>2. RefusedStep(s.q) \in { "fail", "done" }
      BY DEF RefusedStep
    <2>3. 0 \in 0..MaxVersion
      BY TimesAssumption
    <2> QED
      BY <2>1, <2>2, <2>3 DEF Failed, Slot, IdleSlot, States
  <1>2. SlotOK(Failed(s, code, m))
    BY DEF Failed, SlotOK, IdleSlot, RefusedStep, StepsOf, WriteOps
  <1> QED
    BY <1>1, <1>2

\* A slot that succeeded is a slot.
LEMMA SucceededType ==
    ASSUME NEW s \in Slot, s.q \in Requests, NEW c \in Creds \cup { NoCred },
           NEW v \in 0..MaxVersion
    PROVE  Succeeded(s, c, v) \in Slot /\ SlotOK(Succeeded(s, c, v))
  <1>1. Succeeded(s, c, v) \in Slot
    BY DEF Succeeded, Slot, IdleSlot, States
  <1>2. SlotOK(Succeeded(s, c, v))
    BY DEF Succeeded, SlotOK, IdleSlot, StepsOf, WriteOps
  <1> QED
    BY <1>1, <1>2

\* The transactions end with a code; only a record in force is replayed.
LEMMA TxCodes ==
    ASSUME NEW s, NEW env \in Env
    PROVE  /\ TxCode(s, env) \in ErrorCodes \cup { "OK", "MISS", "REPLAY" }
           /\ TxCode(s, env) = "REPLAY" => checkIdempotency(s) = "REPLAY"
  <1> DEFINE Codes == ErrorCodes \cup { "OK", "MISS", "REPLAY" }
             Good(x) == /\ x \in Codes
                        /\ x = "REPLAY" => checkIdempotency(s) = "REPLAY"
  <1>1. checkIdempotency(s) \in { "MISS", "IDEMPOTENCY_CONFLICT", "REPLAY" }
    BY CheckCodes
  <1>2. /\ AuthorizeRow(s.q, s.q.cred) \in ErrorCodes \cup { "OK" }
        /\ AuthorizeRow(s.q, idem[IdemKey(s.q)].cred) \in ErrorCodes \cup { "OK" }
    BY AuthorizeCodes DEF AuthorizeRow
  <1>3. "REPLAY" \notin ErrorCodes \cup { "OK" }
    BY DEF ErrorCodes
  <1>4. checkIdempotency(s) = "REPLAY" => Good(authorizeReplayTx(s))
    BY <1>2, <1>3 DEF authorizeReplayTx, ErrorCodes
  <1>5. \A space, A : authorizeAssetLinksTx(s.q, space, A)
                        \in ErrorCodes \cup { "OK" }
    BY AuthorizeCodes DEF authorizeAssetLinksTx, ErrorCodes
  <1>6. Good(CreateCode(s, env))
    BY <1>1, <1>3, <1>4, <1>5 DEF CreateCode, ErrorCodes
  <1>7. Good(UpdateCode(s, env))
    BY <1>1, <1>3, <1>4, <1>5 DEF UpdateCode, ErrorCodes
  <1>8. Good(DeleteCode(s))
    BY <1>1, <1>2, <1>3 DEF DeleteCode, ErrorCodes
  <1>9. Good(RestoreCode(s))
    BY <1>2, <1>3 DEF RestoreCode, ErrorCodes
  <1>10. Good(PurgeCode(s, env))
    BY <1>2, <1>3 DEF PurgeCode, ErrorCodes, Env, SessionVerdicts
  <1>11. Good(IF checkIdempotency(s) = "REPLAY" THEN authorizeReplayTx(s)
              ELSE checkIdempotency(s))
    BY <1>1, <1>4 DEF ErrorCodes
  <1>12. Good("OK")
    OBVIOUS
  <1> HIDE DEF Good
  <1>13. Good(TxCode(s, env))
    BY <1>6, <1>7, <1>8, <1>9, <1>10, <1>11, <1>12 DEF TxCode
  <1> QED
    BY <1>13 DEF Good

\* failureMetadata has its type.
LEMMA MetadataType ==
    ASSUME TypeOK
    PROVE  /\ NoMetadata \in Metadata
           /\ \A c \in Creds : MetadataOf(c) \in Metadata
           /\ \A s, code : s.q \in Requests /\ s.pc \in StepsOf(s.q) =>
                            TxMetadata(s, code) \in Metadata
  <1>1. NoMetadata \in Metadata
    BY DEF NoMetadata, Metadata
  <1>2. ASSUME NEW c \in Creds PROVE MetadataOf(c) \in Metadata
    BY DEF TypeOK, Row, MetadataOf, Metadata
  <1>3. ASSUME NEW s, NEW code, s.q \in Requests, s.pc \in StepsOf(s.q)
        PROVE  TxMetadata(s, code) \in Metadata
    <2>1. s.q.space \in Spaces
          /\ (s.q.op \notin { "create", "purge_expired" } => s.q.cred \in Creds)
      BY <1>3, RequestFields
    <2>2. CASE s.pc \in { "update", "update_replay", "get_audit", "delete",
                          "restore", "purge" }
      <3>1. s.q.op \notin { "create", "purge_expired" }
        BY <1>3, <2>2 DEF StepsOf
      <3>2. MetadataOf(s.q.cred) \in Metadata
        BY <1>2, <2>1, <3>1
      <3> QED
        BY <1>1, <2>2, <3>2 DEF TxMetadata
    <2>3. CASE s.pc = "create"
      BY <2>1, <2>3 DEF TxMetadata, Metadata
    <2>4. CASE s.pc \notin { "update", "update_replay", "get_audit", "delete",
                             "restore", "purge", "create" }
      BY <1>1, <2>4 DEF TxMetadata
    <2> QED
      BY <2>2, <2>3, <2>4
  <1> QED
    BY <1>1, <1>2, <1>3

\* A step that moves one slot keeps the type of all of them.
LEMMA GotoType ==
    ASSUME slot \in [Reqs -> Slot], SlotsOK, NEW r \in Reqs,
           NEW s \in Slot, SlotOK(s), Goto(r, s)
    PROVE  slot' \in [Reqs -> Slot] /\ SlotsOK'
  <1>1. slot' \in [Reqs -> Slot]
    BY DEF Goto
  <1>2. ASSUME NEW x \in Reqs PROVE SlotOK(slot'[x])
    BY DEF Goto, SlotsOK
  <1> QED
    BY <1>1, <1>2 DEF SlotsOK

\* An agent's change has an idempotency key.
LEMMA IdemKeyType ==
    ASSUME NEW s, s.q \in Requests, s.q.p.kind = "agent",
           s.q.op \in IdemOps, s.q.key # NoKey
    PROVE  IdemKey(s.q) \in IdemKeys /\ Fingerprint(s.q) \in Fingerprints
  BY RequestFields DEF IdemKey, IdemKeys, Fingerprint, Fingerprints

\* saveIdempotency stores a record and an execution.
LEMMA SaveType ==
    ASSUME TypeOK, NEW s \in Slot, s.q \in Requests, s.q.op \in IdemOps,
           s.q.p.kind = "agent" => s.q.key # NoKey,
           NEW c \in Creds, NEW v \in Versions, saveIdempotency(s, c, v)
    PROVE  /\ idem' \in [IdemKeys -> IdemRecord \cup { NoRecord }]
           /\ execs' \subseteq Exec
  <1>1. CASE s.q.p.kind = "agent"
    <2>1. IdemKey(s.q) \in IdemKeys /\ Fingerprint(s.q) \in Fingerprints
      BY <1>1, IdemKeyType
    <2>2. s.at \in Nat /\ s.at + IdemTTL \in Nat /\ now \in Nat
      <3>1. s.at \in Nat
        BY DEF Slot
      <3>2. IdemTTL \in Nat
        BY TimesAssumption
      <3>3. now \in Nat
        BY DEF TypeOK
      <3> QED
        BY <3>1, <3>2, <3>3
    <2>3. trail[c][s.q.op] \in Nat
      BY DEF TypeOK, Kinds, IdemOps, WriteOps
    <2> QED
      BY <1>1, <2>1, <2>2, <2>3 DEF saveIdempotency, TypeOK, IdemRecord, Exec
  <1>2. CASE s.q.p.kind # "agent"
    BY <1>2 DEF saveIdempotency, TypeOK
  <1> QED
    BY <1>1, <1>2

\* AppendTx counts one more event.
LEMMA AppendType ==
    ASSUME TypeOK, NEW c \in Creds, NEW kind \in Kinds, AppendTx(c, kind)
    PROVE  trail' \in [Creds -> [Kinds -> Nat]]
  BY DEF TypeOK, AppendTx

\* DeleteRows keeps the types of the tables.
LEMMA DeleteRowsType ==
    ASSUME TypeOK, NEW C, DeleteRows(C)
    PROVE  /\ row' \in [Creds -> Row]
           /\ versions' \in [Creds -> [Versions -> Payloads \cup { NoPayload }]]
           /\ idem' \in [IdemKeys -> IdemRecord \cup { NoRecord }]
           /\ trail' \in [Creds -> [Kinds -> Nat]]
           /\ execs' \subseteq Exec
  <1>1. row' \in [Creds -> Row]
    <2>1. ASSUME NEW c \in Creds
          PROVE  [row[c] EXCEPT !.state = "purged", !.labels = {},
                                !.links = {}, !.deletedAt = 0] \in Row
      <3>1. row[c] \in Row
        BY DEF TypeOK
      <3> QED
        BY <3>1 DEF Row, States
    <2> QED
      BY <2>1 DEF TypeOK, DeleteRows
  <1>2. versions' \in [Creds -> [Versions -> Payloads \cup { NoPayload }]]
    BY DEF TypeOK, DeleteRows
  <1>3. trail' \in [Creds -> [Kinds -> Nat]]
    <2>1. ASSUME NEW c \in Creds
          PROVE  [trail[c] EXCEPT !["purge"] = @ + 1] \in [Kinds -> Nat]
      <3>1. trail[c] \in [Kinds -> Nat]
        BY DEF TypeOK
      <3> QED
        BY <3>1 DEF Kinds, WriteOps
    <2> QED
      BY <2>1 DEF TypeOK, DeleteRows
  <1> QED
    BY <1>1, <1>2, <1>3 DEF TypeOK, DeleteRows

-----------------------------------------------------------------------------
(***************************************************************************)
(* Every step keeps the types and the control state.                       *)
(***************************************************************************)

\* The steps that only move a slot.
LEMMA SlotStepType ==
    ASSUME TypeOK, SlotsOK, NEW r \in Reqs, NEW s \in Slot, SlotOK(s),
           Goto(r, s), UNCHANGED << tables, maint, ticker, now, begun, delivered >>
    PROVE  TypeOK' /\ SlotsOK'
  <1>1. slot' \in [Reqs -> Slot] /\ SlotsOK'
    BY GotoType DEF TypeOK
  <1> QED
    BY <1>1 DEF TypeOK, tables

\* Begin and Reject.
LEMMA EntryType ==
    ASSUME TypeOK, SlotsOK, NEW r \in Reqs, NEW q \in Requests,
           Begin(r, q) \/ Reject(r, q)
    PROVE  TypeOK' /\ SlotsOK'
  <1>1. EntryCode(q) \in ErrorCodes \cup { "OK" }
    BY AuthorizeCodes DEF EntryCode, ErrorCodes
  <1>2. q.op \in Ops
    BY RequestFields
  <1>3. now \in Nat /\ 0 \in 0..MaxVersion
    BY TimesAssumption DEF TypeOK
  <1>4. PICK s : Goto(r, s) /\ s \in Slot /\ SlotOK(s)
    <2>1. CASE Begin(r, q)
      <3> DEFINE pc == IF EntryCode(q) = "OK" THEN FirstStep(q)
                       ELSE RefusedStep(q)
                 s == [IdleSlot EXCEPT !.q = q, !.at = now,
                                       !.code = EntryCode(q), !.pc = pc]
      <3>1. Goto(r, s)
        BY <2>1 DEF Begin
      <3>2. pc \in { "fail", "done" } \cup TxSteps \cup ReadSteps
        BY <1>2 DEF FirstStep, RefusedStep, Ops, TxSteps, ReadSteps, WriteOps
      <3>3. /\ pc \in StepsOf(q)
            /\ pc # "update_replay" /\ pc # "update"
            /\ pc \in WriteOps \cup { "update_row", "update_tags" } =>
                 (q.p.kind = "agent" => q.key # NoKey)
        BY <1>2 DEF FirstStep, RefusedStep, StepsOf, EntryCode, WriteOps, Ops
      <3> HIDE DEF pc
      <3>4. s \in Slot
        BY <1>1, <1>3, <3>2 DEF Slot, IdleSlot, States
      <3>5. s.pc = pc /\ s.q = q
        BY DEF IdleSlot
      <3>6. SlotOK(s)
        BY <3>3, <3>5 DEF SlotOK
      <3> QED
        BY <3>1, <3>4, <3>6
    <2>2. CASE Reject(r, q)
      <3>1. PICK code \in { "INVALID_INPUT", "NOT_FOUND" } :
              Goto(r, [IdleSlot EXCEPT !.q = q, !.at = now, !.code = code,
                                       !.pc = "fail"])
        BY <2>2 DEF Reject, RejectCodes
      <3> DEFINE s == [IdleSlot EXCEPT !.q = q, !.at = now, !.code = code,
                                       !.pc = "fail"]
      <3>2. s \in Slot
        BY <1>3 DEF Slot, IdleSlot, ErrorCodes, States
      <3>3. SlotOK(s)
        BY <1>2 DEF SlotOK, IdleSlot, StepsOf, WriteOps
      <3> QED
        BY <3>1, <3>2, <3>3
    <2> QED
      BY <2>1, <2>2
  <1>5. slot' \in [Reqs -> Slot] /\ SlotsOK'
    BY <1>4, GotoType DEF TypeOK
  <1>6. begun' \in Nat /\ UNCHANGED << tables, maint, ticker, now, delivered >>
    <2>1. CASE Begin(r, q)
      BY <2>1 DEF Begin, TypeOK
    <2>2. CASE Reject(r, q)
      <3>1. begun' = begun + 1 /\ UNCHANGED << tables, maint, ticker, now, delivered >>
        BY <2>2, Zenon DEF Reject
      <3> QED
        BY <3>1 DEF TypeOK
    <2> QED
      BY <2>1, <2>2
  <1> QED
    BY <1>5, <1>6 DEF TypeOK, tables

\* The snapshot of recordByID.
LEMMA SnapshotType ==
    ASSUME NEW s \in Slot, NEW pc \in TxSteps \cup ReadSteps,
           NEW v \in 0..MaxVersion, NEW d \in States,
           NEW p \in Payloads \cup { NoPayload }, NEW L \in SUBSET Labels
    PROVE  LET t == [s EXCEPT !.pc = pc, !.ver = v, !.state = d,
                              !.payload = p, !.own = L]
           IN  t \in Slot /\ t.pc = pc /\ t.q = s.q
  BY DEF Slot

\* A slot between its entry and its last transaction.
LEMMA SlotOKIntro ==
    ASSUME NEW t, t.q \in Requests, t.pc \in StepsOf(t.q),
           t.pc \in { "get_tags", "get_audit", "update_tags", "update_replay" },
           t.pc \in { "update_tags", "update_replay" } =>
                (t.q.p.kind = "agent" => t.q.key # NoKey),
           t.pc = "update_replay" => t.q.p.kind = "agent"
    PROVE  SlotOK(t)
  BY DEF SlotOK, WriteOps

\* Planned sends a slot to the last transaction of an update or fails it.
LEMMA PlannedType ==
    ASSUME TypeOK, NEW s \in Slot, s.q \in Requests, s.q.op = "update",
           s.q.p.kind = "agent" => s.q.key # NoKey
    PROVE  Planned(s) \in Slot /\ SlotOK(Planned(s))
  <1>1. s.q.cred \in Creds
    BY RequestFields
  <1>2. CASE PlanCode(s) = "OK"
    <2> DEFINE t == [s EXCEPT !.pc = "update"]
    <2>1. t \in Slot /\ t.pc = "update" /\ t.q = s.q /\ t.ver = s.ver
      BY DEF Slot, TxSteps, WriteOps
    <2>2. s.ver = s.q.ver
      BY <1>2 DEF PlanCode
    <2>3. t.pc \in StepsOf(t.q)
      BY <2>1 DEF StepsOf
    <2> HIDE DEF t
    <2>4. SlotOK(t)
      BY <2>1, <2>2, <2>3 DEF SlotOK
    <2> QED
      BY <1>2, <2>1, <2>4 DEF Planned, t
  <1>3. CASE PlanCode(s) # "OK"
    <2>1. PlanCode(s) \in ErrorCodes
      BY <1>3, AuthorizeCodes DEF PlanCode, ErrorCodes
    <2>2. MetadataOf(s.q.cred) \in Metadata
      BY <1>1, MetadataType
    <2> QED
      BY <1>3, <2>1, <2>2, FailedType DEF Planned
  <1> QED
    BY <1>2, <1>3

\* ReadRow, GetTags and UpdateTags.
LEMMA ReadType ==
    ASSUME TypeOK, SlotsOK, RowsOK, NEW r \in Reqs,
           ReadRow(r) \/ GetTags(r) \/ UpdateTags(r)
    PROVE  TypeOK' /\ SlotsOK'
  <1> DEFINE s == slot[r]
             c == s.q.cred
  <1>1. s \in Slot /\ SlotOK(s)
    BY DEF TypeOK, SlotsOK
  <1>2. /\ s.q \in Requests /\ s.pc \in StepsOf(s.q)
        /\ s.pc \in { "get_row", "update_row", "get_tags", "update_tags" }
    BY <1>1 DEF SlotOK, ReadRow, GetTags, UpdateTags
  <1>3. s.q.op \in { "get", "update" }
    BY <1>2, RequestFields DEF StepsOf, Ops, WriteOps
  <1>4. c \in Creds
    BY <1>2, <1>3, RequestFields
  <1>5. row[c] \in Row /\ MetadataOf(c) \in Metadata /\ NoMetadata \in Metadata
    BY <1>4, MetadataType DEF TypeOK
  <1>6. row[c].labels \in SUBSET Labels /\ row[c].ver \in 0..MaxVersion
    BY <1>5 DEF Row
  <1>7. CASE ReadRow(r)
    <2> DEFINE next == IF s.pc = "get_row" THEN "get_tags" ELSE "update_tags"
               v == row[c].ver
               d == row[c].state
               p == versions[c][row[c].ver]
               L == row[c].labels
               t == [s EXCEPT !.pc = next, !.ver = v, !.state = d,
                              !.payload = p, !.own = L]
    <2>1. CASE readable(c, s.q.op = "update") /\ Goto(r, t)
      <3>1. versions[c][row[c].ver] \in Payloads \cup { NoPayload }
        BY <1>4, <2>1 DEF RowsOK, readable, TypeOK
      <3>2. next \in { "get_tags", "update_tags" }
        OBVIOUS
      <3>3. row[c].state \in States
        BY <1>5 DEF Row
      <3>4. t \in Slot /\ t.pc = next /\ t.q = s.q
        <4>1. next \in TxSteps \cup ReadSteps
          BY <3>2 DEF ReadSteps
        <4>2. /\ v \in 0..MaxVersion /\ d \in States
              /\ p \in Payloads \cup { NoPayload } /\ L \in SUBSET Labels
          BY <1>6, <3>1, <3>3
        <4> HIDE DEF next, v, d, p, L
        <4> QED
          BY <1>1, <4>1, <4>2 DEF Slot
      <3>5. /\ next \in StepsOf(s.q)
            /\ next = "update_tags" => (s.q.p.kind = "agent" => s.q.key # NoKey)
        BY <1>1, <1>2, <1>3, <1>7 DEF StepsOf, ReadRow, SlotOK
      <3> HIDE DEF t, next
      <3>6. SlotOK(t)
        BY <1>2, <3>2, <3>4, <3>5, SlotOKIntro
      <3> USE DEF t, next
      <3> QED
        BY <1>7, <2>1, <3>4, <3>6, SlotStepType DEF ReadRow
    <2>2. CASE Goto(r, Failed(s, "NOT_FOUND", NoMetadata))
      <3>1. /\ Failed(s, "NOT_FOUND", NoMetadata) \in Slot
            /\ SlotOK(Failed(s, "NOT_FOUND", NoMetadata))
        BY <1>2, <1>5, FailedType DEF ErrorCodes
      <3> QED
        BY <1>7, <2>2, <3>1, SlotStepType DEF ReadRow
    <2> QED
      BY <1>7, <2>1, <2>2 DEF ReadRow
  <1>8. ASSUME AuthorizeRow(s.q, c) # "OK", NEW x, x.q = s.q
        PROVE  /\ Failed(x, AuthorizeRow(s.q, c), MetadataOf(c)) \in Slot
               /\ SlotOK(Failed(x, AuthorizeRow(s.q, c), MetadataOf(c)))
    <2>1. AuthorizeRow(s.q, c) \in ErrorCodes
      BY <1>8, AuthorizeCodes DEF AuthorizeRow
    <2> QED
      BY <1>2, <1>5, <1>8, <2>1, FailedType
  <1>9. CASE GetTags(r)
    <2> DEFINE t == [s EXCEPT !.pc = "get_audit", !.seen = row[c].labels]
    <2>1. CASE Goto(r, t)
      <3>1. t \in Slot /\ t.pc = "get_audit" /\ t.q = s.q
        BY <1>1, <1>6 DEF Slot, TxSteps
      <3>2. "get_audit" \in StepsOf(s.q)
        BY <1>2, <1>3, <1>9 DEF StepsOf, GetTags
      <3> HIDE DEF t
      <3>3. SlotOK(t)
        BY <1>2, <3>1, <3>2, SlotOKIntro
      <3> USE DEF t
      <3> QED
        BY <1>9, <2>1, <3>1, <3>3, SlotStepType DEF GetTags
    <2>2. CASE /\ AuthorizeRow(s.q, c) # "OK"
               /\ Goto(r, Failed(s, AuthorizeRow(s.q, c), MetadataOf(c)))
      BY <1>8, <1>9, <2>2, SlotStepType DEF GetTags
    <2> QED
      BY <1>9, <2>1, <2>2 DEF GetTags
  <1>10. CASE UpdateTags(r)
    <2> DEFINE t == [s EXCEPT !.seen = row[c].labels]
    <2>1. t \in Slot /\ t.pc = s.pc /\ t.q = s.q
      BY <1>1, <1>6 DEF Slot
    <2>2. CASE /\ AuthorizeRow(s.q, c) # "OK"
               /\ Goto(r, Failed(t, AuthorizeRow(s.q, c), MetadataOf(c)))
      BY <1>8, <1>10, <2>1, <2>2, SlotStepType DEF UpdateTags
    <2>3. CASE s.q.p.kind = "agent" /\ Goto(r, [t EXCEPT !.pc = "update_replay"])
      <3> DEFINE x == [t EXCEPT !.pc = "update_replay"]
      <3>1. x \in Slot /\ x.pc = "update_replay" /\ x.q = s.q
        BY <2>1 DEF Slot, TxSteps
      <3>2. /\ "update_replay" \in StepsOf(s.q)
            /\ s.q.key # NoKey
        BY <1>1, <1>2, <1>3, <1>10, <2>3 DEF SlotOK, StepsOf, UpdateTags
      <3> HIDE DEF x
      <3>3. SlotOK(x)
        BY <1>2, <2>3, <3>1, <3>2, SlotOKIntro
      <3> USE DEF x
      <3> QED
        BY <1>10, <2>3, <3>1, <3>3, SlotStepType DEF UpdateTags
    <2>4. CASE Goto(r, Planned(t))
      <3>1. s.q.op = "update" /\ (s.q.p.kind = "agent" => s.q.key # NoKey)
        BY <1>1, <1>2, <1>3, <1>10 DEF SlotOK, StepsOf, UpdateTags
      <3> HIDE DEF t
      <3>2. Planned(t) \in Slot /\ SlotOK(Planned(t))
        BY <1>2, <2>1, <3>1, PlannedType
      <3> USE DEF t
      <3> QED
        BY <1>10, <2>4, <3>2, SlotStepType DEF UpdateTags
    <2> QED
      BY <1>10, <2>1, <2>2, <2>3, <2>4 DEF UpdateTags
  <1> QED
    BY <1>7, <1>9, <1>10

\* GetAudit.
LEMMA GetAuditType ==
    ASSUME TypeOK, SlotsOK, NEW r \in Reqs, GetAudit(r)
    PROVE  TypeOK' /\ SlotsOK'
  <1> DEFINE s == slot[r]
  <1>1. s \in Slot /\ s.q \in Requests /\ s.pc \in StepsOf(s.q)
    BY DEF TypeOK, SlotsOK, SlotOK, GetAudit
  <1>2. s.q.op \in Ops
    BY <1>1, RequestFields
  <1>3. s.q.op = "get"
    BY <1>1, <1>2 DEF StepsOf, GetAudit, Ops, WriteOps
  <1>4. s.q.cred \in Creds /\ s.ver \in 0..MaxVersion
    BY <1>1, <1>3, RequestFields DEF Slot
  <1>5. slot' \in [Reqs -> Slot] /\ SlotsOK'
    BY <1>1, <1>4, SucceededType, GotoType DEF GetAudit, TypeOK
  <1>6. trail' \in [Creds -> [Kinds -> Nat]]
    BY <1>4, AppendType DEF GetAudit, Kinds
  <1> QED
    BY <1>5, <1>6 DEF GetAudit, TypeOK

\* UpdateReplayMiss.
LEMMA ReplayMissType ==
    ASSUME TypeOK, SlotsOK, NEW r \in Reqs, UpdateReplayMiss(r)
    PROVE  TypeOK' /\ SlotsOK'
  <1> DEFINE s == slot[r]
  <1>1. /\ s \in Slot /\ s.q \in Requests /\ s.pc \in StepsOf(s.q)
        /\ s.q.p.kind = "agent" => s.q.key # NoKey
    BY DEF TypeOK, SlotsOK, SlotOK, UpdateReplayMiss
  <1>2. s.q.op \in Ops
    BY <1>1, RequestFields
  <1>3. s.q.op = "update"
    BY <1>1, <1>2 DEF StepsOf, UpdateReplayMiss, Ops, WriteOps
  <1>4. Planned(s) \in Slot /\ SlotOK(Planned(s))
    BY <1>1, <1>3, PlannedType
  <1>5. slot' \in [Reqs -> Slot] /\ SlotsOK'
    BY <1>4, GotoType DEF UpdateReplayMiss, TypeOK
  <1>6. idem' \in [IdemKeys -> IdemRecord \cup { NoRecord }]
    BY DEF UpdateReplayMiss, TypeOK
  <1> QED
    BY <1>5, <1>6 DEF UpdateReplayMiss, TypeOK

\* Update.
LEMMA UpdateType ==
    ASSUME TypeOK, SlotsOK, RowsOK, NEW r \in Reqs, Update(r)
    PROVE  TypeOK' /\ SlotsOK' /\ RowsOK'
  <1> DEFINE s == slot[r]
             c == s.q.cred
             v == s.ver + 1
  <1>1. /\ s \in Slot /\ s.q \in Requests /\ s.pc \in StepsOf(s.q)
        /\ s.q.p.kind = "agent" => s.q.key # NoKey
        /\ s.ver = s.q.ver
    BY DEF TypeOK, SlotsOK, SlotOK, Update, WriteOps
  <1>2. s.q.op \in Ops
    BY <1>1, RequestFields
  <1>3. s.q.op = "update"
    BY <1>1, <1>2 DEF StepsOf, Update, Ops, WriteOps
  <1>4. /\ c \in Creds /\ s.q.ver \in 0..MaxVersion /\ s.q.ver < MaxVersion
        /\ s.q.labels \in { Keep } \cup SUBSET Labels
        /\ s.q.links \in { Keep } \cup SUBSET Assets
        /\ s.q.payload \in Payloads \cup { Keep }
    BY <1>1, <1>3, RequestFields
  <1>5. v \in Versions
    BY <1>1, <1>4, TimesAssumption DEF Versions
  <1>6. slot' \in [Reqs -> Slot] /\ SlotsOK'
    <2>1. v \in 0..MaxVersion
      BY <1>5 DEF Versions
    <2> QED
      BY <1>1, <1>4, <2>1, SucceededType, GotoType DEF Update, TypeOK
  <1>7. trail' \in [Creds -> [Kinds -> Nat]]
    BY <1>4, AppendType DEF Update, Kinds, WriteOps
  <1>8. idem' \in [IdemKeys -> IdemRecord \cup { NoRecord }] /\ execs' \subseteq Exec
    BY <1>1, <1>3, <1>4, <1>5, SaveType DEF Update, IdemOps
  <1>9. versions' \in [Creds -> [Versions -> Payloads \cup { NoPayload }]]
    <2>1. UpdatedPayload(s) \in Payloads \cup { NoPayload }
      BY <1>1, <1>4 DEF UpdatedPayload, Slot
    <2> QED
      BY <1>4, <1>5, <2>1 DEF Update, TypeOK
  <1>10. row' \in [Creds -> Row] /\ RowsOK'
    <2>1. row[c] \in Row
      BY <1>4 DEF TypeOK
    <2> DEFINE L == IF s.q.labels = Keep THEN row[c].labels ELSE s.q.labels
               K == IF s.q.links = Keep THEN row[c].links ELSE s.q.links
    <2>2. L \in SUBSET Labels /\ K \in SUBSET Assets
      BY <1>4, <2>1 DEF Row
    <2>3. v \in 0..MaxVersion
      BY <1>5 DEF Versions
    <2>4. row' = [row EXCEPT ![c] = [row[c] EXCEPT !.ver = v, !.labels = L,
                                                   !.links = K]]
      BY <1>4 DEF Update, TypeOK, Row
    <2> HIDE DEF L, K, v
    <2>5. LET x == [row[c] EXCEPT !.ver = v, !.labels = L, !.links = K]
          IN  x \in Row /\ x.ver = v
      BY <2>1, <2>2, <2>3 DEF Row
    <2> QED
      BY <1>4, <1>5, <2>4, <2>5 DEF TypeOK, RowsOK
  <1> QED
    BY <1>6, <1>7, <1>8, <1>9, <1>10 DEF Update, TypeOK

\* A slot at the transaction of a single-transaction operation.
LEMMA TxSlot ==
    ASSUME TypeOK, SlotsOK, NEW r \in Reqs, slot[r].pc \in Ops \ { "get" },
           slot[r].pc # "update"
    PROVE  /\ slot[r] \in Slot /\ slot[r].q \in Requests
           /\ slot[r].q.op = slot[r].pc
           /\ slot[r].pc \notin { "create", "purge_expired" } =>
                slot[r].q.cred \in Creds
           /\ slot[r].q.ver \in 0..MaxVersion
           /\ slot[r].pc # "purge_expired" =>
                (slot[r].q.p.kind = "agent" => slot[r].q.key # NoKey)
  <1>1. SlotOK(slot[r]) /\ slot[r] \in Slot
    BY DEF SlotsOK, TypeOK
  <1>2. slot[r].q \in Requests /\ slot[r].pc \in StepsOf(slot[r].q)
    BY <1>1 DEF SlotOK, Ops, WriteOps
  <1>3. slot[r].q.op = slot[r].pc
    BY <1>2 DEF StepsOf, Ops, WriteOps
  <1>4. slot[r].pc # "purge_expired" /\ slot[r].q.p.kind = "agent" =>
            slot[r].q.key # NoKey
    BY <1>1 DEF SlotOK, Ops, WriteOps
  <1> QED
    BY <1>1, <1>2, <1>3, <1>4, RequestFields

\* Create.
LEMMA CreateType ==
    ASSUME TypeOK, SlotsOK, RowsOK, NEW r \in Reqs, NEW c \in Creds,
           Create(r, c)
    PROVE  TypeOK' /\ SlotsOK' /\ RowsOK'
  <1> DEFINE s == slot[r]
  <1>1. /\ s \in Slot /\ s.q \in Requests /\ s.q.op = "create"
        /\ s.q.p.kind = "agent" => s.q.key # NoKey
    BY TxSlot DEF Create, Ops, WriteOps
  <1>2. /\ s.q.space \in Spaces /\ s.q.labels \in SUBSET Labels
        /\ s.q.links \in SUBSET Assets /\ s.q.payload \in Payloads
    BY <1>1, RequestFields
  <1>3. 1 \in Versions /\ 1 \in 0..MaxVersion
    BY TimesAssumption DEF Versions
  <1>4. slot' \in [Reqs -> Slot] /\ SlotsOK'
    BY <1>1, <1>3, SucceededType, GotoType DEF Create, TypeOK
  <1>5. trail' \in [Creds -> [Kinds -> Nat]]
    BY AppendType DEF Create, Kinds, WriteOps
  <1>6. idem' \in [IdemKeys -> IdemRecord \cup { NoRecord }] /\ execs' \subseteq Exec
    BY <1>1, <1>3, SaveType DEF Create, IdemOps
  <1>7. versions' \in [Creds -> [Versions -> Payloads \cup { NoPayload }]]
    BY <1>2, <1>3 DEF Create, TypeOK
  <1>8. row' \in [Creds -> Row] /\ RowsOK'
    BY <1>2, <1>3 DEF Create, TypeOK, RowsOK, Row, States
  <1> QED
    BY <1>4, <1>5, <1>6, <1>7, <1>8 DEF Create, TypeOK

\* Delete and Restore.
LEMMA DeleteRestoreType ==
    ASSUME TypeOK, SlotsOK, RowsOK, NEW r \in Reqs, Delete(r) \/ Restore(r)
    PROVE  TypeOK' /\ SlotsOK' /\ RowsOK'
  <1> DEFINE s == slot[r]
             c == s.q.cred
  <1>1. /\ s \in Slot /\ s.q \in Requests /\ c \in Creds
        /\ s.q.op = s.pc /\ s.q.ver \in 0..MaxVersion
        /\ s.q.p.kind = "agent" => s.q.key # NoKey
    BY TxSlot DEF Delete, Restore, Ops, WriteOps
  <1>2. slot' \in [Reqs -> Slot] /\ SlotsOK'
    BY <1>1, SucceededType, GotoType DEF Delete, Restore, TypeOK
  <1>3. trail' \in [Creds -> [Kinds -> Nat]]
    BY <1>1, AppendType DEF Delete, Restore, Kinds, WriteOps
  <1>4. row[c] \in Row /\ s.at \in Nat
    BY <1>1 DEF TypeOK, Slot
  <1>5. CASE Delete(r)
    <2>1. row[c].state = "live" /\ row[c].ver = s.q.ver
      BY <1>5, CheckCodes DEF Delete, DeleteCode, Exists
    <2>2. s.q.ver \in Versions
      BY <1>1, <2>1 DEF RowsOK
    <2>3. idem' \in [IdemKeys -> IdemRecord \cup { NoRecord }]
          /\ execs' \subseteq Exec
      BY <1>1, <1>5, <2>2, SaveType DEF Delete, IdemOps
    <2>4. row' \in [Creds -> Row] /\ RowsOK'
      <3>1. LET x == [row[c] EXCEPT !.state = "deleted", !.deletedAt = s.at]
            IN  x \in Row /\ x.ver = row[c].ver
        BY <1>4 DEF Row, States
      <3>2. row' = [row EXCEPT ![c] = [row[c] EXCEPT !.state = "deleted",
                                                     !.deletedAt = s.at]]
        BY <1>1, <1>4, <1>5 DEF Delete, TypeOK, Row
      <3> QED
        BY <1>1, <2>1, <2>2, <3>1, <3>2 DEF TypeOK, RowsOK
    <2> QED
      BY <1>2, <1>3, <1>5, <2>3, <2>4 DEF Delete, TypeOK
  <1>6. CASE Restore(r)
    <2>1. row[c].state = "deleted"
      BY <1>6 DEF Restore, RestoreCode
    <2>2. row' \in [Creds -> Row] /\ RowsOK'
      <3>1. LET x == [row[c] EXCEPT !.state = "live", !.deletedAt = 0]
            IN  x \in Row /\ x.ver = row[c].ver
        BY <1>4 DEF Row, States
      <3>2. row' = [row EXCEPT ![c] = [row[c] EXCEPT !.state = "live",
                                                     !.deletedAt = 0]]
        BY <1>1, <1>4, <1>6 DEF Restore, TypeOK, Row
      <3> QED
        BY <1>1, <2>1, <3>1, <3>2 DEF TypeOK, RowsOK
    <2> QED
      BY <1>2, <1>3, <1>6, <2>2 DEF Restore, TypeOK
  <1> QED
    BY <1>5, <1>6

\* The purges: of one credential and of the expired ones.
LEMMA PurgeType ==
    ASSUME TypeOK, SlotsOK, RowsOK,
           (\E r \in Reqs : Purge(r) \/ PurgeExpired(r))
              \/ PurgeExpiredMaintenance
    PROVE  TypeOK' /\ SlotsOK' /\ RowsOK'
  <1>1. ASSUME NEW C, DeleteRows(C),
               \A c \in C \cap Creds : row[c].state = "deleted"
        PROVE  RowsOK'
    <2>1. ASSUME NEW c \in Creds, row'[c].state # "free"
          PROVE  row'[c].ver \in Versions
      <3>1. CASE c \in C
        <4>1. row[c] \in Row /\ row[c].ver \in Versions
          BY <1>1, <3>1 DEF TypeOK, RowsOK
        <4>2. row'[c] = [row[c] EXCEPT !.state = "purged", !.labels = {},
                                       !.links = {}, !.deletedAt = 0]
          BY <1>1, <3>1 DEF DeleteRows
        <4> QED
          BY <4>1, <4>2 DEF Row
      <3>2. CASE c \notin C
        BY <1>1, <2>1, <3>2 DEF DeleteRows, RowsOK
      <3> QED
        BY <3>1, <3>2
    <2> QED
      BY <2>1 DEF RowsOK
  <1>2. CASE \E r \in Reqs : Purge(r) \/ PurgeExpired(r)
    <2>1. PICK r \in Reqs : Purge(r) \/ PurgeExpired(r)
      BY <1>2
    <2>2. CASE Purge(r)
      <3> DEFINE s == slot[r]
      <3>1. /\ s \in Slot /\ s.q \in Requests /\ s.q.cred \in Creds
            /\ s.q.ver \in 0..MaxVersion
        BY <2>2, TxSlot DEF Purge, Ops, WriteOps
      <3>2. slot' \in [Reqs -> Slot] /\ SlotsOK'
        BY <2>2, <3>1, SucceededType, GotoType DEF Purge, TypeOK
      <3>3. row[s.q.cred].state = "deleted"
        BY <2>2 DEF Purge, PurgeCode
      <3>4. RowsOK'
        BY <1>1, <2>2, <3>3 DEF Purge
      <3> QED
        BY <2>2, <3>2, <3>4, DeleteRowsType DEF Purge, TypeOK
    <2>3. CASE PurgeExpired(r)
      <3> DEFINE s == slot[r]
      <3>1. s \in Slot /\ s.q \in Requests
        BY <2>3, TxSlot DEF PurgeExpired, Ops
      <3>2. 0 \in 0..MaxVersion
        BY TimesAssumption
      <3>3. slot' \in [Reqs -> Slot] /\ SlotsOK'
        BY <2>3, <3>1, <3>2, SucceededType, GotoType DEF PurgeExpired, TypeOK
      <3>4. RowsOK'
        BY <1>1, <2>3 DEF PurgeExpired, Expired
      <3> QED
        BY <2>3, <3>3, <3>4, DeleteRowsType DEF PurgeExpired, TypeOK
    <2> QED
      BY <2>1, <2>2, <2>3
  <1>3. CASE PurgeExpiredMaintenance
    <2>1. RowsOK'
      BY <1>1, <1>3 DEF PurgeExpiredMaintenance, Expired
    <2>2. maint' \in [pc : { "idle", "purge", "cleanup" }, started : Nat]
      BY <1>3 DEF PurgeExpiredMaintenance, TypeOK
    <2> QED
      BY <1>3, <2>1, <2>2, DeleteRowsType
      DEF PurgeExpiredMaintenance, TypeOK, SlotsOK
  <1> QED
    BY <1>2, <1>3

\* The other ends of a transaction, the failure event and the response.
LEMMA EndType ==
    ASSUME TypeOK, SlotsOK, NEW r \in Reqs,
           \/ Replay(r) \/ Refuse(r) \/ EarlyError(r) \/ LateError(r)
           \/ AppendFailure(r) \/ AppendFailureError(r) \/ Return(r)
    PROVE  TypeOK' /\ SlotsOK'
  <1> DEFINE s == slot[r]
  <1>1. s \in Slot /\ SlotOK(s)
    BY DEF TypeOK, SlotsOK
  <1>2. s.q \in Requests /\ s.pc \in StepsOf(s.q)
    BY <1>1 DEF SlotOK, Replay, Refuse, EarlyError, LateError, AppendFailure,
                AppendFailureError, Return, IdemOps, TxSteps, ReadSteps,
                WriteOps
  <1>3. s.q.op \in Ops
    BY <1>2, RequestFields
  <1>4. \A code : TxMetadata(s, code) \in Metadata
    BY <1>2, MetadataType
  <1>5. CASE Replay(r)
    <2> DEFINE record == idem[IdemKey(s.q)]
    <2>1. checkIdempotency(s) = "REPLAY"
      BY <1>5, TxCodes DEF Replay
    <2>2. s.q.p.kind = "agent" /\ record # NoRecord
      BY <2>1, CheckCodes
    <2>3. s.q.op \in IdemOps /\ s.q.key # NoKey
      BY <1>1, <1>2, <1>3, <1>5, <2>2
      DEF Replay, SlotOK, StepsOf, IdemOps, WriteOps, Ops
    <2>4. record \in IdemRecord
      BY <1>2, <2>2, <2>3, IdemKeyType DEF TypeOK
    <2>5. record.cred \in Creds /\ record.ver \in 0..MaxVersion
      BY <2>4 DEF IdemRecord, Versions
    <2> QED
      BY <1>1, <1>2, <1>5, <2>5, SucceededType, SlotStepType DEF Replay
  <1>6. CASE Refuse(r)
    <2>1. PICK env \in Env : /\ TxCode(s, env) \in ErrorCodes
                             /\ Goto(r, Failed(s, TxCode(s, env),
                                        TxMetadata(s, TxCode(s, env))))
      BY <1>6 DEF Refuse
    <2> QED
      BY <1>2, <1>4, <1>6, <2>1, FailedType, SlotStepType DEF Refuse
  <1>7. CASE EarlyError(r)
    <2> DEFINE m == IF s.pc \in { "update", "update_replay", "get_audit" }
                    THEN MetadataOf(s.q.cred) ELSE NoMetadata
    <2>1. m \in Metadata
      <3>1. CASE s.pc \in { "update", "update_replay", "get_audit" }
        <4>1. s.q.op \in { "update", "get" }
          BY <1>2, <1>3, <3>1 DEF StepsOf, Ops, WriteOps
        <4>2. s.q.cred \in Creds
          BY <1>2, <4>1, RequestFields
        <4> QED
          BY <3>1, <4>2, MetadataType
      <3>2. CASE s.pc \notin { "update", "update_replay", "get_audit" }
        BY <3>2, MetadataType
      <3> QED
        BY <3>1, <3>2
    <2>2. PICK code \in EarlyCodes(s.pc) : Goto(r, Failed(s, code, m))
      BY <1>7 DEF EarlyError
    <2>3. code \in ErrorCodes
      BY <2>2 DEF EarlyCodes, ErrorCodes
    <2> HIDE DEF m
    <2> QED
      BY <1>2, <1>7, <2>1, <2>2, <2>3, FailedType, SlotStepType DEF EarlyError
  <1>8. CASE LateError(r)
    <2>1. PICK code \in { "INTERNAL_ERROR", "AUDIT_UNAVAILABLE" } :
             Goto(r, Failed(s, code, TxMetadata(s, code)))
      BY <1>8 DEF LateError
    <2>2. code \in ErrorCodes
      BY <2>1 DEF ErrorCodes
    <2> QED
      BY <1>2, <1>4, <1>8, <2>1, <2>2, FailedType, SlotStepType DEF LateError
  <1>9. CASE AppendFailure(r) \/ AppendFailureError(r)
    <2>1. PICK code \in ErrorCodes \cup { "OK" },
               cred \in Creds \cup { NoCred }, space \in Spaces \cup { NoSpace } :
             Goto(r, [s EXCEPT !.pc = "done", !.code = code, !.cred = cred,
                               !.space = space])
      <3>1. CASE AppendFailure(r)
        <4> DEFINE m == IF Concealed(s.code) THEN NoMetadata
                        ELSE [cred |-> s.cred, space |-> s.space]
        <4>1. /\ m.cred \in Creds \cup { NoCred }
              /\ m.space \in Spaces \cup { NoSpace }
              /\ s.code \in ErrorCodes \cup { "OK" }
          BY <1>1 DEF NoMetadata, Slot
        <4>2. Goto(r, [s EXCEPT !.pc = "done", !.cred = m.cred,
                                !.space = m.space])
          BY <3>1 DEF AppendFailure
        <4> HIDE DEF m
        <4>3. [s EXCEPT !.pc = "done", !.cred = m.cred, !.space = m.space]
              = [s EXCEPT !.pc = "done", !.code = s.code, !.cred = m.cred,
                          !.space = m.space]
          BY <1>1 DEF Slot
        <4> QED
          BY <4>1, <4>2, <4>3
      <3>2. CASE AppendFailureError(r)
        BY <3>2 DEF AppendFailureError, ErrorCodes
      <3> QED
        BY <1>9, <3>1, <3>2
    <2> DEFINE t == [s EXCEPT !.pc = "done", !.code = code, !.cred = cred,
                              !.space = space]
    <2>2. t \in Slot /\ t.pc = "done" /\ t.q = s.q
      BY <1>1 DEF Slot
    <2>3. "done" \in StepsOf(s.q)
      BY DEF StepsOf
    <2> HIDE DEF t
    <2>4. SlotOK(t)
      BY <1>2, <2>2, <2>3 DEF SlotOK, WriteOps
    <2> QED
      BY <1>9, <2>1, <2>2, <2>4, SlotStepType
      DEF AppendFailure, AppendFailureError, t
  <1>10. CASE Return(r)
    <2>1. IdleSlot \in Slot /\ SlotOK(IdleSlot)
      BY TimesAssumption DEF IdleSlot, Slot, SlotOK, States
    <2>2. slot' \in [Reqs -> Slot] /\ SlotsOK'
      BY <1>10, <2>1, GotoType DEF Return, TypeOK
    <2>3. delivered' \in [Creds -> Nat]
      <3> DEFINE d == [delivered EXCEPT ![s.cred] = @ + 1]
      <3>1. delivered \in [Creds -> Nat]
        BY DEF TypeOK
      <3>2. CASE s.cred \in Creds
        BY <1>10, <3>1, <3>2 DEF Return
      <3>3. CASE s.cred \notin Creds
        BY <1>10, <3>1, <3>3, d = delivered DEF Return
      <3> QED
        BY <3>2, <3>3
    <2> QED
      BY <1>10, <2>2, <2>3 DEF Return, TypeOK, tables
  <1> QED
    BY <1>5, <1>6, <1>7, <1>8, <1>9, <1>10

\* The ticker of the maintenance loop.
LEMMA NewTickerType == NewTicker \in Tickers
  <1>1. 0 \in 0..(Interval - 1)
    BY TimesAssumption
  <1> QED
    BY <1>1, Zenon DEF NewTicker, Tickers

LEMMA AdvancedType ==
    ASSUME NEW t \in Tickers
    PROVE  Advanced(t) \in Tickers
  <1> DEFINE phase == (t.phase + 1) % Interval
  <1>1. t.phase \in 0..(Interval - 1)
    BY DEF Tickers
  <1>2. phase \in 0..(Interval - 1)
    BY <1>1, TimesAssumption
  <1>3. Advanced(t) = [phase |-> phase, full |-> t.full \/ phase = 0]
    BY Zenon DEF Advanced
  <1>4. (t.full \/ phase = 0) \in BOOLEAN
    BY Zenon
  <1> HIDE DEF phase
  <1> QED
    BY <1>2, <1>3, <1>4 DEF Tickers

\* The maintenance, a crash and the clock.
LEMMA OtherType ==
    ASSUME TypeOK, SlotsOK,
           MaintStart \/ cleanupExpiredState \/ MaintError \/ Crash \/ Tick
    PROVE  TypeOK' /\ SlotsOK'
  <1>1. IdleMaint \in [pc : { "idle", "purge", "cleanup" }, started : Nat]
    BY DEF IdleMaint
  <1>2. CASE MaintStart
    <2>1. [ticker EXCEPT !.full = FALSE] \in Tickers
      BY DEF TypeOK, Tickers
    <2> QED
      BY <1>2, <2>1 DEF MaintStart, TypeOK, SlotsOK, tables
  <1>3. CASE cleanupExpiredState
    BY <1>1, <1>3 DEF cleanupExpiredState, TypeOK, SlotsOK
  <1>4. CASE MaintError
    BY <1>1, <1>4 DEF MaintError, TypeOK, SlotsOK, tables
  <1>5. CASE Crash
    <2>1. IdleSlot \in Slot /\ SlotOK(IdleSlot)
      BY TimesAssumption DEF IdleSlot, Slot, SlotOK, States
    <2>2. NewTicker \in Tickers
      BY NewTickerType
    <2> QED
      BY <1>1, <1>5, <2>1, <2>2 DEF Crash, TypeOK, SlotsOK, tables
  <1>6. CASE Tick
    <2>1. Advanced(ticker) \in Tickers
      BY AdvancedType DEF TypeOK
    <2>2. now' \in Nat
      BY <1>6 DEF Tick, TypeOK
    <2> QED
      BY <1>6, <2>1, <2>2 DEF Tick, TypeOK, SlotsOK, tables
  <1> QED
    BY <1>2, <1>3, <1>4, <1>5, <1>6

-----------------------------------------------------------------------------

\* The invariant of types and control state is inductive.
LEMMA TypeInductive ==
    ASSUME TypeOK, SlotsOK, RowsOK, [Next]_vars
    PROVE  TypeOK' /\ SlotsOK' /\ RowsOK'
  <1>1. UNCHANGED row /\ RowsOK => RowsOK'
    BY DEF RowsOK
  <1>2. CASE UNCHANGED vars
    BY <1>1, <1>2 DEF vars, tables, TypeOK, SlotsOK
  <1>3. ASSUME NEW r \in Reqs, RequestStep(r)
        PROVE  TypeOK' /\ SlotsOK' /\ RowsOK'
    <2>1. CASE \E q \in Requests : Begin(r, q) \/ Reject(r, q)
      BY <1>1, <2>1, EntryType DEF Begin, Reject, tables
    <2>2. CASE ReadRow(r) \/ GetTags(r) \/ UpdateTags(r)
      BY <1>1, <2>2, ReadType DEF ReadRow, GetTags, UpdateTags, tables
    <2>3. CASE GetAudit(r)
      BY <1>1, <2>3, GetAuditType DEF GetAudit
    <2>4. CASE UpdateReplayMiss(r)
      BY <1>1, <2>4, ReplayMissType DEF UpdateReplayMiss
    <2>5. CASE Update(r)
      BY <2>5, UpdateType
    <2>6. CASE \E c \in Creds : Create(r, c)
      BY <2>6, CreateType
    <2>7. CASE Delete(r) \/ Restore(r)
      BY <2>7, DeleteRestoreType
    <2>8. CASE Purge(r) \/ PurgeExpired(r)
      BY <2>8, PurgeType
    <2>9. CASE \/ Replay(r) \/ Refuse(r) \/ EarlyError(r) \/ LateError(r)
               \/ AppendFailure(r) \/ AppendFailureError(r) \/ Return(r)
      <3>1. UNCHANGED row
        BY <2>9 DEF Replay, Refuse, EarlyError, LateError, AppendFailure,
                    AppendFailureError, Return, tables
      <3> QED
        BY <1>1, <2>9, <3>1, EndType
    <2> QED
      BY <1>3, <2>1, <2>2, <2>3, <2>4, <2>5, <2>6, <2>7, <2>8, <2>9
      DEF RequestStep
  <1>4. CASE MaintenanceStep
    <2>1. CASE PurgeExpiredMaintenance
      BY <2>1, PurgeType
    <2>2. CASE MaintStart \/ cleanupExpiredState \/ MaintError
      BY <1>1, <2>2, OtherType
      DEF MaintStart, cleanupExpiredState, MaintError, tables
    <2> QED
      BY <1>4, <2>1, <2>2 DEF MaintenanceStep
  <1>5. CASE Crash \/ Tick
    BY <1>1, <1>5, OtherType DEF Crash, Tick, tables
  <1> QED
    BY <1>2, <1>3, <1>4, <1>5 DEF Next

\* Every variable keeps its type and every request the control state its
\* handler gives it (TypeOK of module Credentials), for every instance.
THEOREM TypeCorrect == Spec => [](TypeOK /\ SlotsOK /\ RowsOK)
  <1>1. Init => TypeOK /\ SlotsOK /\ RowsOK
    <2> SUFFICES ASSUME Init PROVE TypeOK /\ SlotsOK /\ RowsOK
      OBVIOUS
    <2>1. IdleSlot \in Slot /\ SlotOK(IdleSlot)
      BY TimesAssumption DEF IdleSlot, Slot, SlotOK, States
    <2>2. FreeRow \in Row /\ FreeRow.state = "free"
      BY TimesAssumption DEF FreeRow, Row, States
    <2> QED
      BY <2>1, <2>2, NewTickerType
      DEF Init, TypeOK, SlotsOK, RowsOK, IdleMaint
  <1>2. TypeOK /\ SlotsOK /\ RowsOK /\ [Next]_vars =>
            TypeOK' /\ SlotsOK' /\ RowsOK'
    BY TypeInductive
  <1> QED
    BY <1>1, <1>2, PTL DEF Spec

-----------------------------------------------------------------------------
(***************************************************************************)
(* At most one change per key.  AgentAtMostOnce is not inductive: it says  *)
(* nothing of the record that stops the second change.  RecordsCover adds  *)
(* it, and TimeOK that no step works with a time of the future.            *)
(***************************************************************************)

TimeOK == (\A r \in Reqs : slot[r].at <= now) /\ maint.started <= now

\* A change whose retention is not over still has its record, or a later
\* record of its key.
RecordsCover ==
    \A e \in execs :
        \/ now + 1 >= e.at + IdemTTL
        \/ /\ idem[e.key] # NoRecord
           /\ idem[e.key].expires >= e.at + IdemTTL

OnceInv == TimeOK /\ RecordsCover /\ AgentAtMostOnce

\* The order of the stored text is wrong by at most one tick.
LEMMA LexLEBound ==
    ASSUME NEW a \in Nat, NEW b \in Nat, LexLE(a, b)
    PROVE  a <= b + 1
  <1>1. a % 2 \in { 0, 1 } /\ b % 2 \in { 0, 1 }
    OBVIOUS
  <1>2. CASE a % 2 = 0 /\ b % 2 = 0
    BY <1>2 DEF LexLE, Stamp
  <1>3. CASE a % 2 = 1 /\ b % 2 = 1
    BY <1>3 DEF LexLE, Stamp
  <1>4. CASE a % 2 = 0 /\ b % 2 = 1
    BY <1>4 DEF LexLE, Stamp
  <1>5. CASE a % 2 = 1 /\ b % 2 = 0
    BY <1>5 DEF LexLE, Stamp
  <1> QED
    BY <1>1, <1>2, <1>3, <1>4, <1>5

\* The types of what is compared.
LEMMA OnceTypes ==
    ASSUME TypeOK
    PROVE  /\ now \in Nat /\ IdemTTL \in Nat
           /\ \A e \in execs : e.at \in Nat /\ e.done \in Nat /\ e.key \in IdemKeys
           /\ \A k \in IdemKeys : idem[k] # NoRecord => idem[k].expires \in Nat
           /\ \A r \in Reqs : slot[r].at \in Nat
           /\ maint.started \in Nat
  <1>1. now \in Nat /\ IdemTTL \in Nat
    BY TimesAssumption DEF TypeOK
  <1>2. \A e \in execs : e.at \in Nat /\ e.done \in Nat /\ e.key \in IdemKeys
    BY DEF TypeOK, Exec
  <1>3. \A k \in IdemKeys : idem[k] # NoRecord => idem[k].expires \in Nat
    BY DEF TypeOK, IdemRecord
  <1>4. \A r \in Reqs : slot[r].at \in Nat
    BY DEF TypeOK, Slot
  <1>5. maint.started \in Nat
    BY DEF TypeOK
  <1> QED
    BY <1>1, <1>2, <1>3, <1>4, <1>5

\* If no record of its key is in force, the retention of a change is over.
LEMMA MissIsLate ==
    ASSUME TypeOK, RecordsCover, NEW e \in execs, NEW at \in Nat, at <= now,
           ~ lookupIdempotency(e.key, at)
    PROVE  now + 1 >= e.at + IdemTTL
  BY OnceTypes DEF RecordsCover, lookupIdempotency

\* A change that is saved after a miss keeps the invariant.
LEMMA SaveOnce ==
    ASSUME TypeOK, OnceInv, NEW s \in Slot, s.q \in Requests,
           s.q.op \in IdemOps, s.q.p.kind = "agent" => s.q.key # NoKey,
           s.at <= now, checkIdempotency(s) = "MISS",
           NEW c \in Creds, NEW v \in Versions, saveIdempotency(s, c, v),
           now' = now
    PROVE  RecordsCover' /\ AgentAtMostOnce'
  <1>1. CASE s.q.p.kind # "agent"
    BY <1>1 DEF saveIdempotency, OnceInv, RecordsCover, AgentAtMostOnce
  <1>2. CASE s.q.p.kind = "agent"
    <2> DEFINE k == IdemKey(s.q)
               f == [ key |-> k, fp |-> Fingerprint(s.q), cred |-> c, ver |-> v,
                      nth |-> trail[c][s.q.op], at |-> s.at, done |-> now ]
               rec == [ fp |-> Fingerprint(s.q), cred |-> c, ver |-> v,
                        expires |-> s.at + IdemTTL ]
    <2>1. k \in IdemKeys
      BY <1>2, IdemKeyType
    <2>2. execs' = execs \cup { f } /\ idem' = [idem EXCEPT ![k] = rec]
      BY <1>2 DEF saveIdempotency
    <2>3. f.key = k /\ f.at = s.at /\ f.done = now /\ rec.expires = s.at + IdemTTL
      OBVIOUS
    <2>4. s.at \in Nat
      BY DEF Slot
    <2>5. ~ lookupIdempotency(k, s.at)
      BY <1>2 DEF checkIdempotency
    <2>6. \A e \in execs : e.key = k => now + 1 >= e.at + IdemTTL
      BY <2>4, <2>5, MissIsLate DEF OnceInv
    <2>7. idem'[k] = rec /\ (\A x \in IdemKeys : x # k => idem'[x] = idem[x])
      BY <2>1, <2>2 DEF TypeOK
    <2>8. rec # NoRecord
      <3>1. rec \in IdemRecord
        BY <1>2, <2>4, IdemKeyType, OnceTypes DEF IdemRecord
      <3> QED
        BY <3>1, NoRecordAssumption
    <2> HIDE DEF k, f, rec
    <2>9. RecordsCover'
      <3>1. ASSUME NEW e \in execs'
            PROVE  \/ now + 1 >= e.at + IdemTTL
                   \/ idem'[e.key] # NoRecord
                      /\ idem'[e.key].expires >= e.at + IdemTTL
        <4>1. CASE e = f
          BY <2>3, <2>4, <2>7, <2>8, <4>1, OnceTypes
        <4>2. CASE e \in execs /\ e.key = k
          BY <2>6, <4>2
        <4>3. CASE e \in execs /\ e.key # k
          BY <2>7, <4>3, OnceTypes DEF OnceInv, RecordsCover
        <4> QED
          BY <2>2, <4>1, <4>2, <4>3
      <3> QED
        BY <3>1 DEF RecordsCover
    <2>10. AgentAtMostOnce'
      <3>1. ASSUME NEW e \in execs', NEW g \in execs', e # g, e.key = g.key
            PROVE  \/ g.done + 1 >= e.at + IdemTTL
                   \/ e.done + 1 >= g.at + IdemTTL
        <4>1. CASE e \in execs /\ g \in execs
          BY <3>1, <4>1 DEF OnceInv, AgentAtMostOnce
        <4>2. CASE e = f /\ g \in execs
          BY <2>3, <2>6, <3>1, <4>2
        <4>3. CASE e \in execs /\ g = f
          BY <2>3, <2>6, <3>1, <4>3
        <4> QED
          BY <2>2, <3>1, <4>1, <4>2, <4>3
      <3> QED
        BY <3>1 DEF AgentAtMostOnce
    <2> QED
      BY <2>9, <2>10
  <1> QED
    BY <1>1, <1>2
\* A step that moves a slot to a time that has come keeps TimeOK.
LEMMA GotoTime ==
    ASSUME TypeOK, TimeOK, NEW r \in Reqs, NEW t, t.at <= now, Goto(r, t),
           UNCHANGED << maint, now >>
    PROVE  TimeOK'
  BY DEF TypeOK, TimeOK, Goto

\* A slot that has ended carries no time.
LEMMA EndedAt ==
    ASSUME NEW s, NEW code, NEW m, NEW c, NEW v
    PROVE  /\ Failed(s, code, m).at = 0 /\ Succeeded(s, c, v).at = 0
           /\ IdleSlot.at = 0
  BY DEF Failed, Succeeded, IdleSlot

\* Planned keeps the time of the operation or ends it.
LEMMA PlannedAt ==
    ASSUME TypeOK, NEW s \in Slot, s.at <= now
    PROVE  Planned(s).at <= now
  <1>1. now \in Nat
    BY DEF TypeOK
  <1>2. [s EXCEPT !.pc = "update"].at = s.at
    BY DEF Slot
  <1>3. Failed(s, PlanCode(s), MetadataOf(s.q.cred)).at = 0
    BY EndedAt
  <1> QED
    BY <1>1, <1>2, <1>3 DEF Planned

\* The request steps keep TimeOK: a request takes its time from the clock
\* when it begins, and keeps it.
LEMMA RequestTime ==
    ASSUME TypeOK, TimeOK, NEW r \in Reqs, RequestStep(r)
    PROVE  TimeOK'
  <1> DEFINE s == slot[r]
             c == s.q.cred
  <1>1. s \in Slot /\ s.at <= now /\ s.at \in Nat /\ now \in Nat /\ 0 <= now
    BY DEF TypeOK, TimeOK, Slot
  <1>2. ASSUME NEW q \in Requests, Begin(r, q) PROVE TimeOK'
    <2> DEFINE pc == IF EntryCode(q) = "OK" THEN FirstStep(q) ELSE RefusedStep(q)
               code == EntryCode(q)
               t == [IdleSlot EXCEPT !.q = q, !.at = now, !.code = code, !.pc = pc]
    <2>1. Goto(r, t) /\ UNCHANGED << maint, now >>
      BY <1>2 DEF Begin
    <2> HIDE DEF pc, code
    <2>2. t.at <= now
      BY <1>1 DEF IdleSlot
    <2> HIDE DEF t
    <2> QED
      BY <2>1, <2>2, GotoTime
  <1>3. ASSUME NEW q \in Requests, Reject(r, q) PROVE TimeOK'
    <2>1. PICK code \in RejectCodes(q.op) :
            Goto(r, [IdleSlot EXCEPT !.q = q, !.at = now, !.code = code,
                                     !.pc = "fail"])
      BY <1>3 DEF Reject
    <2>2. UNCHANGED << maint, now >>
      BY <1>3, Zenon DEF Reject
    <2>3. [IdleSlot EXCEPT !.q = q, !.at = now, !.code = code,
                           !.pc = "fail"].at <= now
      BY <1>1 DEF IdleSlot
    <2> QED
      BY <2>1, <2>2, <2>3, GotoTime
  <1>4. ASSUME ReadRow(r) PROVE TimeOK'
    <2> DEFINE next == IF s.pc = "get_row" THEN "get_tags" ELSE "update_tags"
               v == row[c].ver
               d == row[c].state
               p == versions[c][row[c].ver]
               L == row[c].labels
               t == [s EXCEPT !.pc = next, !.ver = v, !.state = d,
                              !.payload = p, !.own = L]
    <2>1. Goto(r, t) \/ Goto(r, Failed(s, "NOT_FOUND", NoMetadata))
      BY <1>4 DEF ReadRow
    <2>2. UNCHANGED << maint, now >>
      BY <1>4, Zenon DEF ReadRow
    <2> HIDE DEF next, v, d, p, L
    <2>3. t.at <= now
      BY <1>1 DEF Slot
    <2>4. Failed(s, "NOT_FOUND", NoMetadata).at <= now
      BY <1>1, EndedAt
    <2> HIDE DEF t
    <2> QED
      BY <2>1, <2>2, <2>3, <2>4, GotoTime
  <1>5. ASSUME GetTags(r) PROVE TimeOK'
    <2> DEFINE L == row[c].labels
               t == [s EXCEPT !.pc = "get_audit", !.seen = L]
               f == Failed(s, AuthorizeRow(s.q, c), MetadataOf(c))
    <2>1. Goto(r, t) \/ Goto(r, f)
      BY <1>5 DEF GetTags
    <2>2. UNCHANGED << maint, now >>
      BY <1>5, Zenon DEF GetTags
    <2> HIDE DEF L
    <2>3. t.at <= now /\ f.at <= now
      BY <1>1, EndedAt DEF Slot
    <2> HIDE DEF t, f
    <2> QED
      BY <2>1, <2>2, <2>3, GotoTime
  <1>6. ASSUME UpdateTags(r) PROVE TimeOK'
    <2> DEFINE L == row[c].labels
               t == [s EXCEPT !.seen = L]
               u == [t EXCEPT !.pc = "update_replay"]
               f == Failed(t, AuthorizeRow(t.q, c), MetadataOf(c))
    <2>1. Goto(r, f) \/ Goto(r, u) \/ Goto(r, Planned(t))
      BY <1>6 DEF UpdateTags
    <2>2. UNCHANGED << maint, now >>
      BY <1>6, Zenon DEF UpdateTags
    <2>3. CASE ~ Goto(r, Planned(t))
      <3> HIDE DEF L
      <3>1. u.at <= now /\ f.at <= now
        BY <1>1, EndedAt DEF Slot
      <3> HIDE DEF t, u, f
      <3> QED
        BY <2>1, <2>2, <2>3, <3>1, GotoTime
    <2>4. CASE Goto(r, Planned(t))
      <3>1. t.at = s.at
        BY <1>1 DEF Slot
      <3>2. now \in Nat /\ [t EXCEPT !.pc = "update"].at = s.at
        BY <1>1 DEF Slot
      <3>3. Failed(t, PlanCode(t), MetadataOf(t.q.cred)).at = 0
        BY EndedAt
      <3> HIDE DEF t
      <3>4. Planned(t).at <= now
        BY <1>1, <3>1, <3>2, <3>3 DEF Planned
      <3> QED
        BY <2>2, <2>4, <3>4, GotoTime
    <2> QED
      BY <2>3, <2>4
  <1>7. ASSUME UpdateReplayMiss(r) PROVE TimeOK'
    <2>1. Planned(s).at <= now
      BY <1>1, PlannedAt
    <2> QED
      BY <1>7, <2>1, GotoTime DEF UpdateReplayMiss
  <1>8. ASSUME NEW t, t.at = 0, Goto(r, t), UNCHANGED << maint, now >>
        PROVE  TimeOK'
    BY <1>1, <1>8, GotoTime
  <1>9. CASE GetAudit(r)
    BY <1>8, <1>9, EndedAt DEF GetAudit
  <1>10. CASE Update(r)
    BY <1>8, <1>10, EndedAt DEF Update
  <1>11. ASSUME NEW x \in Creds, Create(r, x) PROVE TimeOK'
    BY <1>8, <1>11, EndedAt DEF Create
  <1>12. CASE Delete(r)
    BY <1>8, <1>12, EndedAt DEF Delete
  <1>13. CASE Restore(r)
    BY <1>8, <1>13, EndedAt DEF Restore
  <1>14. CASE Purge(r)
    BY <1>8, <1>14, EndedAt DEF Purge
  <1>15. CASE PurgeExpired(r)
    BY <1>8, <1>15, EndedAt DEF PurgeExpired
  <1>16. CASE Replay(r)
    BY <1>8, <1>16, EndedAt DEF Replay
  <1>17. CASE Refuse(r)
    BY <1>8, <1>17, EndedAt DEF Refuse
  <1>18. CASE EarlyError(r)
    BY <1>8, <1>18, EndedAt DEF EarlyError
  <1>19. CASE LateError(r)
    BY <1>8, <1>19, EndedAt DEF LateError
  <1>20. CASE AppendFailure(r)
    <2> DEFINE m == IF Concealed(s.code) THEN NoMetadata
                    ELSE [cred |-> s.cred, space |-> s.space]
               a == m.cred
               b == m.space
               t == [s EXCEPT !.pc = "done", !.cred = a, !.space = b]
    <2>1. Goto(r, t) /\ UNCHANGED << maint, now >>
      BY <1>20 DEF AppendFailure
    <2> HIDE DEF a, b
    <2>2. t.at <= now
      BY <1>1 DEF Slot
    <2> HIDE DEF t
    <2> QED
      BY <2>1, <2>2, GotoTime
  <1>21. CASE AppendFailureError(r)
    <2> DEFINE t == [s EXCEPT !.pc = "done", !.code = "AUDIT_UNAVAILABLE",
                              !.cred = NoCred, !.space = NoSpace]
    <2>1. Goto(r, t) /\ UNCHANGED << maint, now >>
      BY <1>21 DEF AppendFailureError
    <2>2. t.at <= now
      BY <1>1 DEF Slot
    <2> HIDE DEF t
    <2> QED
      BY <2>1, <2>2, GotoTime
  <1>22. CASE Return(r)
    BY <1>8, <1>22, EndedAt DEF Return
  <1> QED
    BY <1>2, <1>3, <1>4, <1>5, <1>6, <1>7, <1>9, <1>10, <1>11, <1>12, <1>13,
       <1>14, <1>15, <1>16, <1>17, <1>18, <1>19, <1>20, <1>21, <1>22
    DEF RequestStep

\* A step that changes neither records nor executions, and takes no time
\* back, keeps the rest of the invariant.
LEMMA FrameOnce ==
    ASSUME TypeOK, OnceInv, UNCHANGED << idem, execs >>, now' \in Nat, now <= now'
    PROVE  RecordsCover' /\ AgentAtMostOnce'
  <1>1. RecordsCover'
    <2>1. ASSUME NEW e \in execs
          PROVE  \/ now' + 1 >= e.at + IdemTTL
                 \/ idem[e.key] # NoRecord /\ idem[e.key].expires >= e.at + IdemTTL
      BY OnceTypes DEF OnceInv, RecordsCover
    <2> QED
      BY <2>1 DEF RecordsCover
  <1>2. AgentAtMostOnce'
    BY DEF OnceInv, AgentAtMostOnce
  <1> QED
    BY <1>1, <1>2

\* A step that only removes records that are of no more use keeps it too.
LEMMA RemoveOnce ==
    ASSUME TypeOK, OnceInv, NEW K,
           idem' = [k \in IdemKeys |-> IF k \in K THEN NoRecord ELSE idem[k]],
           \A e \in execs : e.key \in K => now + 1 >= e.at + IdemTTL,
           UNCHANGED << execs, now >>
    PROVE  RecordsCover' /\ AgentAtMostOnce'
  <1>1. ASSUME NEW e \in execs
        PROVE  \/ now + 1 >= e.at + IdemTTL
               \/ idem'[e.key] # NoRecord /\ idem'[e.key].expires >= e.at + IdemTTL
    BY OnceTypes DEF OnceInv, RecordsCover
  <1> QED
    BY <1>1 DEF OnceInv, RecordsCover, AgentAtMostOnce

\* A change commits only after checkIdempotency found nothing.
LEMMA CommitsMiss ==
    ASSUME NEW s, NEW env
    PROVE  /\ CreateCode(s, env) = "OK" => checkIdempotency(s) = "MISS"
           /\ UpdateCode(s, env) = "OK" => checkIdempotency(s) = "MISS"
           /\ DeleteCode(s) = "OK" => checkIdempotency(s) = "MISS"
  <1>1. checkIdempotency(s) \in { "MISS", "IDEMPOTENCY_CONFLICT", "REPLAY" }
    BY CheckCodes
  <1>2. authorizeReplayTx(s) # "OK"
    BY DEF authorizeReplayTx
  <1> QED
    BY <1>1, <1>2 DEF CreateCode, UpdateCode, DeleteCode

\* OnceInv is inductive.
LEMMA OnceInductive ==
    ASSUME TypeOK, SlotsOK, RowsOK, OnceInv, [Next]_vars
    PROVE  OnceInv'
  <1>1. now \in Nat /\ maint.started \in Nat /\ maint.started <= now /\ TimeOK
    BY OnceTypes DEF OnceInv, TimeOK
  <1>2. ASSUME UNCHANGED << idem, execs, now >>
        PROVE  RecordsCover' /\ AgentAtMostOnce'
    BY <1>1, <1>2, FrameOnce
  <1>3. ASSUME NEW r \in Reqs, RequestStep(r) PROVE OnceInv'
    <2> DEFINE s == slot[r]
    <2>1. TimeOK'
      BY <1>1, <1>3, RequestTime
    <2>2. s \in Slot /\ s.at <= now /\ s.at \in Nat
      BY OnceTypes DEF OnceInv, TimeOK, TypeOK
    <2>3. CASE UNCHANGED << idem, execs, now >>
      BY <1>2, <2>1, <2>3 DEF OnceInv
    <2>4. CASE UpdateReplayMiss(r)
      <3> DEFINE k == IdemKey(s.q)
      <3>1. idem' = [idem EXCEPT ![k] = NoRecord]
        BY <2>4 DEF UpdateReplayMiss
      <3>2. idem' = [x \in IdemKeys |-> IF x \in { k } THEN NoRecord ELSE idem[x]]
        BY <3>1 DEF TypeOK
      <3>3. s.q.p.kind = "agent" /\ ~ lookupIdempotency(k, s.at)
        BY <2>4 DEF UpdateReplayMiss, SlotsOK, SlotOK, checkIdempotency
      <3>4. \A e \in execs : e.key \in { k } => now + 1 >= e.at + IdemTTL
        BY <2>2, <3>3, MissIsLate DEF OnceInv
      <3>5. UNCHANGED << execs, now >>
        BY <2>4 DEF UpdateReplayMiss
      <3> HIDE DEF k
      <3> QED
        BY <2>1, <3>2, <3>4, <3>5, RemoveOnce DEF OnceInv
    <2>5. ASSUME NEW c \in Creds, NEW v \in Versions, saveIdempotency(s, c, v),
                 checkIdempotency(s) = "MISS", now' = now,
                 s.q \in Requests, s.q.op \in IdemOps,
                 s.q.p.kind = "agent" => s.q.key # NoKey
          PROVE  OnceInv'
      BY <2>1, <2>2, <2>5, SaveOnce DEF OnceInv
    <2>6. ASSUME NEW c \in Creds, Create(r, c) PROVE OnceInv'
      <3>1. /\ s.q \in Requests /\ s.q.op = "create"
            /\ s.q.p.kind = "agent" => s.q.key # NoKey
        BY <2>6, TxSlot DEF Create, Ops, WriteOps
      <3>2. 1 \in Versions
        BY TimesAssumption DEF Versions
      <3>3. checkIdempotency(s) = "MISS"
        BY <2>6, CommitsMiss DEF Create
      <3> QED
        BY <2>5, <2>6, <3>1, <3>2, <3>3 DEF Create, IdemOps
    <2>7. CASE Update(r)
      <3>1. /\ s.q \in Requests /\ s.pc \in StepsOf(s.q)
            /\ s.q.p.kind = "agent" => s.q.key # NoKey
            /\ s.ver = s.q.ver
        BY <2>7 DEF SlotsOK, SlotOK, Update, WriteOps
      <3>2. s.q.op \in Ops
        BY <3>1, RequestFields
      <3>3. s.q.op = "update"
        BY <2>7, <3>1, <3>2 DEF StepsOf, Update, Ops, WriteOps
      <3>4. s.q.cred \in Creds /\ s.q.ver \in 0..MaxVersion /\ s.q.ver < MaxVersion
        BY <3>1, <3>3, RequestFields
      <3>5. s.ver + 1 \in Versions
        BY <3>1, <3>4, TimesAssumption DEF Versions
      <3>6. checkIdempotency(s) = "MISS"
        BY <2>7, CommitsMiss DEF Update
      <3> QED
        BY <2>5, <2>7, <3>1, <3>3, <3>4, <3>5, <3>6 DEF Update, IdemOps
    <2>8. CASE Delete(r)
      <3>1. /\ s.q \in Requests /\ s.q.op = "delete" /\ s.q.cred \in Creds
            /\ s.q.p.kind = "agent" => s.q.key # NoKey
        BY <2>8, TxSlot DEF Delete, Ops, WriteOps
      <3>2. checkIdempotency(s) = "MISS"
        BY <2>8, CommitsMiss DEF Delete
      <3>3. row[s.q.cred].state = "live" /\ row[s.q.cred].ver = s.q.ver
        BY <2>8, CheckCodes DEF Delete, DeleteCode, Exists
      <3>4. s.q.ver \in Versions
        BY <3>1, <3>3 DEF RowsOK
      <3> QED
        BY <2>5, <2>8, <3>1, <3>2, <3>4 DEF Delete, IdemOps
    <2>9. CASE \E q \in Requests : Begin(r, q) \/ Reject(r, q)
      <3>1. UNCHANGED << tables, now >>
        BY <2>9, Zenon DEF Begin, Reject
      <3> QED
        BY <2>3, <3>1 DEF tables
    <2>10. CASE ReadRow(r) \/ GetTags(r) \/ UpdateTags(r)
      BY <2>3, <2>10 DEF ReadRow, GetTags, UpdateTags, tables
    <2>11. CASE GetAudit(r) \/ Restore(r)
      BY <2>3, <2>11 DEF GetAudit, Restore
    <2>12. CASE Purge(r) \/ PurgeExpired(r)
      BY <2>3, <2>12 DEF Purge, PurgeExpired, DeleteRows
    <2>13. CASE \/ Replay(r) \/ Refuse(r) \/ EarlyError(r) \/ LateError(r)
                \/ AppendFailure(r) \/ AppendFailureError(r) \/ Return(r)
      BY <2>3, <2>13 DEF Replay, Refuse, EarlyError, LateError, AppendFailure,
                         AppendFailureError, Return, tables
    <2> QED
      BY <1>3, <2>4, <2>6, <2>7, <2>8, <2>9, <2>10, <2>11, <2>12, <2>13
      DEF RequestStep
  <1>4. CASE MaintStart \/ PurgeExpiredMaintenance \/ MaintError
    <2>1. UNCHANGED << idem, execs, now, slot >>
      BY <1>4 DEF MaintStart, PurgeExpiredMaintenance, DeleteRows, MaintError,
                  tables
    <2>2. maint'.started <= now
      BY <1>1, <1>4 DEF MaintStart, PurgeExpiredMaintenance, MaintError,
                        IdleMaint, TypeOK
    <2> QED
      BY <1>1, <1>2, <2>1, <2>2 DEF OnceInv, TimeOK
  <1>5. CASE cleanupExpiredState
    <2> DEFINE K == { k \in IdemKeys : CleanedUp(k, maint.started) }
    <2>1. idem' = [k \in IdemKeys |-> IF k \in K THEN NoRecord ELSE idem[k]]
      BY <1>5 DEF cleanupExpiredState
    <2>2. ASSUME NEW e \in execs, e.key \in K
          PROVE  now + 1 >= e.at + IdemTTL
      <3>1. /\ e.key \in IdemKeys /\ idem[e.key] # NoRecord
            /\ LexLE(idem[e.key].expires, maint.started)
        BY <2>2 DEF CleanedUp
      <3>2. idem[e.key].expires \in Nat
        BY <3>1, OnceTypes
      <3>3. idem[e.key].expires <= maint.started + 1
        BY <1>1, <3>1, <3>2, LexLEBound
      <3> QED
        BY <1>1, <3>2, <3>3, OnceTypes DEF OnceInv, RecordsCover
    <2>3. UNCHANGED << execs, now >> /\ UNCHANGED slot /\ maint' = IdleMaint
      BY <1>5 DEF cleanupExpiredState
    <2> HIDE DEF K
    <2>4. RecordsCover' /\ AgentAtMostOnce'
      BY <2>1, <2>2, <2>3, RemoveOnce
    <2>5. TimeOK'
      BY <1>1, <2>3 DEF TimeOK, IdleMaint
    <2> QED
      BY <2>4, <2>5 DEF OnceInv
  <1>6. CASE Crash
    <2>1. TimeOK'
      BY <1>1, <1>6, EndedAt DEF Crash, TimeOK, IdleMaint
    <2> QED
      BY <1>2, <1>6, <2>1 DEF Crash, OnceInv, tables
  <1>7. CASE Tick
    <2>1. TimeOK'
      BY <1>1, <1>7, OnceTypes DEF Tick, TimeOK
    <2>2. now' \in Nat /\ now <= now' /\ UNCHANGED << idem, execs >>
      BY <1>1, <1>7 DEF Tick, tables
    <2> QED
      BY <2>1, <2>2, FrameOnce DEF OnceInv
  <1>8. CASE UNCHANGED vars
    <2>1. TimeOK'
      BY <1>1, <1>8 DEF vars, TimeOK
    <2> QED
      BY <1>2, <1>8, <2>1 DEF vars, tables, OnceInv
  <1> QED
    BY <1>3, <1>4, <1>5, <1>6, <1>7, <1>8 DEF Next, MaintenanceStep

LEMMA OnceAlways == Spec => []OnceInv
  <1>1. Init => OnceInv
    <2> SUFFICES ASSUME Init PROVE OnceInv
      OBVIOUS
    <2>1. TimeOK
      <3>1. ASSUME NEW r \in Reqs PROVE slot[r].at <= now
        BY EndedAt DEF Init
      <3>2. maint.started <= now
        BY DEF Init, IdleMaint
      <3> QED
        BY <3>1, <3>2 DEF TimeOK
    <2>2. execs = {}
      BY DEF Init
    <2> QED
      BY <2>1, <2>2 DEF OnceInv, RecordsCover, AgentAtMostOnce
  <1>2. TypeOK /\ SlotsOK /\ RowsOK /\ OnceInv /\ [Next]_vars => OnceInv'
    BY OnceInductive
  <1> QED
    BY <1>1, <1>2, TypeCorrect, PTL DEF Spec

\* An agent's change is made at most once per key while its record is
\* retained (AgentAtMostOnce): checkIdempotency and saveIdempotency run in
\* the transaction of the change, and neither the deletion of an expired
\* record by an update nor the nightly cleanup opens a gap.
THEOREM AgentChangesOnce == Spec => []AgentAtMostOnce
  <1>1. OnceInv => AgentAtMostOnce
    BY DEF OnceInv
  <1> QED
    BY <1>1, OnceAlways, PTL

-----------------------------------------------------------------------------
(***************************************************************************)
(* The audit trail.  TrailMatchesState becomes inductive once it says that *)
(* an identifier that is still free has no version: each change and its    *)
(* event are in one transaction.                                           *)
(***************************************************************************)

\* What TrailMatchesState says of a row and its events, and of a free row.
Matches(x, n) ==
    /\ n["create"] = IF x.state = "free" THEN 0 ELSE 1
    /\ x.ver = n["create"] + n["update"]
    /\ n["delete"] = n["restore"] +
            IF x.state \in { "deleted", "purged" } THEN 1 ELSE 0
    /\ n["purge"] = IF x.state = "purged" THEN 1 ELSE 0
    /\ x.state = "free" => x.ver = 0

TrailInv == \A c \in Creds : Matches(row[c], trail[c])

\* A step that changes one credential and counts its event keeps the match
\* of the others.
LEMMA OneMatches ==
    ASSUME TypeOK, TrailInv, NEW c \in Creds, NEW kind \in Kinds,
           AppendTx(c, kind), \A x \in Creds : x # c => row'[x] = row[x],
           Matches(row'[c], [trail[c] EXCEPT ![kind] = @ + 1])
    PROVE  TrailInv'
  <1>1. /\ trail'[c] = [trail[c] EXCEPT ![kind] = @ + 1]
        /\ \A x \in Creds : x # c => trail'[x] = trail[x]
    BY DEF AppendTx, TypeOK
  <1>2. ASSUME NEW x \in Creds PROVE Matches(row'[x], trail'[x])
    <2>1. CASE x = c
      BY <1>1, <2>1
    <2>2. CASE x # c
      BY <1>1, <2>2 DEF TrailInv
    <2> QED
      BY <2>1, <2>2
  <1> QED
    BY <1>2 DEF TrailInv

\* A purge of deleted credentials counts one event for each of them.
LEMMA PurgeMatches ==
    ASSUME TypeOK, TrailInv, NEW C, DeleteRows(C),
           \A c \in C \cap Creds : row[c].state = "deleted"
    PROVE  TrailInv'
  <1>1. ASSUME NEW c \in Creds PROVE Matches(row'[c], trail'[c])
    <2>1. row[c] \in Row /\ trail[c] \in [Kinds -> Nat]
      BY DEF TypeOK
    <2>2. Matches(row[c], trail[c])
      BY DEF TrailInv
    <2>3. CASE c \in C
      <3>1. row'[c] = [row[c] EXCEPT !.state = "purged", !.labels = {},
                                     !.links = {}, !.deletedAt = 0]
        BY <2>3 DEF DeleteRows
      <3>2. row'[c].state = "purged" /\ row'[c].ver = row[c].ver
        BY <2>1, <3>1 DEF Row
      <3>3. trail'[c] = [trail[c] EXCEPT !["purge"] = @ + 1]
        BY <2>3 DEF DeleteRows
      <3>4. /\ trail'[c]["purge"] = trail[c]["purge"] + 1
            /\ \A k \in Kinds : k # "purge" => trail'[c][k] = trail[c][k]
        BY <2>1, <3>3 DEF Kinds, WriteOps
      <3> QED
        BY <2>2, <2>3, <3>2, <3>4 DEF Matches, Kinds, WriteOps
    <2>4. CASE c \notin C
      BY <2>2, <2>4 DEF DeleteRows
    <2> QED
      BY <2>3, <2>4
  <1> QED
    BY <1>1 DEF TrailInv

\* TrailInv is inductive.
LEMMA TrailInductive ==
    ASSUME TypeOK, SlotsOK, TrailInv, [Next]_vars
    PROVE  TrailInv'
  <1>1. CASE UNCHANGED << row, trail >>
    BY <1>1 DEF TrailInv
  <1>2. ASSUME NEW c \in Creds
        PROVE  /\ row[c] \in Row /\ trail[c] \in [Kinds -> Nat]
               /\ Matches(row[c], trail[c])
    BY DEF TypeOK, TrailInv
  <1>3. { "create", "update", "delete", "restore", "read" } \subseteq Kinds
        /\ "purge" \in Kinds
    BY DEF Kinds, WriteOps
  <1>4. ASSUME NEW r \in Reqs, RequestStep(r) PROVE TrailInv'
    <2> DEFINE s == slot[r]
               c == s.q.cred
    <2>1. ASSUME NEW x \in Creds, Create(r, x) PROVE TrailInv'
      <3> DEFINE y == [ state |-> "live", space |-> s.q.space, ver |-> 1,
                        labels |-> s.q.labels, links |-> s.q.links,
                        deletedAt |-> 0 ]
      <3>1. row[x].state = "free" /\ row' = [row EXCEPT ![x] = y]
            /\ AppendTx(x, "create")
        BY <2>1 DEF Create
      <3>2. y.state = "live" /\ y.ver = 1
        OBVIOUS
      <3> HIDE DEF y
      <3>3. row'[x] = y /\ \A z \in Creds : z # x => row'[z] = row[z]
        BY <3>1 DEF TypeOK
      <3>4. row[x].ver \in Nat
        BY <1>2, TimesAssumption DEF Row
      <3>5. Matches(y, [trail[x] EXCEPT !["create"] = @ + 1])
        BY <1>2, <1>3, <3>1, <3>2 DEF Matches
      <3> QED
        BY <1>3, <3>1, <3>3, <3>5, OneMatches
    <2>2. CASE Update(r)
      <3>1. s.q \in Requests /\ s.pc \in StepsOf(s.q) /\ s.ver = s.q.ver
        BY <2>2 DEF SlotsOK, SlotOK, Update, WriteOps
      <3>2. s.q.op \in Ops
        BY <3>1, RequestFields
      <3>3. s.q.op = "update"
        BY <2>2, <3>1, <3>2 DEF StepsOf, Update, Ops, WriteOps
      <3>4. c \in Creds
        BY <3>1, <3>3, RequestFields
      <3>5. row[c].state = "live" /\ row[c].ver = s.ver
        <4>1. PICK env \in Env : UpdateCode(s, env) = "OK"
          BY <2>2 DEF Update
        <4>2. authorizeReplayTx(s) # "OK"
          BY DEF authorizeReplayTx
        <4> QED
          BY <3>1, <4>1, <4>2, CommitsMiss DEF UpdateCode, CasMatches
      <3>6. /\ row'[c].state = row[c].state /\ row'[c].ver = s.ver + 1
            /\ \A z \in Creds : z # c => row'[z] = row[z]
        BY <1>2, <2>2, <3>4 DEF Update, TypeOK, Row
      <3>7. Matches(row'[c], [trail[c] EXCEPT !["update"] = @ + 1])
        BY <1>2, <1>3, <3>4, <3>5, <3>6 DEF Matches
      <3> QED
        BY <1>3, <2>2, <3>4, <3>6, <3>7, OneMatches DEF Update
    <2>3. CASE Delete(r)
      <3>1. c \in Creds
        BY <2>3, TxSlot DEF Delete, Ops, WriteOps
      <3>2. row[c].state = "live"
        BY <2>3, CheckCodes DEF Delete, DeleteCode, Exists
      <3>3. /\ row'[c].state = "deleted" /\ row'[c].ver = row[c].ver
            /\ \A z \in Creds : z # c => row'[z] = row[z]
        BY <1>2, <2>3, <3>1 DEF Delete, TypeOK, Row
      <3>4. Matches(row'[c], [trail[c] EXCEPT !["delete"] = @ + 1])
        BY <1>2, <1>3, <3>1, <3>2, <3>3 DEF Matches
      <3> QED
        BY <1>3, <2>3, <3>1, <3>3, <3>4, OneMatches DEF Delete
    <2>4. CASE Restore(r)
      <3>1. c \in Creds
        BY <2>4, TxSlot DEF Restore, Ops, WriteOps
      <3>2. row[c].state = "deleted"
        BY <2>4 DEF Restore, RestoreCode
      <3>3. /\ row'[c].state = "live" /\ row'[c].ver = row[c].ver
            /\ \A z \in Creds : z # c => row'[z] = row[z]
        BY <1>2, <2>4, <3>1 DEF Restore, TypeOK, Row
      <3>4. Matches(row'[c], [trail[c] EXCEPT !["restore"] = @ + 1])
        BY <1>2, <1>3, <3>1, <3>2, <3>3 DEF Matches
      <3> QED
        BY <1>3, <2>4, <3>1, <3>3, <3>4, OneMatches DEF Restore
    <2>5. CASE GetAudit(r)
      <3>1. s.q \in Requests /\ s.pc \in StepsOf(s.q)
        BY <2>5 DEF SlotsOK, SlotOK, GetAudit
      <3>2. s.q.op \in Ops
        BY <3>1, RequestFields
      <3>3. s.q.op = "get"
        BY <2>5, <3>1, <3>2 DEF StepsOf, GetAudit, Ops, WriteOps
      <3>4. c \in Creds
        BY <3>1, <3>3, RequestFields
      <3>5. Matches(row[c], [trail[c] EXCEPT !["read"] = @ + 1])
        BY <1>2, <1>3, <3>4 DEF Matches
      <3> QED
        BY <1>3, <2>5, <3>4, <3>5, OneMatches DEF GetAudit
    <2>6. CASE Purge(r)
      <3>1. row[c].state = "deleted"
        BY <2>6 DEF Purge, PurgeCode
      <3> QED
        BY <2>6, <3>1, PurgeMatches DEF Purge
    <2>7. CASE PurgeExpired(r)
      BY <2>7, PurgeMatches DEF PurgeExpired, Expired
    <2>8. CASE \E q \in Requests : Begin(r, q) \/ Reject(r, q)
      <3>1. UNCHANGED tables
        BY <2>8, Zenon DEF Begin, Reject
      <3> QED
        BY <1>1, <3>1 DEF tables
    <2>9. CASE ReadRow(r) \/ GetTags(r) \/ UpdateTags(r) \/ UpdateReplayMiss(r)
      BY <1>1, <2>9 DEF ReadRow, GetTags, UpdateTags, UpdateReplayMiss, tables
    <2>10. CASE \/ Replay(r) \/ Refuse(r) \/ EarlyError(r) \/ LateError(r)
                \/ AppendFailure(r) \/ AppendFailureError(r) \/ Return(r)
      BY <1>1, <2>10 DEF Replay, Refuse, EarlyError, LateError, AppendFailure,
                         AppendFailureError, Return, tables
    <2> QED
      BY <1>4, <2>1, <2>2, <2>3, <2>4, <2>5, <2>6, <2>7, <2>8, <2>9, <2>10
      DEF RequestStep
  <1>5. CASE PurgeExpiredMaintenance
    BY <1>5, PurgeMatches DEF PurgeExpiredMaintenance, Expired
  <1>6. CASE MaintStart \/ cleanupExpiredState \/ MaintError \/ Crash \/ Tick
    BY <1>1, <1>6 DEF MaintStart, cleanupExpiredState, MaintError, Crash, Tick,
                      tables
  <1>7. CASE UNCHANGED vars
    BY <1>1, <1>7 DEF vars, tables
  <1> QED
    BY <1>4, <1>5, <1>6, <1>7 DEF Next, MaintenanceStep

\* The success events of a credential tell its version and its state
\* (TrailMatchesState): no change commits without its event, and no event
\* without its change, whatever rolls back or crashes.
THEOREM TrailTellsState == Spec => []TrailMatchesState
  <1>1. Init => TrailInv
    <2> SUFFICES ASSUME Init, NEW c \in Creds
                 PROVE  Matches(row[c], trail[c])
      BY DEF TrailInv
    <2>1. row[c].state = "free" /\ row[c].ver = 0
      BY DEF Init, FreeRow
    <2>2. \A k \in Kinds : trail[c][k] = 0
      BY DEF Init
    <2> QED
      BY <2>1, <2>2 DEF Matches, Kinds, WriteOps
  <1>2. TypeOK /\ SlotsOK /\ RowsOK /\ TrailInv /\ [Next]_vars
            => TrailInv'
    BY TrailInductive
  <1>3. TrailInv => TrailMatchesState
    BY DEF TrailInv, TrailMatchesState, Matches
  <1> QED
    BY <1>1, <1>2, <1>3, TypeCorrect, PTL DEF Spec

-----------------------------------------------------------------------------
(***************************************************************************)
(* What each change of the tables does to a row.                           *)
(***************************************************************************)

LEMMA CreateRow ==
    ASSUME TypeOK, SlotsOK, NEW r \in Reqs, NEW x \in Creds, Create(r, x)
    PROVE  /\ slot[r].q \in Requests /\ slot[r].q.op = "create"
           /\ row[x].state = "free"
           /\ row'[x].state = "live" /\ row'[x].ver = 1
           /\ row'[x].space = slot[r].q.space /\ row'[x].labels = slot[r].q.labels
           /\ \A z \in Creds : z # x => row'[z] = row[z]
  <1>1. slot[r].q \in Requests /\ slot[r].q.op = "create"
    BY TxSlot DEF Create, Ops, WriteOps
  <1>2. PICK y : y = [ state |-> "live", space |-> slot[r].q.space, ver |-> 1,
                       labels |-> slot[r].q.labels, links |-> slot[r].q.links,
                       deletedAt |-> 0 ]
    OBVIOUS
  <1>3. /\ y.state = "live" /\ y.ver = 1 /\ y.space = slot[r].q.space
        /\ y.labels = slot[r].q.labels
    BY <1>2
  <1>4. row[x].state = "free" /\ row' = [row EXCEPT ![x] = y]
    BY <1>2 DEF Create
  <1>5. row'[x] = y /\ \A z \in Creds : z # x => row'[z] = row[z]
    BY <1>4 DEF TypeOK
  <1> QED
    BY <1>1, <1>3, <1>4, <1>5

LEMMA UpdateRow ==
    ASSUME TypeOK, SlotsOK, NEW r \in Reqs, Update(r)
    PROVE  LET s == slot[r]
               c == s.q.cred
           IN  /\ s.q \in Requests /\ s.q.op = "update" /\ c \in Creds
               /\ s.ver \in 0..MaxVersion /\ s.ver + 1 \in Versions
               /\ row[c].state = "live" /\ row[c].ver = s.ver /\ s.ver = s.q.ver
               /\ row'[c].state = "live" /\ row'[c].ver = s.ver + 1
               /\ row'[c].space = row[c].space
               /\ row'[c].labels = IF s.q.labels = Keep THEN row[c].labels
                                   ELSE s.q.labels
               /\ \A z \in Creds : z # c => row'[z] = row[z]
  <1> DEFINE s == slot[r]
             c == s.q.cred
  <1>1. s.q \in Requests /\ s.pc \in StepsOf(s.q) /\ s.ver = s.q.ver
    BY DEF SlotsOK, SlotOK, Update, WriteOps
  <1>2. s.q.op \in Ops
    BY <1>1, RequestFields
  <1>3. s.q.op = "update"
    BY <1>1, <1>2 DEF StepsOf, Update, Ops, WriteOps
  <1>4. c \in Creds /\ s.q.ver \in 0..MaxVersion /\ s.q.ver < MaxVersion
    BY <1>1, <1>3, RequestFields
  <1>5. s.ver + 1 \in Versions
    BY <1>1, <1>4, TimesAssumption DEF Versions
  <1>6. row[c].state = "live" /\ row[c].ver = s.ver
    <2>1. PICK env \in Env : UpdateCode(s, env) = "OK"
      BY DEF Update
    <2>2. authorizeReplayTx(s) # "OK"
      BY DEF authorizeReplayTx
    <2> QED
      BY <1>1, <2>1, <2>2, CommitsMiss DEF UpdateCode, CasMatches
  <1>7. row[c] \in Row
    BY <1>4 DEF TypeOK
  <1>8. /\ row'[c].state = row[c].state /\ row'[c].ver = s.ver + 1
        /\ row'[c].space = row[c].space
        /\ row'[c].labels = IF s.q.labels = Keep THEN row[c].labels ELSE s.q.labels
        /\ \A z \in Creds : z # c => row'[z] = row[z]
    BY <1>4, <1>7 DEF Update, TypeOK, Row
  <1> QED
    BY <1>1, <1>3, <1>4, <1>5, <1>6, <1>8

LEMMA DeleteRow ==
    ASSUME TypeOK, SlotsOK, NEW r \in Reqs, Delete(r)
    PROVE  LET c == slot[r].q.cred
           IN  /\ slot[r].q \in Requests /\ slot[r].q.op = "delete" /\ c \in Creds
               /\ row[c].state = "live" /\ row[c].ver = slot[r].q.ver
               /\ row'[c].state = "deleted" /\ row'[c].ver = row[c].ver
               /\ row'[c].space = row[c].space /\ row'[c].labels = row[c].labels
               /\ \A z \in Creds : z # c => row'[z] = row[z]
  <1> DEFINE c == slot[r].q.cred
  <1>1. slot[r].q \in Requests /\ slot[r].q.op = "delete" /\ c \in Creds
    BY TxSlot DEF Delete, Ops, WriteOps
  <1>2. row[c].state = "live" /\ row[c].ver = slot[r].q.ver
    BY CheckCodes DEF Delete, DeleteCode, Exists
  <1>3. row[c] \in Row
    BY <1>1 DEF TypeOK
  <1>4. /\ row'[c].state = "deleted" /\ row'[c].ver = row[c].ver
        /\ row'[c].space = row[c].space /\ row'[c].labels = row[c].labels
        /\ \A z \in Creds : z # c => row'[z] = row[z]
    BY <1>1, <1>3 DEF Delete, TypeOK, Row
  <1> QED
    BY <1>1, <1>2, <1>4

LEMMA RestoreRow ==
    ASSUME TypeOK, SlotsOK, NEW r \in Reqs, Restore(r)
    PROVE  LET c == slot[r].q.cred
           IN  /\ slot[r].q \in Requests /\ slot[r].q.op = "restore" /\ c \in Creds
               /\ row[c].state = "deleted"
               /\ row'[c].state = "live" /\ row'[c].ver = row[c].ver
               /\ row'[c].space = row[c].space /\ row'[c].labels = row[c].labels
               /\ \A z \in Creds : z # c => row'[z] = row[z]
  <1> DEFINE c == slot[r].q.cred
  <1>1. slot[r].q \in Requests /\ slot[r].q.op = "restore" /\ c \in Creds
    BY TxSlot DEF Restore, Ops, WriteOps
  <1>2. row[c].state = "deleted"
    BY DEF Restore, RestoreCode
  <1>3. row[c] \in Row
    BY <1>1 DEF TypeOK
  <1>4. /\ row'[c].state = "live" /\ row'[c].ver = row[c].ver
        /\ row'[c].space = row[c].space /\ row'[c].labels = row[c].labels
        /\ \A z \in Creds : z # c => row'[z] = row[z]
    BY <1>1, <1>3 DEF Restore, TypeOK, Row
  <1> QED
    BY <1>1, <1>2, <1>4

LEMMA PurgeRows ==
    ASSUME TypeOK, NEW C, DeleteRows(C)
    PROVE  \A c \in Creds :
             /\ c \in C => /\ row'[c].state = "purged" /\ row'[c].ver = row[c].ver
                           /\ row'[c].space = row[c].space
             /\ c \notin C => row'[c] = row[c] /\ versions'[c] = versions[c]
  <1> SUFFICES ASSUME NEW c \in Creds
               PROVE  /\ c \in C => /\ row'[c].state = "purged"
                                    /\ row'[c].ver = row[c].ver
                                    /\ row'[c].space = row[c].space
                      /\ c \notin C => row'[c] = row[c] /\ versions'[c] = versions[c]
    OBVIOUS
  <1>1. row[c] \in Row
    BY DEF TypeOK
  <1>2. CASE c \in C
    <2>1. row'[c] = [row[c] EXCEPT !.state = "purged", !.labels = {},
                                   !.links = {}, !.deletedAt = 0]
      BY <1>2 DEF DeleteRows
    <2> QED
      BY <1>1, <1>2, <2>1 DEF Row
  <1>3. CASE c \notin C
    BY <1>3 DEF DeleteRows
  <1> QED
    BY <1>2, <1>3

\* The requests that change no table but idem.
QuietStep(r) ==
    \/ \E q \in Requests : Begin(r, q) \/ Reject(r, q)
    \/ ReadRow(r) \/ GetTags(r) \/ UpdateTags(r) \/ UpdateReplayMiss(r)
    \/ Replay(r) \/ Refuse(r) \/ EarlyError(r) \/ LateError(r)
    \/ AppendFailure(r) \/ AppendFailureError(r) \/ Return(r)

LEMMA QuietTables ==
    ASSUME NEW r, QuietStep(r)
    PROVE  UNCHANGED << row, versions, trail, execs, maint, now >>
  <1>1. CASE \E q \in Requests : Begin(r, q) \/ Reject(r, q)
    <2>1. UNCHANGED << tables, maint, now >>
      BY <1>1, Zenon DEF Begin, Reject
    <2> QED
      BY <2>1 DEF tables
  <1>2. CASE ReadRow(r) \/ GetTags(r) \/ UpdateTags(r) \/ UpdateReplayMiss(r)
    BY <1>2 DEF ReadRow, GetTags, UpdateTags, UpdateReplayMiss, tables
  <1>3. CASE \/ Replay(r) \/ Refuse(r) \/ EarlyError(r) \/ LateError(r)
             \/ AppendFailure(r) \/ AppendFailureError(r) \/ Return(r)
    BY <1>3 DEF Replay, Refuse, EarlyError, LateError, AppendFailure,
                AppendFailureError, Return, tables
  <1> QED
    BY <1>1, <1>2, <1>3 DEF QuietStep

LEMMA RequestCases ==
    ASSUME NEW r, RequestStep(r)
    PROVE  \/ QuietStep(r) \/ GetAudit(r) \/ Update(r)
           \/ \E c \in Creds : Create(r, c)
           \/ Delete(r) \/ Restore(r) \/ Purge(r) \/ PurgeExpired(r)
  BY DEF RequestStep, QuietStep

\* What is expired has been in the recycle bin for the retention.
LEMMA ExpiredIsLate ==
    ASSUME TypeOK, NEW c \in Creds, NEW t \in Nat, t <= now, Expired(c, t)
    PROVE  row[c].state = "deleted" /\ now + 1 >= row[c].deletedAt + Retention
  <1>1. now \in Nat /\ row[c].deletedAt \in Nat /\ Retention \in Nat
    BY TimesAssumption DEF TypeOK, Row
  <1>2. PICK a \in Nat : a = row[c].deletedAt + Retention
    BY <1>1
  <1>3. a <= t + 1
    BY <1>2, LexLEBound DEF Expired
  <1> QED
    BY <1>1, <1>2, <1>3 DEF Expired

\* Only an explicit purge removes a credential before it has been in the
\* recycle bin for the retention (RecycleBinRetention): PurgeExpired and the
\* nightly purge compare deleted_at with a time that has passed.
THEOREM BinKeepsForRetention == Spec => RecycleBinRetention
  <1> DEFINE Kept == \A c \in Creds :
               /\ row[c].state # "purged" /\ row'[c].state = "purged"
               /\ ~ PurgedByRequest(c)
               => now + 1 >= row[c].deletedAt + Retention
             Inv == TypeOK /\ SlotsOK /\ RowsOK /\ OnceInv
  <1>1. ASSUME Inv, [Next]_vars, NEW c \in Creds,
               row[c].state # "purged", row'[c].state = "purged",
               ~ PurgedByRequest(c)
        PROVE  now + 1 >= row[c].deletedAt + Retention
    <2>1. row'[c] # row[c]
      BY <1>1
    <2>2. ASSUME NEW C, DeleteRows(C) PROVE c \in C
      BY <1>1, <2>1, <2>2, PurgeRows
    <2>3. ASSUME NEW r \in Reqs, RequestStep(r)
          PROVE  now + 1 >= row[c].deletedAt + Retention
      <3>1. ~ QuietStep(r) /\ ~ GetAudit(r)
        BY <2>1, QuietTables DEF GetAudit
      <3>2. /\ ~ Update(r) /\ ~ Delete(r) /\ ~ Restore(r)
            /\ \A x \in Creds : ~ Create(r, x)
        BY <1>1, <2>1, UpdateRow, DeleteRow, RestoreRow, CreateRow
      <3>3. ~ Purge(r)
        BY <1>1, <2>2 DEF Purge, PurgedByRequest
      <3>4. PurgeExpired(r)
        BY <2>3, <3>1, <3>2, <3>3, RequestCases
      <3>5. Expired(c, slot[r].at)
        BY <2>2, <3>4 DEF PurgeExpired
      <3>6. slot[r].at \in Nat /\ slot[r].at <= now
        BY <1>1 DEF TypeOK, Slot, OnceInv, TimeOK
      <3> QED
        BY <1>1, <3>5, <3>6, ExpiredIsLate
    <2>4. CASE PurgeExpiredMaintenance
      <3>1. Expired(c, maint.started)
        BY <2>2, <2>4 DEF PurgeExpiredMaintenance
      <3>2. maint.started \in Nat /\ maint.started <= now
        BY <1>1 DEF TypeOK, OnceInv, TimeOK
      <3> QED
        BY <1>1, <3>1, <3>2, ExpiredIsLate
    <2>5. CASE MaintStart \/ cleanupExpiredState \/ MaintError \/ Crash \/ Tick
      BY <2>1, <2>5 DEF MaintStart, cleanupExpiredState, MaintError, Crash, Tick,
                        tables
    <2>6. CASE UNCHANGED vars
      BY <2>1, <2>6 DEF vars, tables
    <2> QED
      BY <1>1, <2>3, <2>4, <2>5, <2>6 DEF Next, MaintenanceStep
  <1>2. Inv /\ [Next]_vars => [Kept]_vars
    BY <1>1
  <1>3. Spec => []Inv
    BY TypeCorrect, OnceAlways, PTL
  <1> QED
    BY <1>2, <1>3, PTL DEF Spec, RecycleBinRetention

-----------------------------------------------------------------------------
(***************************************************************************)
(* What a request in progress knows stays true.  Rows only move forward,   *)
(* so a version that is still current still has the labels that were read  *)
(* with it, and a credential never changes its Space.                      *)
(***************************************************************************)

RowForward(x, y) ==
    x.state # "free" =>
        /\ y.state # "free" /\ y.space = x.space /\ x.ver <= y.ver
        /\ y.ver = x.ver /\ y.state # "purged" =>
             x.state # "purged" /\ y.labels = x.labels

Forward == (\A c \in Creds : RowForward(row[c], row'[c])) /\ execs \subseteq execs'

LEMMA TablesForward ==
    ASSUME TypeOK, SlotsOK, [Next]_vars
    PROVE  Forward
  <1>1. ASSUME NEW c \in Creds
        PROVE  row[c] \in Row /\ row[c].ver \in Nat /\ RowForward(row[c], row[c])
    <2>1. row[c] \in Row /\ row[c].ver \in Nat
      BY TimesAssumption DEF TypeOK, Row
    <2> QED
      BY <2>1 DEF RowForward
  <1>2. CASE UNCHANGED << row, execs >>
    BY <1>1, <1>2 DEF Forward
  <1>3. ASSUME NEW c \in Creds, \A z \in Creds : z # c => row'[z] = row[z],
               RowForward(row[c], row'[c]), execs \subseteq execs'
        PROVE  Forward
    BY <1>1, <1>3 DEF Forward
  <1>4. ASSUME NEW C, DeleteRows(C) PROVE Forward
    <2>1. ASSUME NEW c \in Creds PROVE RowForward(row[c], row'[c])
      BY <1>1, <1>4, PurgeRows DEF RowForward
    <2> QED
      BY <1>4, <2>1 DEF Forward, DeleteRows
  <1>5. \A s, c, v : saveIdempotency(s, c, v) => execs \subseteq execs'
    BY DEF saveIdempotency
  <1>6. ASSUME NEW r \in Reqs, RequestStep(r) PROVE Forward
    <2>1. CASE QuietStep(r) \/ GetAudit(r)
      BY <1>2, <2>1, QuietTables DEF GetAudit
    <2>2. ASSUME NEW c \in Creds, Create(r, c) PROVE Forward
      <3>1. execs \subseteq execs'
        BY <1>5, <2>2 DEF Create
      <3>2. RowForward(row[c], row'[c]) /\ \A z \in Creds : z # c => row'[z] = row[z]
        BY <2>2, CreateRow DEF RowForward
      <3> QED
        BY <1>3, <3>1, <3>2
    <2>3. CASE Update(r)
      <3>1. execs \subseteq execs'
        BY <1>5, <2>3 DEF Update
      <3>2. PICK c \in Creds : /\ RowForward(row[c], row'[c])
                               /\ \A z \in Creds : z # c => row'[z] = row[z]
        <4>1. PICK c \in Creds : c = slot[r].q.cred
          BY <2>3, UpdateRow
        <4>2. /\ slot[r].ver \in 0..MaxVersion /\ row[c].ver = slot[r].ver
              /\ row'[c].ver = slot[r].ver + 1 /\ row'[c].state = "live"
              /\ row'[c].space = row[c].space
              /\ \A z \in Creds : z # c => row'[z] = row[z]
          BY <2>3, <4>1, UpdateRow
        <4> QED
          BY <4>2, TimesAssumption DEF RowForward
      <3> QED
        BY <1>3, <3>1, <3>2
    <2>4. CASE Delete(r)
      <3>1. execs \subseteq execs'
        BY <1>5, <2>4 DEF Delete
      <3>2. PICK c \in Creds : c = slot[r].q.cred
        BY <2>4, DeleteRow
      <3>3. RowForward(row[c], row'[c]) /\ \A z \in Creds : z # c => row'[z] = row[z]
        BY <1>1, <2>4, <3>2, DeleteRow DEF RowForward
      <3> QED
        BY <1>3, <3>1, <3>3
    <2>5. CASE Restore(r)
      <3>1. execs \subseteq execs'
        BY <2>5 DEF Restore
      <3>2. PICK c \in Creds : c = slot[r].q.cred
        BY <2>5, RestoreRow
      <3>3. RowForward(row[c], row'[c]) /\ \A z \in Creds : z # c => row'[z] = row[z]
        BY <1>1, <2>5, <3>2, RestoreRow DEF RowForward
      <3> QED
        BY <1>3, <3>1, <3>3
    <2>6. CASE Purge(r) \/ PurgeExpired(r)
      BY <1>4, <2>6 DEF Purge, PurgeExpired
    <2> QED
      BY <1>6, <2>1, <2>2, <2>3, <2>4, <2>5, <2>6, RequestCases
  <1>7. CASE PurgeExpiredMaintenance
    BY <1>4, <1>7 DEF PurgeExpiredMaintenance
  <1>8. CASE MaintStart \/ cleanupExpiredState \/ MaintError \/ Crash \/ Tick
    BY <1>2, <1>8 DEF MaintStart, cleanupExpiredState, MaintError, Crash, Tick, tables
  <1>9. CASE UNCHANGED vars
    BY <1>2, <1>9 DEF vars, tables
  <1> QED
    BY <1>6, <1>7, <1>8, <1>9 DEF Next, MaintenanceStep

\* An update between its snapshot and its last transaction: it is authorized
\* for the labels it read, which the credential has as long as its version is
\* the one it read, and for the labels it will store.
UpdateSlot(s) ==
    LET c == s.q.cred
    IN  /\ s.pc \in { "update_tags", "update_replay", "update" } =>
             row[c].state # "free" /\ s.ver <= row[c].ver /\ s.payload \in Payloads
        /\ s.pc \in { "update_replay", "update" } =>
             /\ authorize(s.q, row[c].space, s.seen, "credential.update") = "OK"
             /\ row[c].ver = s.ver /\ row[c].state # "purged" => row[c].labels = s.seen
        /\ s.pc = "update" =>
             authorize(s.q, row[c].space, UpdatedLabels(s), "credential.update") = "OK"

\* What a failure event of the request may name, before and after concealment.
NamesSlot(s) ==
    /\ s.pc = "create" => Visible(s.q.p, s.q.space)
    /\ s.pc \in { "get_tags", "get_audit" } => row[s.q.cred].state # "free"
    /\ s.pc \in { "get_audit", "update_replay", "update" } =>
         Visible(s.q.p, row[s.q.cred].space)
    /\ s.pc = "fail" => s.code # "OK"
    /\ s.pc \in { "fail", "done" } /\ s.code # "OK" =>
         /\ s.cred # NoCred => row[s.cred].state # "free" /\ s.space = row[s.cred].space
         /\ s.space # NoSpace /\ (s.pc = "fail" => ~ Concealed(s.code)) =>
              Visible(s.q.p, s.space)

\* An execution of the request with this result.
Executed(s, c, v) ==
    \E e \in execs : /\ e.key = IdemKey(s.q) /\ e.fp = Fingerprint(s.q)
                     /\ e.cred = c /\ e.ver = v

\* The change an agent is told of was made.
ReplySlot(s) ==
    /\ s.pc = "done" /\ s.code = "OK" /\ s.q.p.kind = "agent" /\ s.q.op \in IdemOps
    => Executed(s, s.cred, s.ver)

SlotKnows(s) == UpdateSlot(s) /\ NamesSlot(s) /\ ReplySlot(s)

\* The current version of what exists has a payload.
PayloadsKnown == \A c \in Creds : Exists(c) => versions[c][row[c].ver] \in Payloads

\* Every record tells of an execution.
RecordsKnown ==
    \A k \in IdemKeys : idem[k] # NoRecord =>
        \E e \in execs : /\ e.key = k /\ e.fp = idem[k].fp
                         /\ e.cred = idem[k].cred /\ e.ver = idem[k].ver

TablesKnow == PayloadsKnown /\ RecordsKnown

KnowsInv == TablesKnow /\ \A r \in Reqs : SlotKnows(slot[r])

\* The credential of a slot that works on one.
LEMMA SlotCred ==
    ASSUME NEW s, SlotOK(s),
           s.pc \in { "get_row", "get_tags", "get_audit", "update_row", "update_tags",
                      "update_replay", "update", "delete", "restore", "purge" }
    PROVE  s.q \in Requests /\ s.q.cred \in Creds
  <1>1. s.q \in Requests /\ s.pc \in StepsOf(s.q)
    BY DEF SlotOK
  <1>2. s.q.op \in Ops
    BY <1>1, RequestFields
  <1>3. s.q.op \notin { "create", "purge_expired" }
    BY <1>1, <1>2 DEF StepsOf, Ops, WriteOps
  <1> QED
    BY <1>1, <1>3, RequestFields

\* What a slot knows stays true whatever the others do.
LEMMA KnowsForward ==
    ASSUME TypeOK, TypeOK', Forward, NEW s \in Slot, SlotOK(s), SlotKnows(s)
    PROVE  SlotKnows(s)'
  <1>0. ASSUME NEW c \in Creds
        PROVE  row[c].ver \in Nat /\ row'[c].ver \in Nat /\ RowForward(row[c], row'[c])
    BY TimesAssumption DEF TypeOK, Row, Forward
  <1>1. UpdateSlot(s)'
    <2> SUFFICES ASSUME s.pc \in { "update_tags", "update_replay", "update" }
                 PROVE  UpdateSlot(s)'
      BY DEF UpdateSlot
    <2>1. PICK c \in Creds : c = s.q.cred
      BY SlotCred
    <2>2. row[c].state # "free" /\ s.ver <= row[c].ver /\ s.payload \in Payloads
      BY <2>1 DEF SlotKnows, UpdateSlot
    <2>3. s.ver \in Nat
      BY TimesAssumption DEF Slot
    <2>4. row'[c].state # "free" /\ s.ver <= row'[c].ver /\ row'[c].space = row[c].space
      BY <1>0, <2>2, <2>3 DEF RowForward
    <2>5. row'[c].ver = s.ver /\ row'[c].state # "purged" =>
            /\ row[c].ver = s.ver /\ row[c].state # "purged"
            /\ row'[c].labels = row[c].labels
      BY <1>0, <2>2, <2>3 DEF RowForward
    <2> QED
      BY <2>1, <2>2, <2>4, <2>5 DEF SlotKnows, UpdateSlot
  <1>2. NamesSlot(s)'
    <2>1. s.cred \in Creds \cup { NoCred }
      BY DEF Slot
    <2>2. /\ s.pc \in { "get_tags", "get_audit", "update_replay", "update" } =>
               s.q.cred \in Creds /\ row[s.q.cred].state # "free"
      BY SlotCred DEF SlotKnows, NamesSlot, UpdateSlot
    <2>3. ASSUME NEW c \in Creds, row[c].state # "free"
          PROVE  row'[c].state # "free" /\ row'[c].space = row[c].space
      BY <1>0, <2>3 DEF RowForward
    <2> QED
      BY <2>1, <2>2, <2>3 DEF SlotKnows, NamesSlot
  <1>3. ReplySlot(s)'
    BY DEF SlotKnows, ReplySlot, Executed, Forward
  <1> QED
    BY <1>1, <1>2, <1>3 DEF SlotKnows

\* Whoever is allowed, or told that it is denied, is known in the Space.
LEMMA AuthorizeVisible ==
    ASSUME NEW q \in Requests, NEW space, NEW labels,
           NEW a \in CredentialActions \cup { "asset.credential.link" },
           authorize(q, space, labels, a) \in { "OK", "PERMISSION_DENIED" }
    PROVE  Visible(q.p, space) /\ space \in Spaces
  <1> DEFINE res == [space |-> space, labels |-> labels]
             d == Decision(q.p, res, a)
  <1>1. q \in Request /\ q.space \in Spaces
    BY RequestFields
  <1>2. q.p \in Principal
    BY <1>1 DEF Request
  <1>3. space = q.space /\ (d = "allowed" \/ (d = "forbidden" /\ q.p.kind = "human"))
    BY DEF authorize
  <1>4. res.space = space /\ space # NoSpace
    BY <1>1, <1>3, NoSpaceAssumption
  <1>5. CASE q.p.kind = "agent"
    <2>1. \E g \in q.p.grants : g.space = res.space
      BY <1>3, <1>5 DEF Decision, DecisionForAgent, GrantCovers
    <2> QED
      BY <1>1, <1>3, <1>4, <1>5, <2>1 DEF Visible
  <1>6. CASE q.p.kind = "human"
    <2>1. d = DecisionForHuman(q.p, res, a)
      BY <1>6 DEF Decision
    <2>2. /\ a \in SpaceScopedActions /\ a \in AllActions
          /\ a # "agent.grant.manage" /\ a \notin { "space.create", "space.list" }
      BY DEF CredentialActions, SpaceScopedActions, AllActions, AssetActions
    <2>3. ~ roleAllows("none", a)
      BY DEF roleAllows
    <2> HIDE DEF res, d
    <2>4. \/ q.p.system \in { "system_owner", "system_admin" }
                       \/ q.p.roles[res.space] # "none"
      BY <1>3, <2>1, <2>2, <2>3 DEF DecisionForHuman
    <2> QED
      BY <1>1, <1>3, <1>4, <1>6, <2>4 DEF Visible
  <1> QED
    BY <1>2, <1>5, <1>6 DEF Principal

\* A failed slot knows what its metadata says.
LEMMA FailedKnows ==
    ASSUME NEW s, NEW code, code # "OK", NEW m,
           m.cred # NoCred => row[m.cred].state # "free" /\ m.space = row[m.cred].space,
           m.space # NoSpace /\ (s.q.op # "purge_expired" => ~ Concealed(code)) =>
                Visible(s.q.p, m.space)
    PROVE  SlotKnows(Failed(s, code, m))
  <1>1. PICK t : t = Failed(s, code, m)
    OBVIOUS
  <1>2. /\ t.pc \in { "fail", "done" } /\ t.q = s.q /\ t.code = code
        /\ t.cred = m.cred /\ t.space = m.space
        /\ t.pc = "fail" <=> s.q.op # "purge_expired"
    BY <1>1 DEF Failed, IdleSlot, RefusedStep
  <1>3. UpdateSlot(t) /\ ReplySlot(t)
    BY <1>2 DEF UpdateSlot, ReplySlot
  <1>4. NamesSlot(t)
    BY <1>2 DEF NamesSlot
  <1> QED
    BY <1>1, <1>3, <1>4 DEF SlotKnows

\* A slot that succeeded knows of the execution it reports.
LEMMA SucceededKnows ==
    ASSUME NEW s, NEW c, NEW v,
           s.q.p.kind = "agent" /\ s.q.op \in IdemOps => Executed(s, c, v)
    PROVE  SlotKnows(Succeeded(s, c, v))
  <1>1. PICK t : t = Succeeded(s, c, v)
    OBVIOUS
  <1>2. t.pc = "done" /\ t.q = s.q /\ t.code = "OK" /\ t.cred = c /\ t.ver = v
    BY <1>1 DEF Succeeded, IdleSlot
  <1>3. UpdateSlot(t) /\ NamesSlot(t)
    BY <1>2 DEF UpdateSlot, NamesSlot
  <1>4. ReplySlot(t)
    BY <1>2 DEF ReplySlot, Executed
  <1> QED
    BY <1>1, <1>3, <1>4 DEF SlotKnows

LEMMA IdleKnows == SlotKnows(IdleSlot)
  BY DEF SlotKnows, UpdateSlot, NamesSlot, ReplySlot, IdleSlot

\* A step of one request, when what its slot knows is true after it.
LEMMA MoveKnows ==
    ASSUME TypeOK, TypeOK', SlotsOK, Forward, \A x \in Reqs : SlotKnows(slot[x]),
           NEW r \in Reqs, NEW t, Goto(r, t), SlotKnows(t)'
    PROVE  \A x \in Reqs : SlotKnows(slot[x])'
  <1> SUFFICES ASSUME NEW x \in Reqs PROVE SlotKnows(slot[x])'
    OBVIOUS
  <1>1. PICK u : u = slot'[x]
    OBVIOUS
  <1>2. CASE x = r
    <2>1. u = t
      BY <1>1, <1>2 DEF Goto, TypeOK
    <2>2. SlotKnows(u)'
      BY <2>1
    <2> QED
      BY <1>1, <2>2 DEF SlotKnows, UpdateSlot, NamesSlot, ReplySlot, Executed,
                        UpdatedLabels
  <1>3. CASE x # r
    <2>1. u = slot[x] /\ u \in Slot /\ SlotOK(u) /\ SlotKnows(u)
      BY <1>1, <1>3 DEF Goto, TypeOK, SlotsOK
    <2>2. SlotKnows(u)'
      BY <2>1, KnowsForward
    <2> QED
      BY <1>1, <2>2 DEF SlotKnows, UpdateSlot, NamesSlot, ReplySlot, Executed,
                        UpdatedLabels
  <1> QED
    BY <1>2, <1>3

\* A failure that names a credential.
LEMMA NamedKnows ==
    ASSUME NEW s, s.q \in Requests, NEW code, code # "OK", NEW c \in Creds,
           row[c].state # "free",
           s.q.op # "purge_expired",
           Concealed(code) \/ Visible(s.q.p, row[c].space)
    PROVE  SlotKnows(Failed(s, code, MetadataOf(c)))
  <1>1. PICK m : m = MetadataOf(c)
    OBVIOUS
  <1>2. m.cred = c /\ m.space = row[c].space
    BY <1>1 DEF MetadataOf
  <1>3. SlotKnows(Failed(s, code, m))
    BY <1>2, FailedKnows
  <1> QED
    BY <1>1, <1>3

\* A failure that names nothing.
LEMMA UnnamedKnows ==
    ASSUME NEW s, NEW code, code # "OK"
    PROVE  SlotKnows(Failed(s, code, NoMetadata))
  <1>1. PICK m : m = NoMetadata
    OBVIOUS
  <1>2. m.cred = NoCred /\ m.space = NoSpace
    BY <1>1 DEF NoMetadata
  <1>3. SlotKnows(Failed(s, code, m))
    BY <1>2, FailedKnows
  <1> QED
    BY <1>1, <1>3

\* authorize on a row refuses with a concealed code or a visible denial.
LEMMA RowVisible ==
    ASSUME NEW q \in Requests, NEW c
    PROVE  /\ AuthorizeRow(q, c) = "OK" => Visible(q.p, row[c].space)
           /\ Concealed(AuthorizeRow(q, c)) \/ Visible(q.p, row[c].space)
  <1>1. q.op \in Ops
    BY RequestFields
  <1>2. ActionOf[q.op] \in CredentialActions
    BY <1>1 DEF ActionOf, Ops, WriteOps, CredentialActions
  <1>3. AuthorizeRow(q, c) \in { "OK", "PERMISSION_DENIED" } => Visible(q.p, row[c].space)
    BY <1>2, AuthorizeVisible DEF AuthorizeRow
  <1>4. AuthorizeRow(q, c) \in { "OK", "PERMISSION_DENIED", "NOT_FOUND", "UNAUTHENTICATED" }
    BY DEF AuthorizeRow, authorize
  <1> QED
    BY <1>3, <1>4 DEF Concealed

\* The plan of an update whose caller may update what it read.
LEMMA PlannedKnows ==
    ASSUME NEW s \in Slot, s.q \in Requests, s.q.op = "update", NEW c \in Creds,
           c = s.q.cred, row[c].state # "free", s.ver <= row[c].ver,
           s.payload \in Payloads,
           authorize(s.q, row[c].space, s.seen, "credential.update") = "OK",
           row[c].ver = s.ver /\ row[c].state # "purged" => row[c].labels = s.seen
    PROVE  SlotKnows(Planned(s))
  <1>1. Visible(s.q.p, row[c].space)
    BY AuthorizeVisible DEF CredentialActions
  <1>2. CASE PlanCode(s) = "OK"
    <2>1. PICK t : t = [s EXCEPT !.pc = "update"]
      OBVIOUS
    <2>2. /\ t.pc = "update" /\ t.q = s.q /\ t.ver = s.ver /\ t.payload = s.payload
          /\ t.seen = s.seen
      BY <2>1 DEF Slot
    <2>3. authorize(s.q, row[c].space, UpdatedLabels(s), "credential.update") = "OK"
      BY <1>2 DEF PlanCode
    <2>4. UpdatedLabels(t) = UpdatedLabels(s)
      BY <2>2 DEF UpdatedLabels
    <2>5. UpdateSlot(t)
      BY <2>2, <2>3, <2>4 DEF UpdateSlot
    <2>6. NamesSlot(t) /\ ReplySlot(t)
      BY <1>1, <2>2 DEF NamesSlot, ReplySlot
    <2> QED
      BY <1>2, <2>1, <2>5, <2>6 DEF Planned, SlotKnows
  <1>3. CASE PlanCode(s) # "OK"
    <2>1. SlotKnows(Failed(s, PlanCode(s), MetadataOf(c)))
      BY <1>1, <1>3, NamedKnows
    <2> QED
      BY <1>3, <2>1 DEF Planned
  <1> QED
    BY <1>2, <1>3

\* Begin and Reject.
LEMMA EntryKnows ==
    ASSUME NEW r, NEW q \in Requests, Begin(r, q) \/ Reject(r, q)
    PROVE  \E t : Goto(r, t) /\ SlotKnows(t)
  <1>1. q.op \in Ops
    BY RequestFields
  <1>2. CASE Begin(r, q)
    <2> DEFINE pc == IF EntryCode(q) = "OK" THEN FirstStep(q) ELSE RefusedStep(q)
               code == EntryCode(q)
    <2>1. PICK t : t = [IdleSlot EXCEPT !.q = q, !.at = now, !.code = code, !.pc = pc]
      OBVIOUS
    <2>2. Goto(r, t)
      BY <1>2, <2>1 DEF Begin
    <2>3. /\ t.pc = pc /\ t.q = q /\ t.code = code /\ t.cred = NoCred /\ t.space = NoSpace
      <3> HIDE DEF pc, code
      <3> QED
        BY <2>1 DEF IdleSlot
    <2>4. /\ pc \in { "fail", "done", "get_row", "update_row", "create", "delete",
                      "restore", "purge", "purge_expired" }
          /\ pc \in { "fail", "done" } => code # "OK"
          /\ pc = "create" => q.op = "create" /\ code = "OK"
      BY <1>1 DEF FirstStep, RefusedStep, Ops, WriteOps
    <2>5. pc = "create" => Visible(q.p, q.space)
      <3>1. "credential.create" \in CredentialActions \cup { "asset.credential.link" }
        BY DEF CredentialActions
      <3>2. pc = "create" =>
              authorize(q, q.space, q.labels, "credential.create") = "OK"
        BY <2>4 DEF EntryCode
      <3> QED
        BY <3>1, <3>2, AuthorizeVisible
    <2> HIDE DEF pc, code
    <2>6. UpdateSlot(t) /\ ReplySlot(t)
      BY <2>3, <2>4 DEF UpdateSlot, ReplySlot
    <2>7. NamesSlot(t)
      BY <2>3, <2>4, <2>5 DEF NamesSlot
    <2> QED
      BY <2>2, <2>6, <2>7 DEF SlotKnows
  <1>3. CASE Reject(r, q)
    <2>1. PICK code \in { "INVALID_INPUT", "NOT_FOUND" } :
            Goto(r, [IdleSlot EXCEPT !.q = q, !.at = now, !.code = code, !.pc = "fail"])
      BY <1>3 DEF Reject, RejectCodes
    <2>2. PICK t : t = [IdleSlot EXCEPT !.q = q, !.at = now, !.code = code, !.pc = "fail"]
      OBVIOUS
    <2>3. t.pc = "fail" /\ t.code # "OK" /\ t.cred = NoCred /\ t.space = NoSpace
      BY <2>2 DEF IdleSlot
    <2>4. SlotKnows(t)
      BY <2>3 DEF SlotKnows, UpdateSlot, NamesSlot, ReplySlot
    <2> QED
      BY <2>1, <2>2, <2>4
  <1> QED
    BY <1>2, <1>3

\* The reads of recordByID and the plan of an update.
LEMMA ReadKnows ==
    ASSUME TypeOK, SlotsOK, KnowsInv, NEW r \in Reqs,
           ReadRow(r) \/ GetTags(r) \/ UpdateTags(r) \/ UpdateReplayMiss(r)
    PROVE  \E t : Goto(r, t) /\ SlotKnows(t)
  <1>1. PICK s : s = slot[r]
    OBVIOUS
  <1>2. /\ s \in Slot /\ SlotOK(s) /\ SlotKnows(s)
        /\ s.pc \in { "get_row", "update_row", "get_tags", "update_tags",
                      "update_replay" }
    BY <1>1 DEF TypeOK, SlotsOK, KnowsInv, ReadRow, GetTags, UpdateTags,
                UpdateReplayMiss
  <1>3. PICK c \in Creds : c = s.q.cred
    BY <1>2, SlotCred
  <1>4. s.q \in Requests /\ s.q.op \in Ops /\ s.pc \in StepsOf(s.q)
    BY <1>2, RequestFields DEF SlotOK
  <1>5. /\ s.q.op \in { "get", "update" }
        /\ s.pc \in { "update_row", "update_tags", "update_replay" } =>
             s.q.op = "update"
    BY <1>2, <1>4 DEF StepsOf, Ops, WriteOps
  <1>6. row[c] \in Row /\ row[c].ver \in Nat
    BY TimesAssumption DEF TypeOK, Row
  <1>7. CASE ReadRow(r)
    <2>1. CASE readable(c, s.q.op = "update")
      <3>1. PICK next : /\ next = IF s.pc = "get_row" THEN "get_tags"
                                  ELSE "update_tags"
        OBVIOUS
      <3>2. PICK t : t = [s EXCEPT !.pc = next, !.ver = row[c].ver,
                                   !.state = row[c].state,
                                   !.payload = versions[c][row[c].ver],
                                   !.own = row[c].labels]
        OBVIOUS
      <3>3. Goto(r, t)
        BY <1>1, <1>3, <1>7, <2>1, <3>1, <3>2 DEF ReadRow
      <3>4. /\ t.pc = next /\ t.q = s.q /\ t.ver = row[c].ver
            /\ t.payload = versions[c][row[c].ver]
        BY <1>2, <3>2 DEF Slot
      <3>5. row[c].state \in { "live", "deleted" }
        BY <2>1 DEF readable
      <3>6. versions[c][row[c].ver] \in Payloads
        BY <3>5 DEF KnowsInv, TablesKnow, PayloadsKnown, Exists
      <3>7. next \in { "get_tags", "update_tags" }
        BY <3>1
      <3>8. UpdateSlot(t) /\ NamesSlot(t) /\ ReplySlot(t)
        BY <1>3, <1>6, <3>4, <3>5, <3>6, <3>7 DEF UpdateSlot, NamesSlot, ReplySlot
      <3> QED
        BY <3>3, <3>8 DEF SlotKnows
    <2>2. CASE ~ readable(c, s.q.op = "update")
      <3>1. Goto(r, Failed(s, "NOT_FOUND", NoMetadata))
        BY <1>1, <1>3, <1>7, <2>2 DEF ReadRow
      <3> QED
        BY <3>1, UnnamedKnows
    <2> QED
      BY <2>1, <2>2
  <1>8. ASSUME s.pc \in { "get_tags", "update_tags" }, NEW x, x.q = s.q,
               AuthorizeRow(s.q, c) # "OK"
        PROVE  SlotKnows(Failed(x, AuthorizeRow(s.q, c), MetadataOf(c)))
    <2>1. row[c].state # "free"
      BY <1>2, <1>3, <1>8 DEF SlotKnows, NamesSlot, UpdateSlot
    <2> QED
      BY <1>4, <1>5, <1>8, <2>1, RowVisible, NamedKnows
  <1>9. CASE GetTags(r)
    <2>1. s.pc = "get_tags" /\ row[c].state # "free"
      BY <1>1, <1>2, <1>3, <1>9 DEF GetTags, SlotKnows, NamesSlot
    <2>2. CASE AuthorizeRow(s.q, c) = "OK"
      <3>1. PICK t : t = [s EXCEPT !.pc = "get_audit", !.seen = row[c].labels]
        OBVIOUS
      <3>2. Goto(r, t)
        BY <1>1, <1>3, <1>9, <2>2, <3>1 DEF GetTags
      <3>3. t.pc = "get_audit" /\ t.q = s.q
        BY <1>2, <3>1 DEF Slot
      <3>4. Visible(s.q.p, row[c].space)
        BY <1>4, <2>2, RowVisible
      <3>5. UpdateSlot(t) /\ NamesSlot(t) /\ ReplySlot(t)
        BY <1>3, <2>1, <3>3, <3>4 DEF UpdateSlot, NamesSlot, ReplySlot
      <3> QED
        BY <3>2, <3>5 DEF SlotKnows
    <2>3. CASE AuthorizeRow(s.q, c) # "OK"
      <3>1. Goto(r, Failed(s, AuthorizeRow(s.q, c), MetadataOf(c)))
        BY <1>1, <1>3, <1>9, <2>3 DEF GetTags
      <3> QED
        BY <1>8, <2>1, <2>3, <3>1
    <2> QED
      BY <2>2, <2>3
  <1>10. CASE UpdateTags(r)
    <2>1. PICK u : u = [s EXCEPT !.seen = row[c].labels]
      OBVIOUS
    <2>2. /\ u \in Slot /\ u.pc = s.pc /\ u.q = s.q /\ u.ver = s.ver
          /\ u.payload = s.payload /\ u.seen = row[c].labels
      <3>1. row[c].labels \in SUBSET Labels
        BY <1>6 DEF Row
      <3> QED
        BY <1>2, <2>1, <3>1 DEF Slot
    <2>3. s.pc = "update_tags"
      BY <1>1, <1>10 DEF UpdateTags
    <2>4. row[c].state # "free" /\ s.ver <= row[c].ver /\ s.payload \in Payloads
      BY <1>2, <1>3, <2>3 DEF SlotKnows, UpdateSlot
    <2>5. s.q.op = "update" /\ ActionOf["update"] = "credential.update"
      BY <1>5, <2>3 DEF ActionOf
    <2>6. AuthorizeRow(s.q, c) =
            authorize(s.q, row[c].space, row[c].labels, "credential.update")
      BY <2>5 DEF AuthorizeRow
    <2>7. CASE AuthorizeRow(s.q, c) # "OK"
      <3>1. Goto(r, Failed(u, AuthorizeRow(s.q, c), MetadataOf(c)))
        BY <1>1, <1>3, <1>10, <2>1, <2>2, <2>7 DEF UpdateTags
      <3> QED
        BY <1>8, <2>2, <2>3, <2>7, <3>1
    <2>8. CASE AuthorizeRow(s.q, c) = "OK" /\ s.q.p.kind = "agent"
      <3>1. PICK t : t = [u EXCEPT !.pc = "update_replay"]
        OBVIOUS
      <3>2. Goto(r, t)
        BY <1>1, <1>3, <1>10, <2>1, <2>2, <2>8, <3>1 DEF UpdateTags
      <3>3. /\ t.pc = "update_replay" /\ t.q = s.q /\ t.ver = s.ver
            /\ t.payload = s.payload /\ t.seen = row[c].labels
        BY <2>2, <3>1 DEF Slot
      <3>4. Visible(s.q.p, row[c].space)
        BY <1>4, <2>8, RowVisible
      <3>5. UpdateSlot(t)
        BY <1>3, <2>4, <2>6, <2>8, <3>3 DEF UpdateSlot
      <3>6. NamesSlot(t) /\ ReplySlot(t)
        BY <1>3, <3>3, <3>4 DEF NamesSlot, ReplySlot
      <3> QED
        BY <3>2, <3>5, <3>6 DEF SlotKnows
    <2>9. CASE AuthorizeRow(s.q, c) = "OK" /\ s.q.p.kind # "agent"
      <3>1. Goto(r, Planned(u))
        BY <1>1, <1>3, <1>10, <2>1, <2>2, <2>9 DEF UpdateTags
      <3>2. SlotKnows(Planned(u))
        BY <1>3, <1>4, <2>2, <2>4, <2>5, <2>6, <2>9, PlannedKnows
      <3> QED
        BY <3>1, <3>2
    <2> QED
      BY <2>7, <2>8, <2>9
  <1>11. CASE UpdateReplayMiss(r)
    <2>1. s.pc = "update_replay" /\ s.q.op = "update" /\ Goto(r, Planned(s))
      BY <1>1, <1>5, <1>11 DEF UpdateReplayMiss
    <2>2. UpdateSlot(s)
      BY <1>2 DEF SlotKnows
    <2>3. SlotKnows(Planned(s))
      BY <1>2, <1>3, <1>4, <2>1, <2>2, PlannedKnows DEF UpdateSlot
    <2> QED
      BY <2>1, <2>3
  <1> QED
    BY <1>7, <1>9, <1>10, <1>11

\* A transaction that rolls back leaves a failure that names only what its
\* caller may know of, unless the code conceals it.
LEMMA RolledBackKnows ==
    ASSUME TypeOK, NEW s \in Slot, SlotOK(s), SlotKnows(s), s.pc \in TxSteps,
           NEW env \in Env, NEW code \in ErrorCodes,
           \/ TxCode(s, env) = code
           \/ TxCode(s, env) = "OK" /\ code \in { "INTERNAL_ERROR", "AUDIT_UNAVAILABLE" }
    PROVE  SlotKnows(Failed(s, code, TxMetadata(s, code)))
  <1>0. code # "OK"
    BY DEF ErrorCodes
  <1>1. s.q \in Requests /\ s.q.op \in Ops /\ s.pc \in StepsOf(s.q)
    BY RequestFields DEF SlotOK, TxSteps, WriteOps
  <1>2. CASE s.pc \in { "update", "update_replay", "get_audit" }
    <2>1. PICK c \in Creds : c = s.q.cred
      BY <1>2, SlotCred
    <2>2. /\ row[c].state # "free" /\ Visible(s.q.p, row[c].space)
          /\ s.q.op # "purge_expired"
      BY <1>1, <1>2, <2>1 DEF SlotKnows, UpdateSlot, NamesSlot, StepsOf
    <2>3. SlotKnows(Failed(s, code, MetadataOf(c)))
      BY <1>0, <1>1, <2>2, NamedKnows
    <2> QED
      BY <1>2, <2>1, <2>3 DEF TxMetadata
  <1>3. CASE s.pc = "create"
    <2>1. Visible(s.q.p, s.q.space)
      BY <1>3 DEF SlotKnows, NamesSlot
    <2>2. PICK m : m = TxMetadata(s, code)
      OBVIOUS
    <2>3. m.cred = NoCred /\ m.space \in { NoSpace, s.q.space }
      BY <1>3, <2>2 DEF TxMetadata
    <2>4. SlotKnows(Failed(s, code, m))
      BY <1>0, <2>1, <2>3, FailedKnows
    <2> QED
      BY <2>2, <2>4
  <1>4. CASE s.pc \in { "delete", "restore", "purge" }
    <2>1. PICK c \in Creds : c = s.q.cred
      BY <1>4, SlotCred
    <2>2. CASE Exists(c)
      <3>1. AuthorizeRow(s.q, c) = "OK" \/ code = AuthorizeRow(s.q, c) \/ Concealed(code)
        <4>1. CASE s.pc = "delete"
          <5>1. TxCode(s, env) = DeleteCode(s)
            BY <4>1 DEF TxCode
          <5> QED
            BY <2>1, <2>2, <5>1 DEF DeleteCode
        <4>2. CASE s.pc = "restore"
          <5>1. TxCode(s, env) = RestoreCode(s)
            BY <4>2 DEF TxCode
          <5> QED
            BY <2>1, <2>2, <5>1 DEF RestoreCode, Concealed
        <4>3. CASE s.pc = "purge"
          <5>1. TxCode(s, env) = PurgeCode(s, env)
            BY <4>3 DEF TxCode
          <5> QED
            BY <2>1, <2>2, <5>1 DEF PurgeCode
        <4> QED
          BY <1>4, <4>1, <4>2, <4>3
      <3>2. Concealed(code) \/ Visible(s.q.p, row[c].space)
        BY <1>1, <3>1, RowVisible
      <3>3. row[c].state # "free" /\ s.q.op # "purge_expired"
        BY <1>1, <1>4, <2>2 DEF Exists, StepsOf
      <3>4. SlotKnows(Failed(s, code, MetadataOf(c)))
        BY <1>0, <1>1, <3>2, <3>3, NamedKnows
      <3> QED
        BY <1>4, <2>1, <2>2, <3>4 DEF TxMetadata
    <2>3. CASE ~ Exists(c)
      <3>1. TxMetadata(s, code) = NoMetadata
        BY <1>4, <2>1, <2>3 DEF TxMetadata
      <3> QED
        BY <1>0, <3>1, UnnamedKnows
    <2> QED
      BY <2>2, <2>3
  <1>5. CASE s.pc = "purge_expired"
    <2>1. TxMetadata(s, code) = NoMetadata
      BY <1>5 DEF TxMetadata
    <2> QED
      BY <1>0, <2>1, UnnamedKnows
  <1> QED
    BY <1>2, <1>3, <1>4, <1>5 DEF TxSteps, WriteOps

\* The ends of a request that change no table.
LEMMA EndKnows ==
    ASSUME TypeOK, SlotsOK, KnowsInv, NEW r \in Reqs,
           \/ Replay(r) \/ Refuse(r) \/ EarlyError(r) \/ LateError(r)
           \/ AppendFailure(r) \/ AppendFailureError(r) \/ Return(r)
    PROVE  \E t : Goto(r, t) /\ SlotKnows(t)
  <1>1. PICK s : s = slot[r]
    OBVIOUS
  <1>2. s \in Slot /\ SlotOK(s) /\ SlotKnows(s)
    BY <1>1 DEF TypeOK, SlotsOK, KnowsInv
  <1>3. CASE Replay(r)
    <2>1. /\ s.pc \in IdemOps \cup { "update_replay" }
          /\ \E env \in Env : TxCode(s, env) = "REPLAY"
      BY <1>1, <1>3 DEF Replay
    <2>2. checkIdempotency(s) = "REPLAY"
      BY <2>1, TxCodes
    <2>3. PICK k : k = IdemKey(s.q)
      OBVIOUS
    <2>4. s.q.p.kind = "agent" /\ idem[k] # NoRecord /\ idem[k].fp = Fingerprint(s.q)
      BY <2>2, <2>3, CheckCodes
    <2>5. k \in IdemKeys
      <3>1. /\ s.q \in Requests /\ s.pc \in StepsOf(s.q) /\ s.q.op \in Ops
            /\ s.q.key # NoKey
        BY <1>2, <2>1, <2>4, RequestFields DEF SlotOK, IdemOps, WriteOps
      <3>2. s.q.op \in IdemOps
        BY <2>1, <3>1 DEF StepsOf, Ops, WriteOps, IdemOps
      <3> QED
        BY <2>3, <2>4, <3>1, <3>2, IdemKeyType
    <2>6. PICK e \in execs : /\ e.key = k /\ e.fp = idem[k].fp
                             /\ e.cred = idem[k].cred /\ e.ver = idem[k].ver
      BY <2>4, <2>5 DEF KnowsInv, TablesKnow, RecordsKnown
    <2>7. Executed(s, idem[k].cred, idem[k].ver)
      BY <2>3, <2>4, <2>6 DEF Executed
    <2>8. SlotKnows(Succeeded(s, idem[k].cred, idem[k].ver))
      BY <2>7, SucceededKnows
    <2>9. Goto(r, Succeeded(s, idem[k].cred, idem[k].ver))
      BY <1>1, <1>3, <2>3 DEF Replay
    <2> QED
      BY <2>8, <2>9
  <1>4. CASE Refuse(r)
    <2>1. PICK env \in Env :
            LET code == TxCode(s, env)
            IN  code \in ErrorCodes /\ Goto(r, Failed(s, code, TxMetadata(s, code)))
      BY <1>1, <1>4 DEF Refuse
    <2>2. PICK code \in ErrorCodes : code = TxCode(s, env)
      BY <2>1
    <2>3. s.pc \in TxSteps
      BY <1>1, <1>4 DEF Refuse
    <2>4. SlotKnows(Failed(s, code, TxMetadata(s, code)))
      BY <1>2, <2>2, <2>3, RolledBackKnows
    <2> QED
      BY <2>1, <2>2, <2>4
  <1>5. CASE LateError(r)
    <2>1. PICK code \in { "INTERNAL_ERROR", "AUDIT_UNAVAILABLE" } :
            Goto(r, Failed(s, code, TxMetadata(s, code)))
      BY <1>1, <1>5 DEF LateError
    <2>2. s.pc \in TxSteps /\ \E env \in Env : TxCode(s, env) = "OK"
      BY <1>1, <1>5 DEF LateError
    <2>3. code \in ErrorCodes
      BY <2>1 DEF ErrorCodes
    <2>4. SlotKnows(Failed(s, code, TxMetadata(s, code)))
      BY <1>2, <2>1, <2>2, <2>3, RolledBackKnows
    <2> QED
      BY <2>1, <2>4
  <1>6. CASE EarlyError(r)
    <2>1. PICK m : m = IF s.pc \in { "update", "update_replay", "get_audit" }
                       THEN MetadataOf(s.q.cred) ELSE NoMetadata
      OBVIOUS
    <2>2. s.pc \in TxSteps \cup ReadSteps
      BY <1>1, <1>6 DEF EarlyError
    <2>3. PICK code \in EarlyCodes(s.pc) : Goto(r, Failed(s, code, m))
      BY <1>1, <1>6, <2>1 DEF EarlyError
    <2>4. code # "OK"
      BY <2>3 DEF EarlyCodes
    <2>5. CASE s.pc \in { "update", "update_replay", "get_audit" }
      <3>1. PICK c \in Creds : c = s.q.cred
        BY <1>2, <2>5, SlotCred
      <3>2. s.q \in Requests /\ s.pc \in StepsOf(s.q)
        BY <1>2, <2>5 DEF SlotOK
      <3>3. /\ row[c].state # "free" /\ Visible(s.q.p, row[c].space)
            /\ s.q.op # "purge_expired"
        BY <1>2, <2>5, <3>1, <3>2 DEF SlotKnows, UpdateSlot, NamesSlot, StepsOf
      <3>4. SlotKnows(Failed(s, code, MetadataOf(c)))
        BY <2>4, <3>2, <3>3, NamedKnows
      <3> QED
        BY <2>1, <2>3, <2>5, <3>1, <3>4
    <2>6. CASE s.pc \notin { "update", "update_replay", "get_audit" }
      BY <2>1, <2>3, <2>4, <2>6, UnnamedKnows
    <2> QED
      BY <2>5, <2>6
  <1>7. CASE AppendFailure(r)
    <2>1. PICK m : m = IF Concealed(s.code) THEN NoMetadata
                       ELSE [cred |-> s.cred, space |-> s.space]
      OBVIOUS
    <2>2. PICK t : t = [s EXCEPT !.pc = "done", !.cred = m.cred, !.space = m.space]
      OBVIOUS
    <2>3. s.pc = "fail" /\ Goto(r, t)
      BY <1>1, <1>7, <2>1, <2>2 DEF AppendFailure
    <2>4. /\ t.pc = "done" /\ t.q = s.q /\ t.code = s.code /\ t.cred = m.cred
          /\ t.space = m.space
      BY <1>2, <2>2 DEF Slot
    <2>5. /\ Concealed(s.code) => m.cred = NoCred /\ m.space = NoSpace
          /\ ~ Concealed(s.code) => m.cred = s.cred /\ m.space = s.space
      BY <2>1 DEF NoMetadata
    <2>6. UpdateSlot(t) /\ NamesSlot(t) /\ ReplySlot(t)
      BY <1>2, <2>3, <2>4, <2>5 DEF SlotKnows, UpdateSlot, NamesSlot, ReplySlot
    <2> QED
      BY <2>3, <2>6 DEF SlotKnows
  <1>8. CASE AppendFailureError(r)
    <2>1. PICK t : t = [s EXCEPT !.pc = "done", !.code = "AUDIT_UNAVAILABLE",
                                 !.cred = NoCred, !.space = NoSpace]
      OBVIOUS
    <2>2. Goto(r, t)
      BY <1>1, <1>8, <2>1 DEF AppendFailureError
    <2>3. t.pc = "done" /\ t.code # "OK" /\ t.cred = NoCred /\ t.space = NoSpace
      BY <1>2, <2>1 DEF Slot
    <2>4. SlotKnows(t)
      BY <2>3 DEF SlotKnows, UpdateSlot, NamesSlot, ReplySlot
    <2> QED
      BY <2>2, <2>4
  <1>9. CASE Return(r)
    BY <1>9, IdleKnows DEF Return
  <1> QED
    BY <1>3, <1>4, <1>5, <1>6, <1>7, <1>8, <1>9

LEMMA QuietKnows ==
    ASSUME TypeOK, SlotsOK, KnowsInv, NEW r \in Reqs, QuietStep(r)
    PROVE  \E t : Goto(r, t) /\ SlotKnows(t)
  <1>1. CASE \E q \in Requests : Begin(r, q) \/ Reject(r, q)
    BY <1>1, EntryKnows
  <1>2. CASE ReadRow(r) \/ GetTags(r) \/ UpdateTags(r) \/ UpdateReplayMiss(r)
    BY <1>2, ReadKnows
  <1>3. CASE \/ Replay(r) \/ Refuse(r) \/ EarlyError(r) \/ LateError(r)
             \/ AppendFailure(r) \/ AppendFailureError(r) \/ Return(r)
    BY <1>3, EndKnows
  <1> QED
    BY <1>1, <1>2, <1>3 DEF QuietStep

\* The change a slot reports after its commit has been made.
LEMMA CommittedKnows ==
    ASSUME NEW s, NEW c, NEW v,
           s.q.p.kind = "agent" /\ s.q.op \in IdemOps => Executed(s, c, v)'
    PROVE  SlotKnows(Succeeded(s, c, v))'
  <1>1. PICK t : t = Succeeded(s, c, v)
    OBVIOUS
  <1>2. t.pc = "done" /\ t.q = s.q /\ t.code = "OK" /\ t.cred = c /\ t.ver = v
    BY <1>1 DEF Succeeded, IdleSlot
  <1>3. UpdateSlot(t)' /\ NamesSlot(t)'
    BY <1>2 DEF UpdateSlot, NamesSlot
  <1>4. ReplySlot(t)'
    BY <1>2 DEF ReplySlot, Executed
  <1> QED
    BY <1>1, <1>3, <1>4 DEF SlotKnows

\* saveIdempotency adds the record and the execution it tells of.
LEMMA SaveKnows ==
    ASSUME TypeOK, RecordsKnown, NEW s, NEW c, NEW v, saveIdempotency(s, c, v),
           s.q.p.kind = "agent" => IdemKey(s.q) \in IdemKeys
    PROVE  RecordsKnown' /\ (s.q.p.kind = "agent" => Executed(s, c, v)')
  <1>1. CASE s.q.p.kind = "agent"
    <2>1. PICK k \in IdemKeys : k = IdemKey(s.q)
      BY <1>1
    <2>2. PICK x : x = [ fp |-> Fingerprint(s.q), cred |-> c, ver |-> v,
                         expires |-> s.at + IdemTTL ]
      OBVIOUS
    <2>3. PICK e : e = [ key |-> IdemKey(s.q), fp |-> Fingerprint(s.q), cred |-> c,
                         ver |-> v, nth |-> trail[c][s.q.op], at |-> s.at,
                         done |-> now ]
      OBVIOUS
    <2>4. x.fp = Fingerprint(s.q) /\ x.cred = c /\ x.ver = v
      BY <2>2
    <2>5. e.key = k /\ e.fp = Fingerprint(s.q) /\ e.cred = c /\ e.ver = v
      BY <2>1, <2>3
    <2>6. idem' = [idem EXCEPT ![k] = x] /\ execs' = execs \cup { e }
      BY <1>1, <2>1, <2>2, <2>3 DEF saveIdempotency
    <2>7. idem'[k] = x /\ \A j \in IdemKeys : j # k => idem'[j] = idem[j]
      BY <2>6 DEF TypeOK
    <2>8. ASSUME NEW j \in IdemKeys, idem'[j] # NoRecord
          PROVE  \E f \in execs' : /\ f.key = j /\ f.fp = idem'[j].fp
                                   /\ f.cred = idem'[j].cred /\ f.ver = idem'[j].ver
      <3>1. CASE j = k
        BY <2>4, <2>5, <2>6, <2>7, <3>1
      <3>2. CASE j # k
        <4>1. PICK f \in execs : /\ f.key = j /\ f.fp = idem[j].fp
                                 /\ f.cred = idem[j].cred /\ f.ver = idem[j].ver
          BY <2>7, <2>8, <3>2 DEF RecordsKnown
        <4> QED
          BY <2>6, <2>7, <3>2, <4>1
      <3> QED
        BY <3>1, <3>2
    <2>9. Executed(s, c, v)'
      BY <2>1, <2>5, <2>6 DEF Executed
    <2> QED
      BY <2>8, <2>9 DEF RecordsKnown
  <1>2. CASE s.q.p.kind # "agent"
    BY <1>2 DEF saveIdempotency, RecordsKnown
  <1> QED
    BY <1>1, <1>2

\* Records that are removed leave the rest known.
LEMMA RemoveKnows ==
    ASSUME TypeOK, RecordsKnown, UNCHANGED execs,
           \A k \in IdemKeys : idem'[k] = NoRecord \/ idem'[k] = idem[k]
    PROVE  RecordsKnown'
  <1> SUFFICES ASSUME NEW k \in IdemKeys, idem'[k] # NoRecord
               PROVE  \E e \in execs' : /\ e.key = k /\ e.fp = idem'[k].fp
                                        /\ e.cred = idem'[k].cred
                                        /\ e.ver = idem'[k].ver
    BY DEF RecordsKnown
  <1>1. idem'[k] = idem[k] /\ idem[k] # NoRecord
    OBVIOUS
  <1> QED
    BY <1>1 DEF RecordsKnown

\* A step that changes neither rows nor executions.
LEMMA QuietSame ==
    ASSUME NEW t, SlotKnows(t), UNCHANGED << row, execs >>
    PROVE  SlotKnows(t)'
  BY DEF SlotKnows, UpdateSlot, NamesSlot, ReplySlot, Executed, UpdatedLabels

\* What is purged has no payload, and the rest keeps its own.
LEMMA PurgeKnows ==
    ASSUME TypeOK, TablesKnow, NEW C, DeleteRows(C)
    PROVE  TablesKnow'
  <1>1. PayloadsKnown'
    BY PurgeRows DEF TablesKnow, PayloadsKnown, Exists
  <1>2. RecordsKnown'
    BY DEF TablesKnow, RecordsKnown, DeleteRows
  <1> QED
    BY <1>1, <1>2 DEF TablesKnow

\* The key of a slot about to commit an agent's change.
LEMMA CommitKey ==
    ASSUME NEW s, SlotOK(s), s.pc \in IdemOps
    PROVE  /\ s.q \in Requests /\ s.q.op = s.pc
           /\ s.q.p.kind = "agent" => IdemKey(s.q) \in IdemKeys
  <1>1. s.q \in Requests /\ s.pc \in StepsOf(s.q) /\ s.q.op \in Ops
    BY RequestFields DEF SlotOK, IdemOps, WriteOps
  <1>2. s.q.op = s.pc
    BY <1>1 DEF StepsOf, Ops, WriteOps, IdemOps
  <1>3. s.q.p.kind = "agent" => s.q.key # NoKey
    BY <1>1, <1>2 DEF SlotOK, IdemOps, WriteOps
  <1> QED
    BY <1>1, <1>2, <1>3, IdemKeyType

\* The commits that save an idempotency record.
LEMMA ChangeKnows ==
    ASSUME TypeOK, SlotsOK, KnowsInv, NEW r \in Reqs,
           (\E c \in Creds : Create(r, c)) \/ Update(r) \/ Delete(r)
    PROVE  TablesKnow' /\ \E t : Goto(r, t) /\ SlotKnows(t)'
  <1>1. PICK s : s = slot[r]
    OBVIOUS
  <1>2. /\ s \in Slot /\ SlotOK(s) /\ SlotKnows(s) /\ s.pc \in IdemOps
    BY <1>1 DEF TypeOK, SlotsOK, KnowsInv, IdemOps, Create, Update, Delete
  <1>3. /\ s.q \in Requests /\ s.q.op = s.pc
        /\ s.q.p.kind = "agent" => IdemKey(s.q) \in IdemKeys
    BY <1>2, CommitKey
  <1>4. PayloadsKnown /\ RecordsKnown
    BY DEF KnowsInv, TablesKnow
  <1>5. ASSUME NEW c, NEW v, saveIdempotency(s, c, v), Goto(r, Succeeded(s, c, v))
        PROVE  RecordsKnown' /\ \E t : Goto(r, t) /\ SlotKnows(t)'
    <2>1. RecordsKnown' /\ (s.q.p.kind = "agent" => Executed(s, c, v)')
      BY <1>3, <1>4, <1>5, SaveKnows
    <2>2. SlotKnows(Succeeded(s, c, v))'
      BY <2>1, CommittedKnows
    <2>3. PICK t : t = Succeeded(s, c, v)
      OBVIOUS
    <2>4. Goto(r, t) /\ SlotKnows(t)'
      BY <1>5, <2>2, <2>3
    <2> QED
      BY <2>1, <2>4
  <1>6. ASSUME NEW c \in Creds, Create(r, c)
        PROVE  TablesKnow' /\ \E t : Goto(r, t) /\ SlotKnows(t)'
    <2>1. saveIdempotency(s, c, 1) /\ Goto(r, Succeeded(s, c, 1))
      BY <1>1, <1>6 DEF Create
    <2>2. s.q.op = "create" /\ s.q.payload \in Payloads
      <3>1. s.pc = "create"
        BY <1>1, <1>6 DEF Create
      <3> QED
        BY <1>3, <3>1, RequestFields
    <2>3. /\ row'[c].ver = 1 /\ \A z \in Creds : z # c => row'[z] = row[z]
      BY <1>6, CreateRow
    <2>4. versions' = [versions EXCEPT ![c][1] = s.q.payload]
      BY <1>1, <1>6 DEF Create
    <2>5. 1 \in Versions
      BY TimesAssumption DEF Versions
    <2>6. versions'[c][1] = s.q.payload /\ \A z \in Creds : z # c => versions'[z] = versions[z]
      BY <2>4, <2>5 DEF TypeOK
    <2>7. PayloadsKnown'
      BY <1>4, <2>2, <2>3, <2>6 DEF PayloadsKnown, Exists
    <2> QED
      BY <1>5, <2>1, <2>7 DEF TablesKnow
  <1>7. CASE Update(r)
    <2>1. PICK c \in Creds : c = s.q.cred
      BY <1>1, <1>7, UpdateRow
    <2>2. PICK v \in Versions : v = s.ver + 1
      BY <1>1, <1>7, UpdateRow
    <2>3. saveIdempotency(s, c, v) /\ Goto(r, Succeeded(s, c, v))
      BY <1>1, <1>7, <2>1, <2>2 DEF Update
    <2>4. row'[c].ver = v /\ \A z \in Creds : z # c => row'[z] = row[z]
      BY <1>1, <1>7, <2>1, <2>2, UpdateRow
    <2>5. UpdatedPayload(s) \in Payloads
      <3>1. s.payload \in Payloads
        BY <1>1, <1>2, <1>7 DEF Update, SlotKnows, UpdateSlot
      <3>2. s.q.payload \in Payloads \cup { Keep }
        BY <1>3, RequestFields
      <3> QED
        BY <3>1, <3>2 DEF UpdatedPayload
    <2>6. versions' = [versions EXCEPT ![c][v] = UpdatedPayload(s)]
      BY <1>1, <1>7, <2>1, <2>2 DEF Update, UpdatedPayload
    <2>7. /\ versions'[c][v] = UpdatedPayload(s)
          /\ \A z \in Creds : z # c => versions'[z] = versions[z]
      BY <2>6 DEF TypeOK
    <2>8. PayloadsKnown'
      BY <1>4, <2>4, <2>5, <2>7 DEF PayloadsKnown, Exists
    <2> QED
      BY <1>5, <2>3, <2>8 DEF TablesKnow
  <1>8. CASE Delete(r)
    <2>1. PICK c \in Creds : c = s.q.cred
      BY <1>1, <1>8, DeleteRow
    <2>2. saveIdempotency(s, c, s.q.ver) /\ Goto(r, Succeeded(s, c, s.q.ver))
      BY <1>1, <1>8, <2>1 DEF Delete
    <2>3. /\ row[c].state = "live" /\ row'[c].ver = row[c].ver
          /\ \A z \in Creds : z # c => row'[z] = row[z]
      BY <1>1, <1>8, <2>1, DeleteRow
    <2>4. UNCHANGED versions
      BY <1>8 DEF Delete
    <2>5. PayloadsKnown'
      BY <1>4, <2>3, <2>4 DEF PayloadsKnown, Exists
    <2> QED
      BY <1>5, <2>2, <2>5 DEF TablesKnow
  <1> QED
    BY <1>6, <1>7, <1>8

\* The commits that save none.
LEMMA PlainKnows ==
    ASSUME TypeOK, SlotsOK, KnowsInv, NEW r \in Reqs,
           GetAudit(r) \/ Restore(r) \/ Purge(r) \/ PurgeExpired(r)
    PROVE  TablesKnow' /\ \E t : Goto(r, t) /\ SlotKnows(t)'
  <1>1. PICK s : s = slot[r]
    OBVIOUS
  <1>2. s \in Slot /\ SlotOK(s) /\ s.pc \in { "get_audit", "restore", "purge",
                                              "purge_expired" }
    BY <1>1 DEF TypeOK, SlotsOK, GetAudit, Restore, Purge, PurgeExpired
  <1>3. s.q \in Requests /\ s.pc \in StepsOf(s.q) /\ s.q.op \in Ops
    BY <1>2, RequestFields DEF SlotOK
  <1>4. s.q.op \notin IdemOps
    BY <1>2, <1>3 DEF StepsOf, IdemOps
  <1>5. ASSUME NEW c, NEW v, Goto(r, Succeeded(s, c, v))
        PROVE  \E t : Goto(r, t) /\ SlotKnows(t)'
    <2>1. SlotKnows(Succeeded(s, c, v))'
      BY <1>4, CommittedKnows
    <2>2. PICK t : t = Succeeded(s, c, v)
      OBVIOUS
    <2>3. Goto(r, t) /\ SlotKnows(t)'
      BY <1>5, <2>1, <2>2
    <2> QED
      BY <2>3
  <1>6. CASE GetAudit(r)
    <2>1. Goto(r, Succeeded(s, s.q.cred, s.ver))
      BY <1>1, <1>6 DEF GetAudit
    <2>2. TablesKnow'
      BY <1>6 DEF GetAudit, KnowsInv, TablesKnow, PayloadsKnown, RecordsKnown, Exists
    <2> QED
      BY <1>5, <2>1, <2>2
  <1>7. CASE Restore(r)
    <2>1. PICK c \in Creds : c = s.q.cred
      BY <1>1, <1>7, RestoreRow
    <2>2. Goto(r, Succeeded(s, c, s.q.ver)) /\ UNCHANGED << versions, idem, execs >>
      BY <1>1, <1>7, <2>1 DEF Restore
    <2>3. /\ row[c].state = "deleted" /\ row'[c].ver = row[c].ver
          /\ \A z \in Creds : z # c => row'[z] = row[z]
      BY <1>1, <1>7, <2>1, RestoreRow
    <2>4. TablesKnow'
      BY <2>2, <2>3 DEF KnowsInv, TablesKnow, PayloadsKnown, RecordsKnown, Exists
    <2> QED
      BY <1>5, <2>2, <2>4
  <1>8. CASE Purge(r)
    <2>1. Goto(r, Succeeded(s, s.q.cred, s.q.ver))
      BY <1>1, <1>8 DEF Purge
    <2>2. TablesKnow'
      BY <1>8, PurgeKnows DEF Purge, KnowsInv
    <2> QED
      BY <1>5, <2>1, <2>2
  <1>9. CASE PurgeExpired(r)
    <2>1. Goto(r, Succeeded(s, NoCred, 0))
      BY <1>1, <1>9 DEF PurgeExpired
    <2>2. TablesKnow'
      BY <1>9, PurgeKnows DEF PurgeExpired, KnowsInv
    <2> QED
      BY <1>5, <2>1, <2>2
  <1> QED
    BY <1>6, <1>7, <1>8, <1>9

LEMMA KnowsInductive ==
    ASSUME TypeOK, TypeOK', SlotsOK, KnowsInv, [Next]_vars
    PROVE  KnowsInv'
  <1>1. Forward
    BY TablesForward
  <1>2. \A x \in Reqs : SlotKnows(slot[x])
    BY DEF KnowsInv
  <1>3. ASSUME NEW r \in Reqs, RequestStep(r) PROVE KnowsInv'
    <2>1. CASE QuietStep(r)
      <3>1. UNCHANGED << row, versions, trail, execs, maint, now >>
        BY <2>1, QuietTables
      <3>2. PICK t : Goto(r, t) /\ SlotKnows(t)
        BY <2>1, QuietKnows
      <3>3. SlotKnows(t)'
        BY <3>1, <3>2, QuietSame
      <3>4. \A x \in Reqs : SlotKnows(slot[x])'
        BY <1>1, <1>2, <3>2, <3>3, MoveKnows
      <3>5. \A k \in IdemKeys : idem'[k] = NoRecord \/ idem'[k] = idem[k]
        <4>1. CASE UpdateReplayMiss(r)
          BY <4>1 DEF UpdateReplayMiss, TypeOK
        <4>2. CASE \E q \in Requests : Begin(r, q) \/ Reject(r, q)
          <5>1. UNCHANGED tables
            BY <4>2, Zenon DEF Begin, Reject
          <5> QED
            BY <5>1 DEF tables
        <4>3. CASE ReadRow(r) \/ GetTags(r) \/ UpdateTags(r)
          BY <4>3 DEF ReadRow, GetTags, UpdateTags, tables
        <4>4. CASE \/ Replay(r) \/ Refuse(r) \/ EarlyError(r) \/ LateError(r)
                   \/ AppendFailure(r) \/ AppendFailureError(r) \/ Return(r)
          BY <4>4 DEF Replay, Refuse, EarlyError, LateError, AppendFailure,
                      AppendFailureError, Return, tables
        <4> QED
          BY <2>1, <4>1, <4>2, <4>3, <4>4 DEF QuietStep
      <3>6. TablesKnow'
        <4>1. RecordsKnown'
          BY <3>1, <3>5, RemoveKnows DEF KnowsInv, TablesKnow
        <4>2. PayloadsKnown'
          BY <3>1 DEF KnowsInv, TablesKnow, PayloadsKnown, Exists
        <4> QED
          BY <4>1, <4>2 DEF TablesKnow
      <3> QED
        BY <3>4, <3>6 DEF KnowsInv
    <2>2. ASSUME TablesKnow', \E t : Goto(r, t) /\ SlotKnows(t)'
          PROVE  KnowsInv'
      <3>1. PICK t : Goto(r, t) /\ SlotKnows(t)'
        BY <2>2
      <3>2. \A x \in Reqs : SlotKnows(slot[x])'
        BY <1>1, <1>2, <3>1, MoveKnows
      <3> QED
        BY <2>2, <3>2 DEF KnowsInv
    <2>3. CASE (\E c \in Creds : Create(r, c)) \/ Update(r) \/ Delete(r)
      BY <2>2, <2>3, ChangeKnows
    <2>4. CASE GetAudit(r) \/ Restore(r) \/ Purge(r) \/ PurgeExpired(r)
      BY <2>2, <2>4, PlainKnows
    <2> QED
      BY <1>3, <2>1, <2>3, <2>4, RequestCases
  <1>4. ASSUME UNCHANGED slot PROVE \A x \in Reqs : SlotKnows(slot[x])'
    <2> SUFFICES ASSUME NEW x \in Reqs PROVE SlotKnows(slot[x])'
      OBVIOUS
    <2>1. PICK u : u = slot[x]
      OBVIOUS
    <2>2. u = slot'[x] /\ u \in Slot /\ SlotOK(u) /\ SlotKnows(u)
      BY <1>2, <1>4, <2>1 DEF TypeOK, SlotsOK
    <2>3. SlotKnows(u)'
      BY <1>1, <2>2, KnowsForward
    <2> QED
      BY <2>2, <2>3 DEF SlotKnows, UpdateSlot, NamesSlot, ReplySlot, Executed,
                        UpdatedLabels
  <1>5. CASE PurgeExpiredMaintenance
    <2>1. TablesKnow'
      BY <1>5, PurgeKnows DEF PurgeExpiredMaintenance, KnowsInv
    <2> QED
      BY <1>4, <1>5, <2>1 DEF PurgeExpiredMaintenance, KnowsInv
  <1>6. CASE cleanupExpiredState
    <2>1. \A k \in IdemKeys : idem'[k] = NoRecord \/ idem'[k] = idem[k]
      BY <1>6 DEF cleanupExpiredState
    <2>2. RecordsKnown'
      BY <1>6, <2>1, RemoveKnows DEF KnowsInv, TablesKnow, cleanupExpiredState
    <2>3. PayloadsKnown'
      BY <1>6 DEF KnowsInv, TablesKnow, PayloadsKnown, Exists, cleanupExpiredState
    <2> QED
      BY <1>4, <1>6, <2>2, <2>3 DEF KnowsInv, TablesKnow, cleanupExpiredState
  <1>7. ASSUME UNCHANGED tables PROVE TablesKnow'
    BY <1>7 DEF tables, KnowsInv, TablesKnow, PayloadsKnown, RecordsKnown, Exists
  <1>8. CASE MaintStart \/ MaintError \/ Tick \/ UNCHANGED vars
    <2>1. UNCHANGED << tables, slot >>
      BY <1>8 DEF MaintStart, MaintError, Tick, vars
    <2> QED
      BY <1>4, <1>7, <2>1 DEF KnowsInv
  <1>9. CASE Crash
    <2>1. \A x \in Reqs : SlotKnows(slot[x])'
      <3> SUFFICES ASSUME NEW x \in Reqs PROVE SlotKnows(slot[x])'
        OBVIOUS
      <3>1. slot'[x] = IdleSlot
        BY <1>9 DEF Crash
      <3>2. slot'[x].pc = "idle"
        BY <3>1 DEF IdleSlot
      <3> QED
        BY <3>2 DEF SlotKnows, UpdateSlot, NamesSlot, ReplySlot
    <2> QED
      BY <1>7, <1>9, <2>1 DEF KnowsInv, Crash
  <1> QED
    BY <1>3, <1>5, <1>6, <1>8, <1>9 DEF Next, MaintenanceStep

LEMMA KnowsAlways == Spec => []KnowsInv
  <1>1. Init => KnowsInv
    <2> SUFFICES ASSUME Init PROVE KnowsInv
      OBVIOUS
    <2>1. PayloadsKnown
      <3>1. \A c \in Creds : row[c].state = "free"
        BY DEF Init, FreeRow
      <3> QED
        BY <3>1 DEF PayloadsKnown, Exists
    <2>2. RecordsKnown
      BY DEF Init, RecordsKnown
    <2>3. \A r \in Reqs : SlotKnows(slot[r])
      BY IdleKnows DEF Init
    <2> QED
      BY <2>1, <2>2, <2>3 DEF KnowsInv, TablesKnow
  <1>2. TypeOK /\ TypeOK' /\ SlotsOK /\ KnowsInv /\ [Next]_vars => KnowsInv'
    BY KnowsInductive
  <1> QED
    BY <1>1, <1>2, TypeCorrect, PTL DEF Spec

\* An agent told that its change succeeded gets the result of a change made
\* for the same key and the same input (ReplyIsExecution), also when
\* checkIdempotency answers from the record of an earlier attempt.
THEOREM RepliesAreExecutions == Spec => []ReplyIsExecution
  <1>1. KnowsInv => ReplyIsExecution
    BY DEF KnowsInv, SlotKnows, ReplySlot, Executed, ReplyIsExecution
  <1> QED
    BY <1>1, KnowsAlways, PTL

\* appendCredentialFailure names a Space or a credential only of a Space the
\* actor has access to (FailureNamesOnlyVisible), whatever happened to the
\* credential between the transaction that failed and the event.
THEOREM FailuresNameOnlyVisible == Spec => []FailureNamesOnlyVisible
  <1>1. KnowsInv => FailureNamesOnlyVisible
    BY DEF KnowsInv, SlotKnows, NamesSlot, FailureNamesOnlyVisible
  <1> QED
    BY <1>1, KnowsAlways, PTL

\* An update that commits is the last transaction of its own request.
LEMMA CommitIsUpdate ==
    ASSUME TypeOK, SlotsOK, [Next]_vars, NEW r \in Reqs, UpdateCommits(r)
    PROVE  Update(r)
  <1>1. slot[r].pc = "update" /\ trail' # trail /\ slot'[r].pc = "done"
    BY DEF UpdateCommits
  <1>2. slot'[r] # slot[r]
    BY <1>1
  <1>3. ASSUME NEW x \in Reqs, RequestStep(x) PROVE Update(r)
    <2>1. ~ QuietStep(x)
      BY <1>1, QuietTables
    <2>2. ASSUME x # r, NEW t, Goto(x, t) PROVE FALSE
      BY <1>2, <2>2 DEF Goto, TypeOK
    <2>3. \/ GetAudit(x) \/ Update(x) \/ \E c \in Creds : Create(x, c)
          \/ Delete(x) \/ Restore(x) \/ Purge(x) \/ PurgeExpired(x)
      BY <1>3, <2>1, RequestCases
    <2>4. x = r
      BY <2>2, <2>3 DEF GetAudit, Update, Create, Delete, Restore, Purge, PurgeExpired
    <2> QED
      BY <1>1, <2>3, <2>4 DEF GetAudit, Create, Delete, Restore, Purge, PurgeExpired
  <1>4. ~ MaintenanceStep /\ ~ Tick /\ ~ UNCHANGED vars
    BY <1>1, <1>2 DEF MaintenanceStep, MaintStart, PurgeExpiredMaintenance,
                      cleanupExpiredState, MaintError, Tick, vars
  <1>5. ~ Crash
    BY <1>1 DEF Crash, tables
  <1> QED
    BY <1>3, <1>4, <1>5 DEF Next

\* An update commits only if its caller may update the credential with the
\* labels it has then and with the labels it will have
\* (UpdateAuthorizedAtCommit): Update authorizes on labels read steps before,
\* and the version its UPDATE compares stands for them.
THEOREM UpdatesAuthorizedAtCommit == Spec => UpdateAuthorizedAtCommit
  <1> DEFINE Good(r) ==
               LET q == slot[r].q
                   allowed(labels) ==
                     authorize(q, row[q.cred].space, labels, "credential.update")
                         = "OK"
               IN  allowed(row[q.cred].labels) /\ allowed(row'[q.cred].labels)
             Inv == TypeOK /\ SlotsOK /\ RowsOK /\ KnowsInv
  <1>1. ASSUME Inv, [Next]_vars, NEW r \in Reqs, UpdateCommits(r)
        PROVE  Good(r)
    <2>1. Update(r)
      BY <1>1, CommitIsUpdate
    <2>2. PICK s : s = slot[r]
      OBVIOUS
    <2>3. PICK c \in Creds : c = s.q.cred
      BY <1>1, <2>1, <2>2, UpdateRow
    <2>4. /\ row[c].state = "live" /\ row[c].ver = s.ver
          /\ row'[c].labels = IF s.q.labels = Keep THEN row[c].labels ELSE s.q.labels
      BY <1>1, <2>1, <2>2, <2>3, UpdateRow
    <2>5. s.pc = "update" /\ UpdateSlot(s)
      BY <1>1, <2>1, <2>2 DEF Update, KnowsInv, SlotKnows
    <2>6. /\ authorize(s.q, row[c].space, s.seen, "credential.update") = "OK"
          /\ authorize(s.q, row[c].space, UpdatedLabels(s), "credential.update") = "OK"
          /\ row[c].labels = s.seen
      BY <2>3, <2>4, <2>5 DEF UpdateSlot
    <2>7. row'[c].labels = UpdatedLabels(s)
      BY <2>4, <2>6 DEF UpdatedLabels
    <2> QED
      BY <2>2, <2>3, <2>6, <2>7
  <1>2. Inv /\ [Next]_vars => [\A r \in Reqs : UpdateCommits(r) => Good(r)]_vars
    BY <1>1
  <1>3. Spec => []Inv
    BY TypeCorrect, KnowsAlways, PTL
  <1> QED
    BY <1>2, <1>3, PTL DEF Spec, UpdateAuthorizedAtCommit

-----------------------------------------------------------------------------
(***************************************************************************)
(* The refinement of CredentialStore: every commit is one step of a cell,  *)
(* everything else leaves the cells alone.                                 *)
(***************************************************************************)

\* The content of one credential, and its cell.
ContentOf(c) ==
    IF Exists(c) THEN [ payload |-> versions[c][row[c].ver], labels |-> row[c].labels ]
    ELSE NoPayload

CellOf(c) == [ state |-> row[c].state, ver |-> row[c].ver, content |-> ContentOf(c) ]

LEMMA CellFields ==
    ASSUME NEW c \in Creds
    PROVE  cell[c] = CellOf(c) /\ cell'[c] = CellOf(c)'
  BY DEF cell, CellOf, ContentOf, Exists

LEMMA CellState ==
    ASSUME NEW c \in Creds
    PROVE  /\ cell[c].state = row[c].state /\ cell[c].ver = row[c].ver
           /\ cell[c].content = ContentOf(c)
  <1>1. PICK x : x = ContentOf(c)
    OBVIOUS
  <1>2. cell[c] = [ state |-> row[c].state, ver |-> row[c].ver, content |-> x ]
    BY <1>1, CellFields DEF CellOf
  <1> QED
    BY <1>1, <1>2

\* Cells are compared one by one.
LEMMA CellsEqual ==
    ASSUME NEW f, f = [c \in Creds |-> f[c]], \A c \in Creds : cell'[c] = f[c]
    PROVE  cell' = f
  <1>1. cell' = [c \in Creds |-> cell'[c]]
    BY DEF cell
  <1> QED
    BY <1>1

\* A credential whose row and versions stay keeps its cell.
LEMMA CellKept ==
    ASSUME NEW c \in Creds, row'[c] = row[c], versions'[c] = versions[c]
    PROVE  cell'[c] = cell[c]
  BY CellFields DEF CellOf, ContentOf, Exists

\* A step that changes one cell.
LEMMA OneCell ==
    ASSUME NEW c \in Creds, NEW y, cell'[c] = y,
           \A z \in Creds : z # c => cell'[z] = cell[z]
    PROVE  cell' = [cell EXCEPT ![c] = y]
  <1>1. PICK f : f = [cell EXCEPT ![c] = y]
    OBVIOUS
  <1>2. cell = [z \in Creds |-> cell[z]]
    BY DEF cell
  <1>3. f = [z \in Creds |-> f[z]] /\ f[c] = y /\ \A z \in Creds : z # c => f[z] = cell[z]
    BY <1>1, <1>2
  <1>4. \A z \in Creds : cell'[z] = f[z]
    BY <1>3
  <1>5. cell' = f
    BY <1>3, <1>4, CellsEqual
  <1> QED
    BY <1>1, <1>5

LEMMA CreateCell ==
    ASSUME TypeOK, SlotsOK, NEW r \in Reqs, NEW c \in Creds, Create(r, c)
    PROVE  Store!Next
  <1>1. PICK s : s = slot[r]
    OBVIOUS
  <1>2. /\ s.q \in Requests /\ s.q.op = "create" /\ row[c].state = "free"
        /\ row'[c].state = "live" /\ row'[c].ver = 1 /\ row'[c].labels = s.q.labels
        /\ \A z \in Creds : z # c => row'[z] = row[z]
    BY <1>1, CreateRow
  <1>3. s.q.payload \in Payloads /\ s.q.labels \in SUBSET Labels
    BY <1>2, RequestFields
  <1>4. versions'[c][1] = s.q.payload /\ \A z \in Creds : z # c => versions'[z] = versions[z]
    <2>1. 1 \in Versions
      BY TimesAssumption DEF Versions
    <2>2. versions' = [versions EXCEPT ![c][1] = s.q.payload]
      BY <1>1 DEF Create
    <2> QED
      BY <2>1, <2>2 DEF TypeOK
  <1>5. PICK x \in Content : x = [payload |-> s.q.payload, labels |-> s.q.labels]
    BY <1>3 DEF Content
  <1>6. cell'[c] = [state |-> "live", ver |-> 1, content |-> x]
    BY <1>2, <1>4, <1>5, CellFields DEF CellOf, ContentOf, Exists
  <1>7. \A z \in Creds : z # c => cell'[z] = cell[z]
    BY <1>2, <1>4, CellKept
  <1>8. cell[c].state = "free"
    BY <1>2, CellState
  <1>9. Store!Create(c, x)
    BY <1>6, <1>7, <1>8, OneCell DEF Store!Create
  <1> QED
    BY <1>9 DEF Store!Next

LEMMA UpdateCell ==
    ASSUME TypeOK, TypeOK', SlotsOK, KnowsInv, NEW r \in Reqs, Update(r)
    PROVE  Store!Next
  <1>1. PICK s : s = slot[r]
    OBVIOUS
  <1>2. PICK c \in Creds : c = s.q.cred
    BY <1>1, UpdateRow
  <1>3. PICK v \in Versions : v = s.ver + 1
    BY <1>1, UpdateRow
  <1>4. /\ row[c].state = "live" /\ row[c].ver = s.ver
        /\ row'[c].state = "live" /\ row'[c].ver = v
        /\ \A z \in Creds : z # c => row'[z] = row[z]
    BY <1>1, <1>2, <1>3, UpdateRow
  <1>5. UpdatedPayload(s) \in Payloads
    <2>1. s.q \in Requests /\ s.payload \in Payloads
      BY <1>1, UpdateRow DEF KnowsInv, SlotKnows, UpdateSlot, Update
    <2>2. s.q.payload \in Payloads \cup { Keep }
      BY <2>1, RequestFields
    <2> QED
      BY <2>1, <2>2 DEF UpdatedPayload
  <1>6. /\ versions'[c][v] = UpdatedPayload(s)
        /\ \A z \in Creds : z # c => versions'[z] = versions[z]
    <2>1. versions' = [versions EXCEPT ![c][v] = UpdatedPayload(s)]
      BY <1>1, <1>2, <1>3 DEF Update, UpdatedPayload
    <2> QED
      BY <2>1 DEF TypeOK
  <1>7. row'[c].labels \in SUBSET Labels
    BY DEF TypeOK, Row
  <1>8. PICK x \in Content : x = [payload |-> UpdatedPayload(s), labels |-> row'[c].labels]
    BY <1>5, <1>7 DEF Content
  <1>9. cell'[c] = [state |-> "live", ver |-> v, content |-> x]
    BY <1>4, <1>6, <1>8, CellFields DEF CellOf, ContentOf, Exists
  <1>10. cell[c] = CellOf(c) /\ cell[c].state = "live" /\ cell[c].ver = s.ver
    BY <1>4, CellState, CellFields
  <1>11. cell'[c] = [[cell[c] EXCEPT !.ver = @ + 1] EXCEPT !.content = x]
    <2>1. PICK k : k = ContentOf(c)
      OBVIOUS
    <2>2. cell[c] = [state |-> "live", ver |-> s.ver, content |-> k]
      BY <1>4, <1>10, <2>1 DEF CellOf
    <2>3. PICK z : z = [state |-> "live", ver |-> s.ver, content |-> k]
      OBVIOUS
    <2>4. PICK w : w = [z EXCEPT !.ver = @ + 1]
      OBVIOUS
    <2>5. w = [state |-> "live", ver |-> v, content |-> k]
      BY <1>3, <2>3, <2>4
    <2>6. [w EXCEPT !.content = x] = [state |-> "live", ver |-> v, content |-> x]
      BY <2>5
    <2> QED
      BY <1>9, <2>2, <2>3, <2>4, <2>6
  <1>12. \A z \in Creds : z # c => cell'[z] = cell[z]
    BY <1>4, <1>6, CellKept
  <1>13. cell' = [cell EXCEPT ![c].ver = @ + 1, ![c].content = x]
    <2>1. PICK y : y = [[cell[c] EXCEPT !.ver = @ + 1] EXCEPT !.content = x]
      OBVIOUS
    <2>2. cell' = [cell EXCEPT ![c] = y]
      BY <1>11, <1>12, <2>1, OneCell
    <2>3. DOMAIN cell = Creds
      BY DEF cell
    <2> QED
      BY <2>1, <2>2, <2>3
  <1>14. Store!Write(c, x)
    BY <1>10, <1>13 DEF Store!Write
  <1> QED
    BY <1>14 DEF Store!Next

LEMMA StateCell ==
    ASSUME TypeOK, SlotsOK, NEW r \in Reqs, Delete(r) \/ Restore(r)
    PROVE  Store!Next
  <1>1. PICK c \in Creds : c = slot[r].q.cred
    BY DeleteRow, RestoreRow
  <1>2. UNCHANGED versions
    BY DEF Delete, Restore
  <1>3. /\ \/ /\ Delete(r) /\ row[c].state = "live" /\ row'[c].state = "deleted"
           \/ /\ Restore(r) /\ row[c].state = "deleted" /\ row'[c].state = "live"
        /\ row'[c].ver = row[c].ver /\ row'[c].labels = row[c].labels
        /\ \A z \in Creds : z # c => row'[z] = row[z]
    BY <1>1, DeleteRow, RestoreRow
  <1>4. PICK d : d = row'[c].state
    OBVIOUS
  <1>5. cell[c].state = row[c].state
    BY CellState
  <1>6. cell'[c] = [cell[c] EXCEPT !.state = d]
    <2>1. PICK k : k = ContentOf(c)
      OBVIOUS
    <2>2. ContentOf(c)' = k
      BY <1>2, <1>3, <2>1 DEF ContentOf, Exists
    <2>3. cell[c] = [state |-> row[c].state, ver |-> row[c].ver, content |-> k]
      BY <2>1, CellFields DEF CellOf
    <2>4. cell'[c] = [state |-> d, ver |-> row[c].ver, content |-> k]
      BY <1>3, <1>4, <2>2, CellFields DEF CellOf
    <2> QED
      BY <2>3, <2>4
  <1>7. \A z \in Creds : z # c => cell'[z] = cell[z]
    BY <1>2, <1>3, CellKept
  <1>8. cell' = [cell EXCEPT ![c].state = d]
    <2>1. PICK y : y = [cell[c] EXCEPT !.state = d]
      OBVIOUS
    <2>2. cell' = [cell EXCEPT ![c] = y]
      BY <1>6, <1>7, <2>1, OneCell
    <2> QED
      BY <2>1, <2>2
  <1>9. Store!Delete(c) \/ Store!Restore(c)
    BY <1>3, <1>4, <1>5, <1>8 DEF Store!Delete, Store!Restore
  <1> QED
    BY <1>9 DEF Store!Next

LEMMA PurgeCells ==
    ASSUME TypeOK, NEW C \in SUBSET Creds, DeleteRows(C),
           \A c \in C : row[c].state = "deleted"
    PROVE  Store!Next
  <1>1. PICK f : f = [c \in Creds |->
                        IF c \in C
                        THEN [cell[c] EXCEPT !.state = "purged", !.content = NoPayload]
                        ELSE cell[c]]
    OBVIOUS
  <1>2. ASSUME NEW c \in Creds PROVE cell'[c] = f[c]
    <2>1. CASE c \in C
      <3>1. row'[c].state = "purged" /\ row'[c].ver = row[c].ver
        BY <2>1, PurgeRows
      <3>2. cell'[c] = [state |-> "purged", ver |-> row[c].ver, content |-> NoPayload]
        BY <3>1, CellFields DEF CellOf, ContentOf, Exists
      <3>3. f[c] = [cell[c] EXCEPT !.state = "purged", !.content = NoPayload]
        BY <1>1, <2>1
      <3>4. PICK k : k = ContentOf(c)
        OBVIOUS
      <3>5. cell[c] = [state |-> row[c].state, ver |-> row[c].ver, content |-> k]
        BY <3>4, CellFields DEF CellOf
      <3>6. PICK z : z = [state |-> row[c].state, ver |-> row[c].ver, content |-> k]
        OBVIOUS
      <3>7. PICK w : w = [z EXCEPT !.state = "purged"]
        OBVIOUS
      <3>8. w = [state |-> "purged", ver |-> row[c].ver, content |-> k]
        BY <3>6, <3>7
      <3>9. [w EXCEPT !.content = NoPayload] =
              [state |-> "purged", ver |-> row[c].ver, content |-> NoPayload]
        BY <3>8
      <3> QED
        BY <3>2, <3>3, <3>5, <3>6, <3>7, <3>9
    <2>2. CASE c \notin C
      <3>1. cell'[c] = cell[c]
        BY <2>2, PurgeRows, CellKept
      <3> QED
        BY <1>1, <2>2, <3>1
    <2> QED
      BY <2>1, <2>2
  <1>3. f = [c \in Creds |-> f[c]]
    BY <1>1
  <1>4. cell' = f
    BY <1>2, <1>3, CellsEqual
  <1>5. \A c \in C : cell[c].state = "deleted"
    BY CellState
  <1>6. Store!Purge(C)
    BY <1>1, <1>4, <1>5 DEF Store!Purge
  <1> QED
    BY <1>6 DEF Store!Next

\* The service implements the atomic store (ImplementsStore): Create, Update,
\* Delete, Restore and the purges each commit one step of CredentialStore, and
\* no step in between, no rollback and no crash shows in a cell.
THEOREM ServiceImplementsStore == Spec => ImplementsStore
  <1> DEFINE Inv == TypeOK /\ SlotsOK /\ RowsOK /\ KnowsInv
  <1>1. Init => Store!Init
    <2> SUFFICES ASSUME Init PROVE Store!Init
      OBVIOUS
    <2>1. \A c \in Creds : row[c].state = "free" /\ row[c].ver = 0 /\ ~ Exists(c)
      BY DEF Init, FreeRow, Exists
    <2> QED
      BY <2>1 DEF Store!Init, cell
  <1>2. ASSUME Inv, Inv', [Next]_vars PROVE Store!Next \/ UNCHANGED cell
    <2>1. ASSUME UNCHANGED << row, versions >> PROVE UNCHANGED cell
      BY <2>1 DEF cell, Exists
    <2>2. ASSUME NEW r \in Reqs, RequestStep(r) PROVE Store!Next \/ UNCHANGED cell
      <3>1. CASE QuietStep(r) \/ GetAudit(r)
        BY <2>1, <3>1, QuietTables DEF GetAudit
      <3>2. ASSUME NEW c \in Creds, Create(r, c) PROVE Store!Next
        BY <1>2, <3>2, CreateCell
      <3>3. CASE Update(r)
        BY <1>2, <3>3, UpdateCell
      <3>4. CASE Delete(r) \/ Restore(r)
        BY <1>2, <3>4, StateCell
      <3>5. CASE Purge(r)
        <4>1. PICK c \in Creds : c = slot[r].q.cred
          BY <1>2, <3>5, TxSlot DEF Purge, Ops, WriteOps
        <4>2. row[c].state = "deleted" /\ DeleteRows({ c })
          BY <3>5, <4>1 DEF Purge, PurgeCode
        <4> QED
          BY <1>2, <4>2, PurgeCells
      <3>6. CASE PurgeExpired(r)
        BY <1>2, <3>6, PurgeCells DEF PurgeExpired, Expired
      <3> QED
        BY <2>2, <3>1, <3>2, <3>3, <3>4, <3>5, <3>6, RequestCases
    <2>3. CASE PurgeExpiredMaintenance
      BY <1>2, <2>3, PurgeCells DEF PurgeExpiredMaintenance, Expired
    <2>4. CASE MaintStart \/ cleanupExpiredState \/ MaintError \/ Crash \/ Tick
      BY <2>1, <2>4 DEF MaintStart, cleanupExpiredState, MaintError, Crash, Tick, tables
    <2>5. CASE UNCHANGED vars
      BY <2>1, <2>5 DEF vars, tables
    <2> QED
      BY <1>2, <2>2, <2>3, <2>4, <2>5 DEF Next, MaintenanceStep
  <1>3. Spec => []Inv
    BY TypeCorrect, KnowsAlways, PTL
  <1>4. Inv /\ Inv' /\ [Next]_vars => [Store!Next]_cell
    BY <1>2
  <1> QED
    BY <1>1, <1>3, <1>4, PTL DEF Spec, ImplementsStore, Store!Spec

-----------------------------------------------------------------------------
(***************************************************************************)
(* Plaintexts and read events.                                             *)
(***************************************************************************)

\* The slot is about to return the plaintext of c.
Delivering(s, c) ==
    s.pc = "done" /\ s.code = "OK" /\ s.q.op = "get" /\ s.cred = c

Pending(c) == { r \in Reqs : Delivering(slot[r], c) }

\* The slot returns no plaintext.
Silent(s) == s.pc # "done" \/ s.code # "OK" \/ s.q.op # "get"

LEMMA FailedSilent ==
    ASSUME NEW s, NEW code, code # "OK", NEW m
    PROVE  Silent(Failed(s, code, m))
  BY DEF Silent, Failed, IdleSlot

\* Only GetAudit readies a plaintext.
LEMMA QuietSilent ==
    ASSUME TypeOK, SlotsOK, KnowsInv, NEW r \in Reqs, QuietStep(r)
    PROVE  \E t : Goto(r, t) /\ Silent(t)
  <1>1. PICK s : s = slot[r]
    OBVIOUS
  <1>2. s \in Slot /\ SlotOK(s) /\ SlotKnows(s)
    BY <1>1 DEF TypeOK, SlotsOK, KnowsInv
  <1>3. ASSUME NEW q \in Requests, Begin(r, q)
        PROVE  \E t : Goto(r, t) /\ Silent(t)
    <2>1. PICK pc : pc = IF EntryCode(q) = "OK" THEN FirstStep(q) ELSE RefusedStep(q)
      OBVIOUS
    <2>2. PICK code : code = EntryCode(q)
      OBVIOUS
    <2>3. PICK t : t = [IdleSlot EXCEPT !.q = q, !.at = now, !.code = code, !.pc = pc]
      OBVIOUS
    <2>4. Goto(r, t)
      BY <1>3, <2>1, <2>2, <2>3 DEF Begin
    <2>5. t.pc = pc /\ t.code = code
      BY <2>3 DEF IdleSlot
    <2>6. q.op \in Ops
      BY RequestFields
    <2>7. code = "OK" => pc # "done"
      BY <2>1, <2>2, <2>6 DEF FirstStep, Ops, WriteOps
    <2> QED
      BY <2>4, <2>5, <2>7 DEF Silent
  <1>4. ASSUME NEW q \in Requests, Reject(r, q)
        PROVE  \E t : Goto(r, t) /\ Silent(t)
    <2>1. PICK code : Goto(r, [IdleSlot EXCEPT !.q = q, !.at = now, !.code = code,
                                               !.pc = "fail"])
      BY <1>4 DEF Reject
    <2>2. PICK t : t = [IdleSlot EXCEPT !.q = q, !.at = now, !.code = code, !.pc = "fail"]
      OBVIOUS
    <2>3. t.pc = "fail"
      BY <2>2 DEF IdleSlot
    <2> QED
      BY <2>1, <2>2, <2>3 DEF Silent
  <1>5. CASE ReadRow(r)
    <2>1. CASE Goto(r, Failed(s, "NOT_FOUND", NoMetadata))
      BY <2>1, FailedSilent
    <2>2. CASE ~ Goto(r, Failed(s, "NOT_FOUND", NoMetadata))
      <3>1. PICK next : next = IF s.pc = "get_row" THEN "get_tags" ELSE "update_tags"
        OBVIOUS
      <3>2. PICK v, d, p, L : Goto(r, [s EXCEPT !.pc = next, !.ver = v, !.state = d,
                                               !.payload = p, !.own = L])
        BY <1>1, <1>5, <2>2, <3>1 DEF ReadRow
      <3>3. PICK t : t = [s EXCEPT !.pc = next, !.ver = v, !.state = d,
                                   !.payload = p, !.own = L]
        OBVIOUS
      <3>4. t.pc = next
        BY <1>2, <3>3 DEF Slot
      <3>5. next # "done"
        BY <3>1
      <3> QED
        BY <3>2, <3>3, <3>4, <3>5 DEF Silent
    <2> QED
      BY <2>1, <2>2
  <1>6. CASE GetTags(r)
    <2>1. PICK c : c = s.q.cred
      OBVIOUS
    <2>2. CASE AuthorizeRow(s.q, c) = "OK"
      <3>1. PICK t : t = [s EXCEPT !.pc = "get_audit", !.seen = row[c].labels]
        OBVIOUS
      <3>2. Goto(r, t)
        BY <1>1, <1>6, <2>1, <2>2, <3>1 DEF GetTags
      <3>3. t.pc = "get_audit"
        BY <1>2, <3>1 DEF Slot
      <3> QED
        BY <3>2, <3>3 DEF Silent
    <2>3. CASE AuthorizeRow(s.q, c) # "OK"
      <3>1. Goto(r, Failed(s, AuthorizeRow(s.q, c), MetadataOf(c)))
        BY <1>1, <1>6, <2>1, <2>3 DEF GetTags
      <3> QED
        BY <2>3, <3>1, FailedSilent
    <2> QED
      BY <2>2, <2>3
  <1>7. ASSUME NEW u \in Slot, Goto(r, Planned(u))
        PROVE  \E t : Goto(r, t) /\ Silent(t)
    <2>1. CASE PlanCode(u) = "OK"
      <3>1. PICK t : t = [u EXCEPT !.pc = "update"]
        OBVIOUS
      <3>2. t.pc = "update"
        BY <3>1 DEF Slot
      <3> QED
        BY <1>7, <2>1, <3>1, <3>2 DEF Planned, Silent
    <2>2. CASE PlanCode(u) # "OK"
      <3>1. Goto(r, Failed(u, PlanCode(u), MetadataOf(u.q.cred)))
        BY <1>7, <2>2 DEF Planned
      <3> QED
        BY <2>2, <3>1, FailedSilent
    <2> QED
      BY <2>1, <2>2
  <1>8. CASE UpdateTags(r)
    <2>1. PICK c : c = s.q.cred
      OBVIOUS
    <2>2. PICK u : u = [s EXCEPT !.seen = row[c].labels]
      OBVIOUS
    <2>3. u \in Slot /\ u.q = s.q
      <3>1. c \in Creds
        BY <1>1, <1>2, <1>8, <2>1, SlotCred DEF UpdateTags
      <3>2. row[c].labels \in SUBSET Labels
        BY <3>1 DEF TypeOK, Row
      <3> QED
        BY <1>2, <2>2, <3>2 DEF Slot
    <2>4. \/ AuthorizeRow(s.q, c) # "OK"
             /\ Goto(r, Failed(u, AuthorizeRow(s.q, c), MetadataOf(c)))
          \/ Goto(r, [u EXCEPT !.pc = "update_replay"])
          \/ Goto(r, Planned(u))
      BY <1>1, <1>8, <2>1, <2>2, <2>3 DEF UpdateTags
    <2>5. PICK t : t = [u EXCEPT !.pc = "update_replay"]
      OBVIOUS
    <2>6. t.pc = "update_replay"
      BY <2>3, <2>5 DEF Slot
    <2>7. Silent(t)
      BY <2>6 DEF Silent
    <2> QED
      BY <1>7, <2>3, <2>4, <2>5, <2>7, FailedSilent
  <1>9. CASE UpdateReplayMiss(r)
    BY <1>1, <1>2, <1>7, <1>9 DEF UpdateReplayMiss
  <1>10. CASE Replay(r)
    <2>1. s.pc \in IdemOps \cup { "update_replay" }
      BY <1>1, <1>10 DEF Replay
    <2>2. s.q \in Requests /\ s.pc \in StepsOf(s.q)
      BY <1>2, <2>1 DEF SlotOK, IdemOps
    <2>3. s.q.op # "get"
      BY <2>1, <2>2 DEF StepsOf, IdemOps
    <2>4. PICK c, v : Goto(r, Succeeded(s, c, v))
      BY <1>1, <1>10 DEF Replay
    <2>5. Silent(Succeeded(s, c, v))
      BY <2>3 DEF Silent, Succeeded, IdleSlot
    <2> QED
      BY <2>4, <2>5
  <1>11. CASE Refuse(r)
    <2>1. PICK code \in ErrorCodes : Goto(r, Failed(s, code, TxMetadata(s, code)))
      BY <1>1, <1>11 DEF Refuse
    <2> QED
      BY <2>1, FailedSilent DEF ErrorCodes
  <1>12. CASE EarlyError(r)
    <2>1. PICK code, m : code \in EarlyCodes(s.pc) /\ Goto(r, Failed(s, code, m))
      BY <1>1, <1>12 DEF EarlyError
    <2> QED
      BY <2>1, FailedSilent DEF EarlyCodes
  <1>13. CASE LateError(r)
    <2>1. PICK code \in { "INTERNAL_ERROR", "AUDIT_UNAVAILABLE" } :
            Goto(r, Failed(s, code, TxMetadata(s, code)))
      BY <1>1, <1>13 DEF LateError
    <2> QED
      BY <2>1, FailedSilent
  <1>14. CASE AppendFailure(r)
    <2>1. PICK c, x : Goto(r, [s EXCEPT !.pc = "done", !.cred = c, !.space = x])
      BY <1>1, <1>14 DEF AppendFailure
    <2>2. PICK t : t = [s EXCEPT !.pc = "done", !.cred = c, !.space = x]
      OBVIOUS
    <2>3. t.code = s.code
      BY <1>2, <2>2 DEF Slot
    <2>4. s.code # "OK"
      BY <1>1, <1>2, <1>14 DEF AppendFailure, SlotKnows, NamesSlot
    <2> QED
      BY <2>1, <2>2, <2>3, <2>4 DEF Silent
  <1>15. CASE AppendFailureError(r)
    <2>1. PICK t : t = [s EXCEPT !.pc = "done", !.code = "AUDIT_UNAVAILABLE",
                                 !.cred = NoCred, !.space = NoSpace]
      OBVIOUS
    <2>2. Goto(r, t)
      BY <1>1, <1>15, <2>1 DEF AppendFailureError
    <2>3. t.code # "OK"
      BY <1>2, <2>1 DEF Slot
    <2> QED
      BY <2>2, <2>3 DEF Silent
  <1>16. CASE Return(r)
    BY <1>16 DEF Return, Silent, IdleSlot
  <1> QED
    BY <1>3, <1>4, <1>5, <1>6, <1>8, <1>9, <1>10, <1>11, <1>12, <1>13, <1>14,
       <1>15, <1>16 DEF QuietStep

\* AppendTx counts one event of one credential.
LEMMA AppendCounts ==
    ASSUME TypeOK, NEW x, NEW kind, AppendTx(x, kind), NEW c \in Creds
    PROVE  /\ trail[c]["read"] \in Nat
           /\ kind # "read" \/ x # c => trail'[c]["read"] = trail[c]["read"]
           /\ kind = "read" /\ x = c => trail'[c]["read"] = trail[c]["read"] + 1
  BY DEF TypeOK, AppendTx, Kinds

LEMMA PurgeCounts ==
    ASSUME TypeOK, NEW C, DeleteRows(C), NEW c \in Creds
    PROVE  trail'[c]["read"] = trail[c]["read"]
  <1>1. CASE c \in C
    <2>1. trail'[c] = [trail[c] EXCEPT !["purge"] = @ + 1]
      BY <1>1 DEF DeleteRows
    <2> QED
      BY <2>1 DEF TypeOK, Kinds
  <1>2. CASE c \notin C
    BY <1>2 DEF DeleteRows
  <1> QED
    BY <1>1, <1>2

\* Every plaintext returned, or about to be, has its own committed read event
\* (PlaintextAudited): GetAudit commits the event before the slot can return,
\* and a crash or a failed event drops the plaintext, never the event.
THEOREM PlaintextsAreAudited == Spec => []PlaintextAudited
  <1> DEFINE Audited(c) ==
               delivered[c] + Cardinality(Pending(c)) <= trail[c]["read"]
             AuditInv == \A c \in Creds : Audited(c)
             Inv == TypeOK /\ SlotsOK /\ RowsOK /\ KnowsInv
  <1>1. ASSUME NEW S \in SUBSET Reqs
        PROVE  IsFiniteSet(S) /\ Cardinality(S) \in Nat
    BY ReqsAssumption, FS_Subset, FS_CardinalityType
  <1>2. Init => AuditInv
    <2> SUFFICES ASSUME Init, NEW c \in Creds PROVE Audited(c)
      OBVIOUS
    <2>1. Pending(c) = {}
      BY DEF Init, Pending, Delivering, IdleSlot
    <2>2. Cardinality(Pending(c)) = 0
      BY <2>1, FS_EmptySet
    <2>3. delivered[c] = 0 /\ trail[c]["read"] = 0
      BY DEF Init, Kinds
    <2> QED
      BY <2>2, <2>3
  <1>3. ASSUME Inv, Inv', AuditInv, [Next]_vars, NEW c \in Creds
        PROVE  Audited(c)'
    <2>1. PICK P \in SUBSET Reqs : P = Pending(c)
      BY DEF Pending
    <2>2. PICK Q \in SUBSET Reqs : Q = Pending(c)'
      BY DEF Pending
    <2>3. /\ IsFiniteSet(P) /\ Cardinality(P) \in Nat
          /\ IsFiniteSet(Q) /\ Cardinality(Q) \in Nat
      BY <1>1
    <2>4. /\ delivered[c] \in Nat /\ trail[c]["read"] \in Nat
          /\ delivered'[c] \in Nat /\ trail'[c]["read"] \in Nat
      BY <1>3 DEF TypeOK, Kinds
    <2>5. delivered[c] + Cardinality(P) <= trail[c]["read"]
      BY <1>3, <2>1
    <2>6. SUFFICES delivered'[c] + Cardinality(Q) <= trail'[c]["read"]
      BY <2>2
    <2> HIDE DEF Audited, AuditInv
    <2>7. ASSUME Q \subseteq P, delivered'[c] = delivered[c],
                 trail'[c]["read"] = trail[c]["read"]
          PROVE  delivered'[c] + Cardinality(Q) <= trail'[c]["read"]
      <3>1. Cardinality(Q) <= Cardinality(P)
        BY <2>3, <2>7, FS_Subset
      <3> QED
        BY <2>3, <2>4, <2>5, <2>7, <3>1
    <2>8. ASSUME NEW r \in Reqs, NEW t, Goto(r, t)
          PROVE  /\ \A x \in Reqs : x # r => (x \in Q <=> x \in P)
                 /\ r \in Q <=> Delivering(t, c)
                 /\ r \in P <=> Delivering(slot[r], c)
      <3>1. slot'[r] = t /\ \A x \in Reqs : x # r => slot'[x] = slot[x]
        BY <1>3, <2>8 DEF Goto, TypeOK
      <3> QED
        BY <2>1, <2>2, <3>1 DEF Pending, Delivering
    <2>9. ASSUME NEW r \in Reqs, NEW t, Goto(r, t), Silent(t) PROVE Q = P \ { r }
      <3>1. ~ Delivering(t, c)
        BY <2>9 DEF Silent, Delivering
      <3> QED
        BY <2>8, <2>9, <3>1
    <2>10. ASSUME NEW r \in Reqs, RequestStep(r)
           PROVE  delivered'[c] + Cardinality(Q) <= trail'[c]["read"]
      <3>1. CASE QuietStep(r)
        <4>1. PICK t : Goto(r, t) /\ Silent(t)
          BY <1>3, <3>1, QuietSilent
        <4>2. Q = P \ { r }
          BY <2>9, <4>1
        <4>3. trail'[c]["read"] = trail[c]["read"]
          BY <3>1, QuietTables
        <4>4. CASE Return(r) /\ Delivering(slot[r], c)
          <5>1. delivered'[c] = delivered[c] + 1
            BY <1>3, <4>4 DEF Return, Delivering, TypeOK
          <5>2. r \in P
            BY <2>8, <4>1, <4>4
          <5>3. Cardinality(Q) = Cardinality(P) - 1
            BY <2>3, <4>2, <5>2, FS_RemoveElement
          <5> QED
            BY <2>3, <2>4, <2>5, <4>3, <5>1, <5>3
        <4>5. CASE ~ (Return(r) /\ Delivering(slot[r], c))
          <5>1. delivered'[c] = delivered[c]
            <6>1. CASE Return(r)
              BY <1>3, <4>5, <6>1 DEF Return, Delivering, TypeOK
            <6>2. CASE \E q \in Requests : Begin(r, q) \/ Reject(r, q)
              BY <6>2, Zenon DEF Begin, Reject
            <6>3. CASE ReadRow(r) \/ GetTags(r) \/ UpdateTags(r) \/ UpdateReplayMiss(r)
              BY <6>3 DEF ReadRow, GetTags, UpdateTags, UpdateReplayMiss
            <6>4. CASE \/ Replay(r) \/ Refuse(r) \/ EarlyError(r) \/ LateError(r)
                       \/ AppendFailure(r) \/ AppendFailureError(r)
              BY <6>4 DEF Replay, Refuse, EarlyError, LateError, AppendFailure,
                          AppendFailureError
            <6> QED
              BY <3>1, <6>1, <6>2, <6>3, <6>4 DEF QuietStep
          <5> QED
            BY <2>7, <4>2, <4>3, <5>1
        <4> QED
          BY <4>4, <4>5
      <3>2. CASE GetAudit(r)
        <4>1. PICK t : t = Succeeded(slot[r], slot[r].q.cred, slot[r].ver)
          OBVIOUS
        <4>2. Goto(r, t) /\ AppendTx(slot[r].q.cred, "read") /\ UNCHANGED delivered
          BY <3>2, <4>1 DEF GetAudit
        <4>3. t.cred = slot[r].q.cred
          BY <4>1 DEF Succeeded, IdleSlot
        <4>4. r \notin P
          BY <2>8, <3>2, <4>2 DEF GetAudit, Delivering
        <4>5. CASE slot[r].q.cred = c
          <5>1. trail'[c]["read"] = trail[c]["read"] + 1
            BY <1>3, <4>2, <4>5, AppendCounts
          <5>2. Q \subseteq P \cup { r }
            BY <2>8, <4>2
          <5>3. /\ IsFiniteSet(P \cup { r })
                /\ Cardinality(P \cup { r }) = Cardinality(P) + 1
            BY <2>3, <4>4, FS_AddElement
          <5>4. Cardinality(Q) <= Cardinality(P) + 1
            BY <5>2, <5>3, FS_Subset
          <5> QED
            BY <2>3, <2>4, <2>5, <4>2, <5>1, <5>4
        <4>6. CASE slot[r].q.cred # c
          <5>1. trail'[c]["read"] = trail[c]["read"]
            BY <1>3, <4>2, <4>6, AppendCounts
          <5>2. ~ Delivering(t, c)
            BY <4>3, <4>6 DEF Delivering
          <5>3. Q \subseteq P
            BY <2>8, <4>2, <5>2
          <5> QED
            BY <2>7, <4>2, <5>1, <5>3
        <4> QED
          BY <4>5, <4>6
      <3>3. ASSUME slot[r].pc \in TxSteps, slot[r].pc # "get_audit",
                   NEW x, NEW v, Goto(r, Succeeded(slot[r], x, v)),
                   UNCHANGED delivered, trail'[c]["read"] = trail[c]["read"]
            PROVE  delivered'[c] + Cardinality(Q) <= trail'[c]["read"]
        <4>1. PICK t : t = Succeeded(slot[r], x, v)
          OBVIOUS
        <4>2. t.q = slot[r].q
          BY <4>1 DEF Succeeded, IdleSlot
        <4>3. slot[r].pc \in StepsOf(slot[r].q)
          BY <1>3, <3>3 DEF SlotsOK, SlotOK, TxSteps, WriteOps
        <4>4. t.q.op # "get"
          BY <3>3, <4>2, <4>3 DEF StepsOf, TxSteps, WriteOps
        <4>5. Q = P \ { r }
          BY <2>9, <3>3, <4>1, <4>4 DEF Silent
        <4> QED
          BY <2>7, <3>3, <4>5
      <3>4. ASSUME NEW x \in Creds, Create(r, x)
            PROVE  delivered'[c] + Cardinality(Q) <= trail'[c]["read"]
        <4>1. AppendTx(x, "create")
          BY <3>4 DEF Create
        <4>2. trail'[c]["read"] = trail[c]["read"]
          BY <1>3, <4>1, AppendCounts
        <4> QED
          BY <3>3, <3>4, <4>2 DEF Create, TxSteps, WriteOps
      <3>5. CASE Update(r)
        <4>1. PICK x : x = slot[r].q.cred
          OBVIOUS
        <4>2. AppendTx(x, "update")
          BY <3>5, <4>1 DEF Update
        <4>3. trail'[c]["read"] = trail[c]["read"]
          BY <1>3, <4>2, AppendCounts
        <4> QED
          BY <3>3, <3>5, <4>3 DEF Update, TxSteps, WriteOps
      <3>6. CASE Delete(r)
        <4>1. PICK x : x = slot[r].q.cred
          OBVIOUS
        <4>2. AppendTx(x, "delete")
          BY <3>6, <4>1 DEF Delete
        <4>3. trail'[c]["read"] = trail[c]["read"]
          BY <1>3, <4>2, AppendCounts
        <4> QED
          BY <3>3, <3>6, <4>3 DEF Delete, TxSteps, WriteOps
      <3>7. CASE Restore(r)
        <4>1. PICK x : x = slot[r].q.cred
          OBVIOUS
        <4>2. AppendTx(x, "restore")
          BY <3>7, <4>1 DEF Restore
        <4>3. trail'[c]["read"] = trail[c]["read"]
          BY <1>3, <4>2, AppendCounts
        <4> QED
          BY <3>3, <3>7, <4>3 DEF Restore, TxSteps, WriteOps
      <3>8. CASE Purge(r) \/ PurgeExpired(r)
        <4>1. PICK C : DeleteRows(C)
          BY <3>8 DEF Purge, PurgeExpired
        <4>2. trail'[c]["read"] = trail[c]["read"]
          BY <1>3, <4>1, PurgeCounts
        <4> QED
          BY <3>3, <3>8, <4>2 DEF Purge, PurgeExpired, TxSteps, WriteOps
      <3> QED
        BY <2>10, <3>1, <3>2, <3>4, <3>5, <3>6, <3>7, <3>8, RequestCases
    <2>11. ASSUME UNCHANGED slot PROVE Q \subseteq P
      BY <2>1, <2>2, <2>11 DEF Pending, Delivering
    <2>12. CASE PurgeExpiredMaintenance
      <3>1. PICK C : DeleteRows(C)
        BY <2>12 DEF PurgeExpiredMaintenance
      <3>2. trail'[c]["read"] = trail[c]["read"]
        BY <1>3, <3>1, PurgeCounts
      <3> QED
        BY <2>7, <2>11, <2>12, <3>2 DEF PurgeExpiredMaintenance
    <2>13. CASE MaintStart \/ cleanupExpiredState \/ MaintError \/ Tick \/ UNCHANGED vars
      BY <2>7, <2>11, <2>13 DEF MaintStart, cleanupExpiredState, MaintError, Tick,
                                tables, vars
    <2>14. CASE Crash
      <3>1. \A x \in Reqs : slot'[x].pc # "done"
        BY <2>14 DEF Crash, IdleSlot
      <3>2. Q \subseteq P
        BY <2>2, <3>1 DEF Pending, Delivering
      <3> QED
        BY <2>7, <2>14, <3>2 DEF Crash, tables
    <2> QED
      BY <1>3, <2>10, <2>12, <2>13, <2>14 DEF Next, MaintenanceStep
  <1>4. Inv /\ Inv' /\ AuditInv /\ [Next]_vars => AuditInv'
    BY <1>3
  <1>5. AuditInv => PlaintextAudited
    BY DEF PlaintextAudited, Pending, Delivering
  <1>6. Spec => []Inv
    BY TypeCorrect, KnowsAlways, PTL
  <1> HIDE DEF AuditInv, Inv
  <1> QED
    BY <1>2, <1>4, <1>5, <1>6, PTL DEF Spec
=============================================================================
