----------------------------- MODULE LoginGuard -----------------------------
(***************************************************************************)
(* How the HTTP API bounds guessing.  login/begin ("password"),            *)
(* login/complete ("totp") and auth/reverify ("reverify") reserve a token  *)
(* of their source and one of their principal before the guess is judged,  *)
(* keep them when the guess was wrong and give them back otherwise; a      *)
(* wrong guess passes the failure gate of its kind, which decides what is  *)
(* written to the audit trail.  Requests run concurrently and sample the   *)
(* clock before they take a lock: a call sees a time up to Lag old.  Audit *)
(* rows of right guesses and of failures of the service are left out.      *)
(***************************************************************************)
EXTENDS Limiter, FailureGate

CONSTANTS
  Reqs,        \* slots of concurrent requests
  Attempts,    \* [kind, source, principal]: what a request may try
  WorkSlots,   \* capacity of passwordWork
  Second,      \* ticks of the clock in a second, the unit of Retry-After
  Lag, MaxTime, MaxAttempts

VARIABLES
  lim, gate, now,
  req,         \* slot -> pc, attempt, reservation, resolved, aggregate, record
  attempts,    \* number of requests so far
  ideal,       \* one bucket per operation and key, never forgotten: Overflow
               \* has one of its own, beside those of the subjects
  written,     \* failures in the audit trail, one by one or in a count
  lost,        \* failures the trail misses: their write failed, or their time
               \* preceded the window of the gate
  wrong,       \* wrong guesses, and reverifications refused as too frequent
  rows         \* audit rows each gate allowed since its window began

vars == <<lim, gate, now, req, attempts, ideal, written, lost, wrong, rows>>
ledger == <<written, lost, wrong, rows>>

Kinds == {"password", "totp", "reverify"}

Free == [pc |-> "free", att |-> CHOOSE a \in Attempts : TRUE, items |-> <<>>,
         keep |-> FALSE, carried |-> 0, record |-> FALSE]

Wanted(a) == IF a.kind # "reverify"
             THEN [LoginSource |-> a.source, AuthFailure |-> a.principal]
             ELSE [ReverifySource |-> a.source, ReverifyPrincipal |-> a.principal]

\* A server has finitely many requests in progress.
ASSUME AttemptsAssumption ==
  /\ IsFiniteSet(Reqs) /\ Second \in Nat \ {0}
  /\ \A a \in Attempts :
       a.kind \in Kinds /\ a.source \in Subjects /\ a.principal \in Subjects
  /\ {"LoginSource", "AuthFailure", "ReverifySource", "ReverifyPrincipal"}
       \subseteq Operations

Init ==
  /\ lim = NewLimiter /\ gate = [k \in Kinds |-> NoWindow] /\ now = 0
  /\ req = [r \in Reqs |-> Free] /\ attempts = 0
  /\ ideal = [o \in Operations |-> [k \in Keys |-> NoBucket]]
  /\ written = 0 /\ lost = 0 /\ wrong = 0 /\ rows = [k \in Kinds |-> 0]

Goto(r, pc) == req' = [req EXCEPT ![r].pc = pc]
End(r) == req' = [req EXCEPT ![r] = Free]
Sampled == {t \in 0..now : now - t <= Lag}

\* The bookkeeping of the ideal buckets: spend a token at time t, return one.
Charge(b, o, t) == [tokens |-> Level(b, o, t) - Token, last |-> t]
Return(b, o) == [b EXCEPT !.tokens = Min({Capacity[o], @ + Token})]

(***************************************************************************)
(* reserveLoginFailure, or the part of rateLimitMiddleware for reverify.   *)
(* The ideal bucket charged is the one of the key that served the subject: *)
(* its own, or Overflow when the table had no room for it.                 *)
(***************************************************************************)
ReserveFor(r, a, t) ==
  /\ req[r].pc = "free" /\ attempts < MaxAttempts
  /\ attempts' = attempts + 1
  /\ \E d \in {Reserve(lim, Wanted(a), t)} :
       /\ lim' = d.lim
       /\ \/ /\ d.ok
             /\ req' = [req EXCEPT ![r] =
                          [Free EXCEPT !.att = a, !.items = d.items,
                             !.pc = IF a.kind = "password" THEN "work" ELSE "judge"]]
             /\ ideal' = [o \in Operations |-> [k \in Keys |->
                  IF o \in DOMAIN d.items /\ d.items[o].key = k
                  THEN Charge(ideal[o][k], o, d.lim[o].now) ELSE ideal[o][k]]]
          \/ /\ ~d.ok /\ a.kind # "reverify" /\ UNCHANGED <<req, ideal>>
          \/ /\ ~d.ok /\ a.kind = "reverify" /\ UNCHANGED ideal
             /\ req' = [req EXCEPT ![r] =
                          [Free EXCEPT !.att = a, !.pc = "suppress"]]
  /\ UNCHANGED <<gate, now, ledger>>

\* acquirePasswordWork: a slot, or 429 after a wait.
Working == {r \in Reqs : req[r].pc = "judging"}
AcquireWork(r) ==
  /\ req[r].pc = "work"
  /\ \/ Cardinality(Working) < WorkSlots /\ Goto(r, "judging")
     \/ Cardinality(Working) = WorkSlots /\ Goto(r, "close")
  /\ UNCHANGED <<lim, gate, now, attempts, ideal, ledger>>

\* BeginLogin, CompleteLogin or VerifyRecentTOTPAudited: the guess is wrong or
\* right, or the service fails; only a wrong guess commits the reservation.
Judge(r, verdict) ==
  /\ req[r].pc \in {"judge", "judging"}
  /\ req' = [req EXCEPT ![r].pc = IF verdict = "wrong" THEN "gate" ELSE "close",
                        ![r].keep = verdict = "wrong"]
  /\ wrong' = IF verdict = "wrong" THEN wrong + 1 ELSE wrong
  /\ UNCHANGED <<lim, gate, now, attempts, ideal, written, lost, rows>>

\* The deferred Close refunds what was not committed.
Refunded(r, t) ==
  IF req[r].keep THEN lim ELSE refundMany(lim, req[r].items, t)
Close(r, t) ==
  /\ req[r].pc = "close" /\ End(r) /\ lim' = Refunded(r, t)
  /\ ideal' = [o \in Operations |-> [k \in Keys |->
       IF o \in DOMAIN req[r].items /\ req[r].items[o].key = k /\ ~req[r].keep
       THEN Return(ideal[o][k], o) ELSE ideal[o][k]]]
  /\ UNCHANGED <<gate, now, attempts, ledger>>

(***************************************************************************)
(* rejectAnonymousAuthentication and its sibling for reverify: the gate,   *)
(* then the count of the last window, then the failure itself.             *)
(***************************************************************************)
GateKey(a) == IF a.kind = "reverify" THEN a.principal ELSE a.source
Observe(r, t) ==
  LET kind == req[r].att.kind
      force == req[r].pc = "suppress"
  IN  /\ req[r].pc \in {"gate", "suppress"}
      /\ \E o \in {observeMode(gate[kind], GateKey(req[r].att), t, force)} :
           /\ gate' = [gate EXCEPT ![kind] = o.gate]
           /\ req' = [req EXCEPT ![r].pc = "aggregate", ![r].carried = o.carried,
                                 ![r].record = o.record]
           /\ rows' = [rows EXCEPT ![kind] =
                         (IF o.gate.start = gate[kind].start THEN @ ELSE 0)
                         + (IF o.record THEN 1 ELSE 0)
                         + (IF o.carried > 0 THEN 1 ELSE 0)]
           /\ lost' = IF o.early THEN lost + 1 ELSE lost
      /\ wrong' = IF force THEN wrong + 1 ELSE wrong
      /\ UNCHANGED <<lim, now, attempts, ideal, written>>

\* A write that fails ends the request with STORAGE_UNAVAILABLE.
WriteAggregate(r, ok) ==
  LET owed == req[r].carried + IF req[r].record THEN 1 ELSE 0
  IN  /\ req[r].pc = "aggregate" /\ (req[r].carried = 0 => ok)
      /\ written' = IF ok THEN written + req[r].carried ELSE written
      /\ lost' = IF ok THEN lost ELSE lost + owed
      /\ req' = [req EXCEPT ![r].carried = 0, ![r].record = ok /\ @,
                   ![r].pc = IF ok /\ req[r].record THEN "individual" ELSE "close"]
      /\ UNCHANGED <<lim, gate, now, attempts, ideal, wrong, rows>>
WriteIndividual(r, ok) ==
  /\ req[r].pc = "individual"
  /\ written' = IF ok THEN written + 1 ELSE written
  /\ lost' = IF ok THEN lost ELSE lost + 1
  /\ req' = [req EXCEPT ![r].pc = "close", ![r].record = FALSE]
  /\ UNCHANGED <<lim, gate, now, attempts, ideal, wrong, rows>>

Tick ==
  /\ now < MaxTime /\ now' = now + 1
  /\ UNCHANGED <<lim, gate, req, attempts, ideal, ledger>>

Next ==
  \/ \E r \in Reqs, t \in Sampled :
       \/ \E a \in Attempts : ReserveFor(r, a, t)
       \/ Close(r, t) \/ Observe(r, t)
  \/ \E r \in Reqs :
       \/ AcquireWork(r)
       \/ \E verdict \in {"wrong", "other"} : Judge(r, verdict)
       \/ \E ok \in BOOLEAN : WriteAggregate(r, ok) \/ WriteIndividual(r, ok)
  \/ Tick

Spec == Init /\ [][Next]_vars

(***************************************************************************)
(* Properties.                                                             *)
(***************************************************************************)

\* The limiter forgets buckets between generations, moves them, refunds late and
\* keeps to its bound of subjects in both generations together; still each
\* bucket, a subject's own and the shared one of an operation, never admits what
\* a bucket that is never forgotten, and keeps the tokens of wrong guesses, would
\* refuse.  So what a subject is admitted is covered by one such bucket of its
\* own and the operation's shared one; not by its own alone, for a subject that
\* spent from the shared bucket may get a full one of its own after a rotation.
NeverMoreThanIdeal ==
  /\ TablesBounded(lim)
  /\ \A o \in Operations, k \in Keys :
       ideal[o][k] = NoBucket \/ ideal[o][k].tokens >= 0

\* Mutant: the conversion to seconds drops the fraction.
RetryAfterHeader_Truncated(wait) == Max({1, wait \div Second})

\* Retry-After, in seconds: the wait rounded to the nearest second, halves up,
\* and at least one.
RetryAfterHeader(wait) == Max({1, (2 * wait + Second) \div (2 * Second)})

\* Retry-After is honest up to the rounding: whoever is refused for want of a
\* token and comes back after the seconds it was told and what rounding down may
\* have dropped, less than half a second, is admitted if nobody else spent
\* meanwhile, although the generations may have rotated and its bucket changed.
Dropped == (Second - 1) \div 2
Patience(wait) == RetryAfterHeader(wait) * Second + Dropped
ComesBack(L, a, t) ==
  \A d \in {Reserve(L, Wanted(a), t)} :
    ~d.ok /\ ~d.skew => Reserve(d.lim, Wanted(a), t + Patience(d.wait)).ok
Refusal == attempts' # attempts /\ ideal' = ideal
RetryAfterHonest == [][Refusal => \A a \in Attempts : ComesBack(lim, a, now)]_vars

\* Every failure is in the audit trail, in the count the gate will hand over or
\* in the hands of a request, unless its write failed or its clock was behind
\* the window, and none is counted twice; still the trail grows by at most
\* DurableLimit rows within one window, the row for the window before included.
InHand(r) == req[r].carried + (IF req[r].record THEN 1 ELSE 0)
             + (IF req[r].pc = "gate" THEN 1 ELSE 0)
Withheld(k) == gate[k].suppressed
FailuresAccounted ==
  /\ wrong = written + lost + MapThenSumSet(Withheld, Kinds)
               + MapThenSumSet(InHand, Reqs)
  /\ \A k \in Kinds : rows[k] <= DurableLimit
=============================================================================
