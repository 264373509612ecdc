------------------------------- MODULE Limiter -------------------------------
(***************************************************************************)
(* The limiter of requests: token buckets by operation and subject, in two *)
(* generations, with one shared bucket for the subjects beyond MaxSubjects.*)
(* Every call holds one mutex, so each is an operator from a state of the  *)
(* limiter to the next one.  Tokens are counted in units, Token units each.*)
(***************************************************************************)
EXTENDS Integers, FiniteSets, FiniteSetsExt

CONSTANTS
  Operations,
  Subjects,
  Overflow,      \* the key of the shared bucket, beside the subjects
  Capacity,      \* units a bucket of each operation holds
  Refill,        \* units per tick
  Token,         \* units that one request spends
  MaxSubjects,
  GenerationTTL, \* configured length of a generation
  Skew           \* concurrentClockSkew

ASSUME LimiterAssumption ==
  /\ Overflow \notin Subjects /\ IsFiniteSet(Subjects)
  /\ Refill \in [Operations -> Nat \ {0}] /\ Capacity \in [Operations -> Nat]
  /\ \A o \in Operations : Capacity[o] >= Token
  /\ Token \in Nat \ {0} /\ Skew \in Nat \ {0}
  /\ MaxSubjects \in Nat /\ GenerationTTL \in Nat

Keys == Subjects \cup {Overflow}
NoBucket == [tokens |-> -1, last |-> -1]
Fresh == [k \in Keys |-> NoBucket]

CeilDiv(a, b) == (a + b - 1) \div b
naturalRecoveryDuration(o) == CeilDiv(Capacity[o], Refill[o])
TTL(o) == Max({GenerationTTL, naturalRecoveryDuration(o)})

\* now: lastNow; start, gen: of the current generation; -1: not set.
NewLimiter ==
  [o \in Operations |-> [own |-> Fresh, prev |-> Fresh, now |-> -1,
                         start |-> -1, gen |-> 0]]

\* Tokens in a bucket at time t; a subject without one gets a full bucket.
Level(b, o, t) ==
  IF b = NoBucket THEN Capacity[o]
  ELSE Min({Capacity[o], b.tokens + (t - b.last) * Refill[o]})

\* Mutant: the buckets of the generation that ends are dropped at once.
rotateGeneration_NoGrace(s, o, t) ==
  LET elapsed == t - s.start
  IN  IF s.start = -1 THEN [s EXCEPT !.start = t]
      ELSE IF elapsed < TTL(o) THEN s
      ELSE [s EXCEPT !.prev = Fresh, !.own = Fresh, !.gen = @ + 1, !.start = t]

rotateGeneration(s, o, t) ==
  LET elapsed == t - s.start
  IN  IF s.start = -1 THEN [s EXCEPT !.start = t]
      ELSE IF elapsed < TTL(o) THEN s
      ELSE [s EXCEPT !.prev = IF elapsed \div TTL(o) >= 2 THEN Fresh ELSE s.own,
                     !.own = Fresh, !.gen = @ + 1,
                     !.start = t - (elapsed % TTL(o))]

\* Mutant: the bucket is copied, not moved.
subjectBucket_Copies(s, k) ==
  IF s.own[k] = NoBucket /\ s.prev[k] # NoBucket
  THEN [s EXCEPT !.own[k] = s.prev[k]]
  ELSE s

\* A bucket of the previous generation that is used moves to the current one.
subjectBucket(s, k) ==
  IF s.own[k] = NoBucket /\ s.prev[k] # NoBucket
  THEN [s EXCEPT !.own[k] = s.prev[k], !.prev[k] = NoBucket]
  ELSE s

subjectCount_CurrentOnly(s) == Cardinality({k \in Subjects : s.own[k] # NoBucket})

subjectCount(s) ==
  Cardinality({k \in Subjects : s.own[k] # NoBucket})
  + Cardinality({k \in Subjects : s.prev[k] # NoBucket})

\* The bucket that serves subject k: its own, a new one while there is room,
\* or the shared one.
ServingKey(s, k) ==
  IF s.own[k] # NoBucket \/ subjectCount(s) < MaxSubjects THEN k ELSE Overflow

\* Mutant: the wait of the bucket that recovers first.
retryAfter_Shortest(waits) == IF waits = {} THEN 0 ELSE Min(waits)

\* The wait for the last of the buckets that have no token; 0: they all have.
retryAfter(waits) == Max({0} \cup waits)

(***************************************************************************)
(* Reserve.  want maps each operation concerned to its subject: no caller  *)
(* names an operation twice.  A clock behind the last one by less than     *)
(* Skew is taken for the last one; behind by more, the call is refused and *)
(* leaves no trace.  All buckets have a token or none is spent.            *)
(***************************************************************************)
Reserve(L, want, t) ==
  LET ops == DOMAIN want
      late == Max({L[o].now - t : o \in ops})
      at == [o \in ops |-> Max({L[o].now, t})]
      found == [o \in ops |->
                  subjectBucket(rotateGeneration(L[o], o, at[o]), want[o])]
      key == [o \in ops |-> ServingKey(found[o], want[o])]
      state == [o \in ops |->
                  [subjectBucket(found[o], key[o]) EXCEPT !.now = at[o]]]
      level == [o \in ops |-> Level(state[o].own[key[o]], o, at[o])]
      wait == retryAfter({CeilDiv(Token - level[o], Refill[o]) :
                            o \in {p \in ops : level[p] < Token}})
      Spent(o) == [state[o] EXCEPT !.own[key[o]] =
                     [tokens |-> level[o] - Token, last |-> at[o]]]
  IN  IF late >= Skew
      THEN [ok |-> FALSE, skew |-> TRUE, wait |-> late, lim |-> L, items |-> <<>>]
      ELSE [ok |-> wait = 0, skew |-> FALSE, wait |-> wait,
            lim |-> [o \in Operations |->
                       IF o \notin ops THEN L[o]
                       ELSE IF wait = 0 THEN Spent(o) ELSE state[o]],
            items |-> [o \in ops |-> [key |-> key[o], gen |-> state[o].gen]]]

\* Refund: an item of another generation, a clock that went back and a bucket
\* that is gone are passed over.
refundMany(L, items, t) ==
  [o \in Operations |->
     IF \/ o \notin DOMAIN items
        \/ items[o].gen # L[o].gen
        \/ t < L[o].now
        \/ L[o].own[items[o].key] = NoBucket
     THEN L[o]
     ELSE LET k == items[o].key
          IN  [L[o] EXCEPT !.now = t,
                 !.own[k] = [last |-> t,
                             tokens |-> Min({Capacity[o],
                                             Level(@, o, t) + Token})]]]

\* The bound of the table, over both generations.
TablesBounded(L) ==
  \A o \in Operations :
    Cardinality({k \in Subjects : L[o].own[k] # NoBucket})
    + Cardinality({k \in Subjects : L[o].prev[k] # NoBucket}) <= MaxSubjects
==============================================================================
