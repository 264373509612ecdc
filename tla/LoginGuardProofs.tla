-------------------------- MODULE LoginGuardProofs --------------------------
(***************************************************************************)
(* Proofs about the guard of the logins, for any number of concurrent      *)
(* requests, subjects and attempts, any clock and any limits.              *)
(***************************************************************************)
EXTENDS LoginGuard, FiniteSetTheorems, WellFoundedInduction, TLAPS

-----------------------------------------------------------------------------
(***************************************************************************)
(* Sums over a finite set.  The fold takes the elements in an order of its *)
(* own, the same for any two functions on the set: what one value changes, *)
(* the sum changes.  Induction is by the least size of a counterexample.   *)
(***************************************************************************)

LEMMA LeastOf ==
    ASSUME NEW T \in SUBSET Nat, T # {}
    PROVE  \E n \in T : \A m \in T : n <= m
  <1> DEFINE R == {ss \in Nat \X Nat : ss[1] < ss[2]}
  <1>1. IsWellFoundedOn(R, Nat)
    BY NatLessThanWellFounded, Zenon DEF OpToRel
  <1> HIDE DEF R
  <1>2. \E x \in T : \A y \in T : ~ (<<y, x>> \in R)
    BY <1>1, WFMin
  <1>3. \A x, y \in Nat : x <= y \/ <<y, x>> \in R
    BY DEF R
  <1> QED BY <1>2, <1>3

\* The element that the fold takes next.
Pick(s) == CHOOSE x \in s : TRUE

SumAt(g, f, s) == IF s = {} THEN 0 ELSE f[Pick(s)] + g[s \ {Pick(s)}]
SumFcn(g, f, S) == g = [s \in SUBSET S |-> SumAt(g, f, s)]
Total(f, S) == CHOOSE n : \E g : SumFcn(g, f, S) /\ n = g[S]

LEMMA Smaller ==
    ASSUME NEW S, IsFiniteSet(S), NEW s \in SUBSET S
    PROVE  /\ IsFiniteSet(s) /\ Cardinality(s) \in Nat
           /\ Cardinality(s) <= Cardinality(S)
           /\ Cardinality(s) = 0 <=> s = {}
           /\ s # {} => /\ Pick(s) \in s /\ s \ {Pick(s)} \in SUBSET S
                        /\ Cardinality(s \ {Pick(s)}) = Cardinality(s) - 1
  <1>1. IsFiniteSet(s) /\ Cardinality(s) \in Nat /\ Cardinality(s) <= Cardinality(S)
    BY FS_Subset, FS_CardinalityType
  <1>2. Cardinality(s) = 0 <=> s = {}
    BY <1>1, FS_EmptySet
  <1>3. ASSUME s # {} PROVE Pick(s) \in s
    BY <1>3, Zenon DEF Pick
  <1>4. ASSUME s # {} PROVE Cardinality(s \ {Pick(s)}) = Cardinality(s) - 1
    BY <1>1, <1>3, <1>4, FS_RemoveElement
  <1> QED BY <1>1, <1>2, <1>3, <1>4

LEMMA SumExists ==
    ASSUME NEW S, IsFiniteSet(S), NEW f \in [S -> Int]
    PROVE  \E g \in [SUBSET S -> Int] : SumFcn(g, f, S)
  <1> DEFINE Upto(g, n) == \A s \in SUBSET S : Cardinality(s) <= n => g[s] = SumAt(g, f, s)
             T == {n \in Nat : ~ \E g \in [SUBSET S -> Int] : Upto(g, n)}
  <1>1. T = {}
    <2>1. SUFFICES ASSUME T # {} PROVE FALSE
      OBVIOUS
    <2>2. PICK n \in T : \A m \in T : n <= m
      <3>1. T \in SUBSET Nat
        OBVIOUS
      <3> HIDE DEF T
      <3> QED BY <2>1, <3>1, LeastOf
    <2>3. n \in Nat /\ ~ \E g \in [SUBSET S -> Int] : Upto(g, n)
      OBVIOUS
    <2>4. CASE n = 0
      <3> DEFINE g == [s \in SUBSET S |-> 0]
      <3>1. g \in [SUBSET S -> Int]
        OBVIOUS
      <3>2. Upto(g, n)
        <4>1. SUFFICES ASSUME NEW s \in SUBSET S, Cardinality(s) <= 0
                       PROVE  g[s] = SumAt(g, f, s)
          BY <2>4
        <4>2. Cardinality(s) \in Nat /\ (Cardinality(s) = 0 => s = {})
          BY Smaller
        <4>3. s = {}
          BY <4>1, <4>2
        <4> QED BY <4>3 DEF SumAt
      <3> HIDE DEF g
      <3> QED BY <2>3, <3>1, <3>2
    <2>5. CASE n # 0
      <3>1. PICK k \in Nat : k = n - 1
        BY <2>3, <2>5
      <3>2. k \notin T
        <4>1. ~(n <= k)
          BY <2>3, <3>1
        <4> HIDE DEF T
        <4> QED BY <2>2, <4>1
      <3>3. PICK g \in [SUBSET S -> Int] : Upto(g, k)
        BY <3>2
      <3> DEFINE h == [s \in SUBSET S |->
                         IF Cardinality(s) <= k THEN g[s] ELSE SumAt(g, f, s)]
      <3>4. h \in [SUBSET S -> Int]
        <4>1. ASSUME NEW s \in SUBSET S PROVE SumAt(g, f, s) \in Int
          <5>1. CASE s = {}
            BY <5>1 DEF SumAt
          <5>2. CASE s # {}
            <6>0. Pick(s) \in S /\ s \ {Pick(s)} \in SUBSET S
              BY <5>2, Smaller
            <6>1. f[Pick(s)] \in Int /\ g[s \ {Pick(s)}] \in Int
              BY <6>0
            <6> QED BY <5>2, <6>1 DEF SumAt
          <5> QED BY <5>1, <5>2
        <4> QED BY <4>1
      <3>5. Upto(h, n)
        <4>1. SUFFICES ASSUME NEW s \in SUBSET S, Cardinality(s) <= n
                       PROVE  h[s] = SumAt(h, f, s)
          OBVIOUS
        <4>2. CASE s = {}
          <5>1. Cardinality(s) <= k
            BY <4>2, FS_EmptySet
          <5>2. h[s] = g[s] /\ g[s] = SumAt(g, f, s)
            BY <3>3, <5>1
          <5> QED BY <4>2, <5>2 DEF SumAt
        <4>3. CASE s # {}
          <5>1. PICK t \in SUBSET S : t = s \ {Pick(s)}
            BY <4>3, Smaller
          <5>2. Cardinality(s) \in Nat /\ Cardinality(t) = Cardinality(s) - 1
            BY <4>3, <5>1, Smaller
          <5>3. Cardinality(t) <= k
            BY <2>3, <3>1, <4>1, <5>2
          <5>4. h[t] = g[t]
            BY <5>3
          <5>5. h[s] = SumAt(g, f, s)
            BY <3>3
          <5> HIDE DEF h
          <5>6. SumAt(g, f, s) = f[Pick(s)] + g[t] /\ SumAt(h, f, s) = f[Pick(s)] + h[t]
            BY <4>3, <5>1 DEF SumAt
          <5> QED BY <5>4, <5>5, <5>6
        <4> QED BY <4>2, <4>3
      <3> HIDE DEF h
      <3> QED BY <2>3, <3>4, <3>5
    <2> QED BY <2>4, <2>5
  <1>2. Cardinality(S) \in Nat
    BY FS_CardinalityType
  <1>3. PICK g \in [SUBSET S -> Int] : Upto(g, Cardinality(S))
    BY <1>1, <1>2
  <1>4. \A s \in SUBSET S : g[s] = SumAt(g, f, s)
    BY <1>3, Smaller
  <1>5. g = [s \in SUBSET S |-> g[s]]
    OBVIOUS
  <1>6. SumFcn(g, f, S)
    BY <1>4, <1>5 DEF SumFcn
  <1> QED BY <1>6

\* Two functions on S that agree but at r.
AgreeBut(r, e, f, S) == \A x \in S \ {r} : e[x] = f[x]

LEMMA SumsDiffer ==
    ASSUME NEW S, IsFiniteSet(S), NEW f \in [S -> Int], NEW e \in [S -> Int],
           NEW r \in S, AgreeBut(r, e, f, S),
           NEW g \in [SUBSET S -> Int], SumFcn(g, f, S),
           NEW h, SumFcn(h, e, S)
    PROVE  h[S] = g[S] - f[r] + e[r]
  <1> DEFINE Off(s) == IF r \in s THEN e[r] - f[r] ELSE 0
             T == {n \in Nat : \E s \in SUBSET S : Cardinality(s) = n /\ h[s] # g[s] + Off(s)}
  <1>1. \A s \in SUBSET S : g[s] = SumAt(g, f, s) /\ h[s] = SumAt(h, e, s)
    BY Zenon DEF SumFcn
  <1>2. T = {}
    <2>1. SUFFICES ASSUME T # {} PROVE FALSE
      OBVIOUS
    <2>2. PICK n \in T : \A m \in T : n <= m
      <3>1. T \in SUBSET Nat
        OBVIOUS
      <3> HIDE DEF T
      <3> QED BY <2>1, <3>1, LeastOf
    <2>3. PICK s \in SUBSET S : Cardinality(s) = n /\ h[s] # g[s] + Off(s)
      OBVIOUS
    <2>4. CASE s = {}
      <3>1. g[s] = 0 /\ h[s] = 0
        BY <1>1, <2>4 DEF SumAt
      <3> QED BY <2>3, <2>4, <3>1
    <2>5. CASE s # {}
      <3>1. PICK x \in S : x = Pick(s) /\ x \in s
        BY <2>5, Smaller
      <3>2. PICK t \in SUBSET S : t = s \ {x}
        OBVIOUS
      <3>3. Cardinality(t) \in Nat /\ Cardinality(t) < n /\ n \in Nat
        BY <2>3, <2>5, <3>1, <3>2, Smaller
      <3>4. Cardinality(t) \notin T
        BY <2>2, <3>3
      <3>5. h[t] = g[t] + Off(t)
        BY <3>3, <3>4
      <3>6. g[s] = f[x] + g[t] /\ h[s] = e[x] + h[t]
        BY <1>1, <2>5, <3>1, <3>2 DEF SumAt
      <3>7. f[x] \in Int /\ e[x] \in Int /\ f[r] \in Int /\ e[r] \in Int /\ g[t] \in Int
        OBVIOUS
      <3>8. CASE x = r
        <4>1. Off(t) = 0 /\ Off(s) = e[r] - f[r]
          BY <3>1, <3>2, <3>8
        <4> HIDE DEF Off, T
        <4>2. h[s] = g[s] + Off(s)
          BY <3>5, <3>6, <3>7, <3>8, <4>1
        <4> QED BY <2>3, <4>2
      <3>9. CASE x # r
        <4>1. Off(t) = Off(s) /\ e[x] = f[x] /\ Off(s) \in Int
          BY <3>1, <3>2, <3>7, <3>9 DEF AgreeBut
        <4> HIDE DEF Off, T
        <4>2. h[s] = g[s] + Off(s)
          BY <3>5, <3>6, <3>7, <4>1
        <4> QED BY <2>3, <4>2
      <3> QED BY <3>8, <3>9
    <2> QED BY <2>4, <2>5
  <1>3. Cardinality(S) \in Nat /\ S \in SUBSET S
    BY FS_CardinalityType
  <1>4. h[S] = g[S] + Off(S)
    BY <1>2, <1>3
  <1> QED BY <1>4

LEMMA SumsAgree ==
    ASSUME NEW S, IsFiniteSet(S), NEW f \in [S -> Int],
           NEW g \in [SUBSET S -> Int], SumFcn(g, f, S), NEW h, SumFcn(h, f, S)
    PROVE  h[S] = g[S]
  <1>1. CASE S = {}
    <2>1. g[S] = SumAt(g, f, S) /\ h[S] = SumAt(h, f, S)
      BY Zenon DEF SumFcn
    <2> QED BY <1>1, <2>1 DEF SumAt
  <1>2. CASE S # {}
    <2>1. PICK r \in S : TRUE
      BY <1>2
    <2>2. h[S] = g[S] - f[r] + f[r]
      BY <2>1, SumsDiffer DEF AgreeBut
    <2>3. g[S] \in Int /\ f[r] \in Int
      OBVIOUS
    <2> QED BY <2>2, <2>3
  <1> QED BY <1>1, <1>2

LEMMA TotalIs ==
    ASSUME NEW S, IsFiniteSet(S), NEW f \in [S -> Int], NEW h, SumFcn(h, f, S)
    PROVE  h[S] = Total(f, S) /\ Total(f, S) \in Int
  <1>1. PICK g \in [SUBSET S -> Int] : SumFcn(g, f, S)
    BY SumExists
  <1>2. \A k : SumFcn(k, f, S) => k[S] = g[S]
    BY <1>1, SumsAgree
  <1>3. \E k : SumFcn(k, f, S) /\ g[S] = k[S]
    BY <1>1
  <1>4. Total(f, S) = g[S]
    BY <1>2, <1>3, Zenon DEF Total
  <1>5. g[S] \in Int
    OBVIOUS
  <1> QED BY <1>2, <1>4, <1>5

\* What one value changes, the sum changes.
LEMMA TotalMoves ==
    ASSUME NEW S, IsFiniteSet(S), NEW f \in [S -> Int], NEW e \in [S -> Int],
           NEW r \in S, AgreeBut(r, e, f, S)
    PROVE  Total(e, S) = Total(f, S) - f[r] + e[r]
  <1>1. PICK g \in [SUBSET S -> Int] : SumFcn(g, f, S)
    BY SumExists
  <1>2. PICK h \in [SUBSET S -> Int] : SumFcn(h, e, S)
    BY SumExists
  <1>3. h[S] = g[S] - f[r] + e[r]
    BY <1>1, <1>2, SumsDiffer
  <1>4. g[S] = Total(f, S) /\ h[S] = Total(e, S)
    BY <1>1, <1>2, TotalIs
  <1> QED BY <1>3, <1>4

LEMMA TotalType ==
    ASSUME NEW S, IsFiniteSet(S), NEW f \in [S -> Int]
    PROVE  Total(f, S) \in Int
  BY SumExists, TotalIs

LEMMA TotalOfNothing ==
    ASSUME NEW S, IsFiniteSet(S), NEW f \in [S -> Int], \A x \in S : f[x] = 0
    PROVE  Total(f, S) = 0
  <1> DEFINE g == [s \in SUBSET S |-> 0]
  <1>1. ASSUME NEW s \in SUBSET S PROVE g[s] = SumAt(g, f, s)
    <2>1. CASE s = {}
      BY <2>1 DEF SumAt
    <2>2. CASE s # {}
      <3>1. Pick(s) \in S /\ s \ {Pick(s)} \in SUBSET S
        BY <2>2, Smaller
      <3> QED BY <2>2, <3>1 DEF SumAt
    <2> QED BY <2>1, <2>2
  <1>2. g = [s \in SUBSET S |-> SumAt(g, f, s)]
    <2>1. [s \in SUBSET S |-> SumAt(g, f, s)] = [s \in SUBSET S |-> 0]
      BY <1>1
    <2> QED BY <2>1, Zenon
  <1>3. g[S] = 0
    OBVIOUS
  <1> HIDE DEF g
  <1>4. SumFcn(g, f, S)
    BY <1>2, Zenon DEF SumFcn
  <1> QED BY <1>3, <1>4, TotalIs

\* The sums of FailuresAccounted.
Held == [r \in Reqs |-> InHand(r)]
Kept == [k \in Kinds |-> Withheld(k)]

LEMMA HeldTotal ==
    ASSUME IsFiniteSet(Reqs), Held \in [Reqs -> Int]
    PROVE  MapThenSumSet(InHand, Reqs) = Total(Held, Reqs)
  <1> DEFINE Is(h) == h = [s \in SUBSET Reqs |-> IF s = {} THEN 0
                ELSE InHand(CHOOSE x \in s : TRUE) + h[s \ {CHOOSE x \in s : TRUE}]]
  <1>1. ASSUME NEW h PROVE Is(h) <=> SumFcn(h, Held, Reqs)
    <2>1. ASSUME NEW s \in SUBSET Reqs
          PROVE  SumAt(h, Held, s) = IF s = {} THEN 0
                   ELSE InHand(CHOOSE x \in s : TRUE) + h[s \ {CHOOSE x \in s : TRUE}]
      <3>1. CASE s = {}
        BY <3>1 DEF SumAt
      <3>2. CASE s # {}
        <4>1. Pick(s) \in Reqs /\ Pick(s) = CHOOSE x \in s : TRUE
          BY <3>2, Smaller, Zenon DEF Pick
        <4>2. Held[Pick(s)] = InHand(Pick(s))
          BY <4>1, Zenon DEF Held
        <4>3. SumAt(h, Held, s) = Held[Pick(s)] + h[s \ {Pick(s)}]
          BY <3>2, Zenon DEF SumAt
        <4> QED BY <3>2, <4>1, <4>2, <4>3, Zenon
      <3> QED BY <3>1, <3>2
    <2>2. [s \in SUBSET Reqs |-> SumAt(h, Held, s)]
            = [s \in SUBSET Reqs |-> IF s = {} THEN 0
                 ELSE InHand(CHOOSE x \in s : TRUE) + h[s \ {CHOOSE x \in s : TRUE}]]
      BY <2>1, Zenon
    <2> QED BY <2>2, Zenon DEF SumFcn
  <1>2. PICK g \in [SUBSET Reqs -> Int] : SumFcn(g, Held, Reqs)
    BY SumExists
  <1> HIDE DEF Is
  <1>3. \E h : Is(h)
    BY <1>1, <1>2
  <1>4. \A h : Is(h) => h[Reqs] = Total(Held, Reqs)
    BY <1>1, TotalIs, Zenon
  <1> QED BY <1>3, <1>4, Zenon DEF Is, MapThenSumSet, MapThenFoldSet

LEMMA KeptTotal ==
    ASSUME IsFiniteSet(Kinds), Kept \in [Kinds -> Int]
    PROVE  MapThenSumSet(Withheld, Kinds) = Total(Kept, Kinds)
  <1> DEFINE Is(h) == h = [s \in SUBSET Kinds |-> IF s = {} THEN 0
                ELSE Withheld(CHOOSE x \in s : TRUE) + h[s \ {CHOOSE x \in s : TRUE}]]
  <1>1. ASSUME NEW h PROVE Is(h) <=> SumFcn(h, Kept, Kinds)
    <2>1. ASSUME NEW s \in SUBSET Kinds
          PROVE  SumAt(h, Kept, s) = IF s = {} THEN 0
                   ELSE Withheld(CHOOSE x \in s : TRUE) + h[s \ {CHOOSE x \in s : TRUE}]
      <3>1. CASE s = {}
        BY <3>1 DEF SumAt
      <3>2. CASE s # {}
        <4>1. Pick(s) \in Kinds /\ Pick(s) = CHOOSE x \in s : TRUE
          BY <3>2, Smaller, Zenon DEF Pick
        <4>2. Kept[Pick(s)] = Withheld(Pick(s))
          BY <4>1, Zenon DEF Kept
        <4>3. SumAt(h, Kept, s) = Kept[Pick(s)] + h[s \ {Pick(s)}]
          BY <3>2, Zenon DEF SumAt
        <4> QED BY <3>2, <4>1, <4>2, <4>3, Zenon
      <3> QED BY <3>1, <3>2
    <2>2. [s \in SUBSET Kinds |-> SumAt(h, Kept, s)]
            = [s \in SUBSET Kinds |-> IF s = {} THEN 0
                 ELSE Withheld(CHOOSE x \in s : TRUE) + h[s \ {CHOOSE x \in s : TRUE}]]
      BY <2>1, Zenon
    <2> QED BY <2>2, Zenon DEF SumFcn
  <1>2. PICK g \in [SUBSET Kinds -> Int] : SumFcn(g, Kept, Kinds)
    BY SumExists
  <1> HIDE DEF Is
  <1>3. \E h : Is(h)
    BY <1>1, <1>2
  <1>4. \A h : Is(h) => h[Kinds] = Total(Kept, Kinds)
    BY <1>1, TotalIs, Zenon
  <1> QED BY <1>3, <1>4, Zenon DEF Is, MapThenSumSet, MapThenFoldSet

-----------------------------------------------------------------------------
(***************************************************************************)
(* The account of the failures.                                            *)
(***************************************************************************)

\* A gate counts no more rows than its window has; before the first failure it
\* counts nothing.
GateOK(g) ==
    /\ g = [start |-> g.start, entries |-> g.entries, rows |-> g.rows,
            suppressed |-> g.suppressed]
    /\ g.start \in Int /\ g.start >= -1
    /\ g.rows \in Nat /\ g.rows <= DurableLimit /\ g.suppressed \in Nat
    /\ g.start = -1 => g.rows = 0 /\ g.suppressed = 0

Pcs == {"free", "work", "judging", "judge", "gate", "suppress", "aggregate",
        "individual", "close"}

\* A request holds a count only between the gate and the trail.
ReqOK(x) ==
    /\ x = [pc |-> x.pc, att |-> x.att, items |-> x.items, keep |-> x.keep,
            carried |-> x.carried, record |-> x.record]
    /\ x.pc \in Pcs /\ x.carried \in Nat /\ x.record \in BOOLEAN /\ x.keep \in BOOLEAN
    /\ x.pc # "free" => x.att \in Attempts
    /\ x.pc # "aggregate" => x.carried = 0 /\ (x.record <=> x.pc = "individual")

\* What a request with x at hand owes the trail.
Owes(x) == x.carried + (IF x.record THEN 1 ELSE 0) + (IF x.pc = "gate" THEN 1 ELSE 0)

LEMMA KindsFinite == IsFiniteSet(Kinds)
  <1>1. IsFiniteSet({"password"}) /\ IsFiniteSet({"password", "totp"})
    <2>1. IsFiniteSet({"password"})
      BY FS_Singleton
    <2>2. {"password", "totp"} = {"password"} \cup {"totp"}
      OBVIOUS
    <2> QED BY <2>1, <2>2, FS_AddElement
  <1>2. Kinds = {"password", "totp"} \cup {"reverify"}
    BY DEF Kinds
  <1> QED BY <1>1, <1>2, FS_AddElement

LEMMA OwesType == ASSUME NEW x, ReqOK(x) PROVE Owes(x) \in Nat
  BY DEF Owes, ReqOK

LEMMA FreeOK == ReqOK(Free) /\ Owes(Free) = 0 /\ Free.pc = "free"
  BY DEF ReqOK, Owes, Free, Pcs

HeldOf(q) == [r \in Reqs |-> Owes(q[r])]
KeptOf(g) == [k \in Kinds |-> g[k].suppressed]
ReqsOK(q) == q = [r \in Reqs |-> q[r]] /\ \A r \in Reqs : ReqOK(q[r])
GatesOK(g) == g = [k \in Kinds |-> g[k]] /\ \A k \in Kinds : GateOK(g[k])

TypeInv ==
    /\ now \in Nat /\ wrong \in Nat /\ written \in Nat /\ lost \in Nat
    /\ ReqsOK(req) /\ GatesOK(gate)
    /\ rows = [k \in Kinds |-> gate[k].rows]

Account == wrong = written + lost + Total(KeptOf(gate), Kinds)
                   + Total(HeldOf(req), Reqs)
AccountInv == TypeInv /\ Account

LEMMA HeldType ==
    ASSUME NEW q, ReqsOK(q)
    PROVE  /\ HeldOf(q) \in [Reqs -> Int] /\ Total(HeldOf(q), Reqs) \in Int
           /\ \A r \in Reqs : HeldOf(q)[r] = Owes(q[r])
  <1>1. HeldOf(q) \in [Reqs -> Int] /\ \A r \in Reqs : HeldOf(q)[r] = Owes(q[r])
    BY OwesType DEF HeldOf, ReqsOK
  <1>2. PICK f : f = HeldOf(q)
    OBVIOUS
  <1>3. Total(f, Reqs) \in Int
    BY <1>1, <1>2, AttemptsAssumption, TotalType
  <1> QED BY <1>1, <1>2, <1>3

LEMMA KeptType ==
    ASSUME NEW g, GatesOK(g)
    PROVE  /\ KeptOf(g) \in [Kinds -> Int] /\ Total(KeptOf(g), Kinds) \in Int
           /\ \A k \in Kinds : KeptOf(g)[k] = g[k].suppressed
  <1>1. KeptOf(g) \in [Kinds -> Int] /\ \A k \in Kinds : KeptOf(g)[k] = g[k].suppressed
    BY DEF KeptOf, GatesOK, GateOK
  <1>2. PICK f : f = KeptOf(g)
    OBVIOUS
  <1>3. Total(f, Kinds) \in Int
    BY <1>1, <1>2, KindsFinite, TotalType
  <1> QED BY <1>1, <1>2, <1>3

\* One request moves to y.
LEMMA RequestMoves ==
    ASSUME NEW q, ReqsOK(q), NEW p, NEW r \in Reqs, NEW y, ReqOK(y),
           p = [q EXCEPT ![r] = y]
    PROVE  /\ ReqsOK(p)
           /\ Total(HeldOf(p), Reqs) = Total(HeldOf(q), Reqs) - Owes(q[r]) + Owes(y)
  <1>1. p[r] = y /\ \A x \in Reqs \ {r} : p[x] = q[x]
    BY DEF ReqsOK
  <1>2. ReqsOK(p)
    BY <1>1 DEF ReqsOK
  <1>4. PICK f : f = HeldOf(q)
    OBVIOUS
  <1>5. PICK e : e = HeldOf(p)
    OBVIOUS
  <1>6. f \in [Reqs -> Int] /\ e \in [Reqs -> Int]
    BY <1>2, <1>4, <1>5, HeldType
  <1>10. /\ \A x \in Reqs : f[x] = Owes(q[x])
         /\ \A x \in Reqs : e[x] = Owes(p[x])
    <2>1. \A x \in Reqs : HeldOf(q)[x] = Owes(q[x])
      BY HeldType
    <2>2. \A x \in Reqs : HeldOf(p)[x] = Owes(p[x])
      BY <1>2, HeldType
    <2> QED BY <1>4, <1>5, <2>1, <2>2, Zenon
  <1>7. AgreeBut(r, e, f, Reqs)
    BY <1>1, <1>10 DEF AgreeBut
  <1>8. e[r] = Owes(y) /\ f[r] = Owes(q[r])
    BY <1>1, <1>10
  <1>9. Total(e, Reqs) = Total(f, Reqs) - f[r] + e[r]
    BY <1>6, <1>7, AttemptsAssumption, TotalMoves
  <1> QED BY <1>2, <1>4, <1>5, <1>8, <1>9

\* One gate moves to y.
LEMMA GateMoves ==
    ASSUME NEW g, GatesOK(g), NEW h, NEW k \in Kinds, NEW y, GateOK(y),
           h = [g EXCEPT ![k] = y]
    PROVE  /\ GatesOK(h)
           /\ Total(KeptOf(h), Kinds)
                = Total(KeptOf(g), Kinds) - g[k].suppressed + y.suppressed
  <1>1. h[k] = y /\ \A x \in Kinds \ {k} : h[x] = g[x]
    BY DEF GatesOK
  <1>2. GatesOK(h)
    BY <1>1 DEF GatesOK
  <1>4. PICK f : f = KeptOf(g)
    OBVIOUS
  <1>5. PICK e : e = KeptOf(h)
    OBVIOUS
  <1>6. f \in [Kinds -> Int] /\ e \in [Kinds -> Int]
    BY <1>2, <1>4, <1>5, KeptType
  <1>10. /\ \A x \in Kinds : f[x] = g[x].suppressed
         /\ \A x \in Kinds : e[x] = h[x].suppressed
    <2>1. \A x \in Kinds : KeptOf(g)[x] = g[x].suppressed
      BY KeptType
    <2>2. \A x \in Kinds : KeptOf(h)[x] = h[x].suppressed
      BY <1>2, KeptType
    <2> QED BY <1>4, <1>5, <2>1, <2>2, Zenon
  <1>7. AgreeBut(k, e, f, Kinds)
    BY <1>1, <1>10 DEF AgreeBut
  <1>8. e[k] = y.suppressed /\ f[k] = g[k].suppressed
    BY <1>1, <1>10
  <1>9. Total(e, Kinds) = Total(f, Kinds) - f[k] + e[k]
    BY <1>6, <1>7, KindsFinite, TotalMoves
  <1> QED BY <1>2, <1>4, <1>5, <1>8, <1>9

\* What one observation does to the gate: the failure observed is recorded,
\* counted or too early, the count of the window before changes hands, and the
\* rows allowed stay within the window's.
LEMMA Observed ==
    ASSUME NEW g, GateOK(g), NEW k, NEW t \in Nat, NEW force \in BOOLEAN,
           NEW o, o = observeMode(g, k, t, force)
    PROVE  /\ GateOK(o.gate) /\ o.record \in BOOLEAN /\ o.carried \in Nat
           /\ o.early \in BOOLEAN
           /\ o.early => o.gate = g /\ ~o.record /\ o.carried = 0
           /\ ~o.early => o.carried + (IF o.record THEN 1 ELSE 0) + o.gate.suppressed
                            = g.suppressed + 1
           /\ o.gate.rows = (IF o.gate.start = g.start THEN g.rows ELSE 0)
                            + (IF o.record THEN 1 ELSE 0)
                            + (IF o.carried > 0 THEN 1 ELSE 0)
  <1> DEFINE w == Window(g, t)
             room == k \in Known(w) \/ Cardinality(Known(w)) < MaxKeys
             entry == IF k \in Known(w) THEN w.entries[k] ELSE 0
             noted == [w EXCEPT !.entries[k] = entry]
             open == entry < PerKeyLimit /\ w.rows < DurableLimit
             c == Carried(g, t)
             result(s, rec) == [gate |-> s, record |-> rec, carried |-> c,
                                early |-> FALSE]
  <1>1. o = IF t < g.start
            THEN [gate |-> g, record |-> FALSE, carried |-> 0, early |-> TRUE]
            ELSE IF force \/ ~room THEN result(Suppressed(w), FALSE)
            ELSE IF ~open THEN result(Suppressed(noted), FALSE)
            ELSE result([noted EXCEPT !.entries[k] = entry + 1, !.rows = @ + 1], TRUE)
    BY Zenon DEF observeMode
  <1>2. CASE t < g.start
    BY <1>1, <1>2 DEF GateOK
  <1>3. CASE ~(t < g.start)
    <2>1. /\ GateOK(w) /\ c \in Nat
          /\ c + w.suppressed = g.suppressed
          /\ w.rows = (IF w.start = g.start THEN g.rows ELSE 0)
                       + (IF c > 0 THEN 1 ELSE 0)
          /\ w.start # -1
      BY <1>3, GateAssumption DEF GateOK, Window, Carried, NewWindow
    <2> HIDE DEF w, c
    <2>2. GateOK(noted) /\ noted.suppressed = w.suppressed /\ noted.rows = w.rows
          /\ noted.start = w.start
      BY <2>1 DEF GateOK
    <2> HIDE DEF noted, entry, room
    <2>3. ASSUME NEW v, GateOK(v), v.suppressed = w.suppressed, v.rows = w.rows,
                 v.start = w.start, o = result(Suppressed(v), FALSE)
          PROVE  /\ GateOK(o.gate) /\ o.record = FALSE /\ o.carried = c /\ o.early = FALSE
                 /\ o.gate.rows = w.rows /\ o.gate.start = w.start
                 /\ o.gate.suppressed = w.suppressed + 1
      BY <2>1, <2>3 DEF GateOK, Suppressed
    <2>4. ASSUME o = result([noted EXCEPT !.entries[k] = entry + 1, !.rows = @ + 1], TRUE),
                 open
          PROVE  /\ GateOK(o.gate) /\ o.record = TRUE /\ o.carried = c /\ o.early = FALSE
                 /\ o.gate.rows = w.rows + 1 /\ o.gate.start = w.start
                 /\ o.gate.suppressed = w.suppressed
      <3>1. noted.rows \in Nat /\ noted.rows + 1 <= DurableLimit /\ noted.start # -1
        BY <2>1, <2>2, <2>4, GateAssumption DEF GateOK
      <3>2. PICK v : v = [noted EXCEPT !.entries[k] = entry + 1, !.rows = @ + 1]
        OBVIOUS
      <3>3. PICK e : e = [noted.entries EXCEPT ![k] = entry + 1]
        OBVIOUS
      <3>4. v = [noted EXCEPT !.entries = e, !.rows = noted.rows + 1]
        BY <2>2, <3>2, <3>3 DEF GateOK
      <3>5. v = [start |-> noted.start, entries |-> e, rows |-> noted.rows + 1,
                 suppressed |-> noted.suppressed]
        BY <2>2, <3>4 DEF GateOK
      <3>6. GateOK(v)
        BY <2>2, <3>1, <3>5 DEF GateOK
      <3>7. o.gate = v /\ o.record = TRUE /\ o.carried = c /\ o.early = FALSE
        BY <2>4, <3>2
      <3> QED BY <2>2, <3>5, <3>6, <3>7
    <2>5. \/ o = result(Suppressed(w), FALSE)
          \/ o = result(Suppressed(noted), FALSE)
          \/ open /\ o = result([noted EXCEPT !.entries[k] = entry + 1,
                                              !.rows = @ + 1], TRUE)
      BY <1>1, <1>3, Zenon
    <2>6. CASE o = result(Suppressed(w), FALSE)
      BY <2>1, <2>3, <2>6 DEF GateOK
    <2>7. CASE o = result(Suppressed(noted), FALSE)
      BY <2>1, <2>2, <2>3, <2>7 DEF GateOK
    <2>8. CASE /\ open
               /\ o = result([noted EXCEPT !.entries[k] = entry + 1, !.rows = @ + 1], TRUE)
      BY <2>1, <2>4, <2>8 DEF GateOK
    <2> QED BY <2>5, <2>6, <2>7, <2>8
  <1> QED BY <1>2, <1>3

-----------------------------------------------------------------------------
(***************************************************************************)
(* The steps, one by one.                                                  *)
(***************************************************************************)
LEMMA OwesAt ==
    ASSUME NEW x, ReqOK(x)
    PROVE  /\ x.pc \notin {"gate", "aggregate", "individual"} => Owes(x) = 0
           /\ x.pc \in {"gate", "individual"} => Owes(x) = 1
           /\ x.pc = "aggregate" => Owes(x) = x.carried + (IF x.record THEN 1 ELSE 0)
  BY DEF ReqOK, Owes

\* A step of one request that touches no gate keeps the account when what the
\* request no longer owes went to the trail, or was lost.
LEMMA RequestStep ==
    ASSUME AccountInv, NEW r \in Reqs, NEW y, ReqOK(y),
           req' = [req EXCEPT ![r] = y],
           UNCHANGED <<gate, rows, now>>,
           wrong' \in Nat, written' \in Nat, lost' \in Nat,
           wrong' - written' - lost' - Owes(y)
             = wrong - written - lost - Owes(req[r])
    PROVE  AccountInv'
  <1> USE DEF AccountInv, TypeInv, Account
  <1>1. /\ ReqsOK(req')
        /\ Total(HeldOf(req'), Reqs) = Total(HeldOf(req), Reqs) - Owes(req[r]) + Owes(y)
    <2>1. PICK p : p = req'
      OBVIOUS
    <2> QED BY <2>1, RequestMoves
  <1>2. Total(HeldOf(req), Reqs) \in Int /\ Total(KeptOf(gate), Kinds) \in Int
    BY HeldType, KeptType
  <1>3. Owes(req[r]) \in Nat /\ Owes(y) \in Nat
    BY OwesType DEF ReqsOK
  <1>4. Account'
    <2>1. KeptOf(gate') = KeptOf(gate)
      OBVIOUS
    <2>2. PICK k, h, g : k = Total(KeptOf(gate), Kinds) /\ h = Total(HeldOf(req), Reqs)
                         /\ g = Total(HeldOf(req'), Reqs)
      OBVIOUS
    <2>3. wrong = written + lost + k + h
      BY <2>2
    <2>4. wrong' = written' + lost' + k + g
      <3>1. PICK u, v : u = Owes(req[r]) /\ v = Owes(y)
        OBVIOUS
      <3>2. g = h - u + v
        BY <1>1, <2>2, <3>1
      <3>3. u \in Nat /\ v \in Nat /\ k \in Int /\ h \in Int
        BY <1>2, <1>3, <2>2, <3>1
      <3>4. wrong' - written' - lost' - v = wrong - written - lost - u
        BY <3>1
      <3>5. wrong \in Nat /\ written \in Nat /\ lost \in Nat
        OBVIOUS
      <3>6. PICK w \in Nat, s \in Nat, l \in Nat :
                w = wrong' /\ s = written' /\ l = lost'
        OBVIOUS
      <3>7. w - s - l - v = wrong - written - lost - u
        BY <3>4, <3>6
      <3>8. w = s + l + k + g
        <4> HIDE DEF AccountInv, TypeInv, Account
        <4> QED BY <2>3, <3>2, <3>3, <3>5, <3>7
      <3> QED BY <3>6, <3>8
    <2> QED BY <2>1, <2>2, <2>4
  <1> QED BY <1>1, <1>4

LEMMA ReserveForStep ==
    ASSUME AccountInv, NEW r \in Reqs, NEW a \in Attempts, NEW t \in Sampled,
           ReserveFor(r, a, t)
    PROVE  AccountInv'
  <1>1. ReqOK(req[r]) /\ req[r].pc = "free" /\ UNCHANGED <<gate, rows, now>>
        /\ UNCHANGED <<wrong, written, lost>>
    BY DEF AccountInv, TypeInv, ReqsOK, ReserveFor, ledger
  <1>2. wrong \in Nat /\ written \in Nat /\ lost \in Nat /\ Owes(req[r]) = 0
    BY <1>1, OwesAt DEF AccountInv, TypeInv
  <1>3. ASSUME NEW items, NEW pc \in {"work", "judge", "suppress"},
               req' = [req EXCEPT ![r] =
                         [Free EXCEPT !.att = a, !.items = items, !.pc = pc]]
        PROVE  AccountInv'
    <2>1. PICK y : y = [Free EXCEPT !.att = a, !.items = items, !.pc = pc]
      OBVIOUS
    <2>2. ReqOK(y) /\ y.pc = pc
      BY <2>1 DEF Free, ReqOK, Pcs
    <2>3. Owes(y) = 0
      BY <2>2, OwesAt
    <2>4. req' = [req EXCEPT ![r] = y]
      BY <1>3, <2>1
    <2> QED BY <1>1, <1>2, <2>2, <2>3, <2>4, RequestStep
  <1>4. PICK d : d = Reserve(lim, Wanted(a), t)
    OBVIOUS
  <1>5. \/ /\ d.ok
           /\ req' = [req EXCEPT ![r] =
                        [Free EXCEPT !.att = a, !.items = d.items,
                           !.pc = IF a.kind = "password" THEN "work" ELSE "judge"]]
        \/ req' = req
        \/ req' = [req EXCEPT ![r] = [Free EXCEPT !.att = a, !.pc = "suppress"]]
    BY <1>4, Zenon DEF ReserveFor
  <1>6. CASE req' = req
    BY <1>1, <1>6 DEF AccountInv, TypeInv, Account
  <1>7. CASE req' = [req EXCEPT ![r] =
                        [Free EXCEPT !.att = a, !.items = d.items,
                           !.pc = IF a.kind = "password" THEN "work" ELSE "judge"]]
    <2>1. PICK pc \in {"work", "judge"} :
                pc = IF a.kind = "password" THEN "work" ELSE "judge"
      OBVIOUS
    <2> QED BY <1>3, <1>7, <2>1, Zenon
  <1>8. CASE req' = [req EXCEPT ![r] = [Free EXCEPT !.att = a, !.pc = "suppress"]]
    <2>1. PICK y : y = [Free EXCEPT !.att = a, !.pc = "suppress"]
      OBVIOUS
    <2>2. ReqOK(y) /\ y.pc = "suppress"
      BY <2>1 DEF Free, ReqOK, Pcs
    <2>3. Owes(y) = 0
      BY <2>2, OwesAt
    <2>4. req' = [req EXCEPT ![r] = y]
      BY <1>8, <2>1
    <2> QED BY <1>1, <1>2, <2>2, <2>3, <2>4, RequestStep
  <1> QED BY <1>5, <1>6, <1>7, <1>8

LEMMA AcquireWorkStep ==
    ASSUME AccountInv, NEW r \in Reqs, AcquireWork(r)
    PROVE  AccountInv'
  <1>1. ReqOK(req[r]) /\ req[r].pc = "work" /\ UNCHANGED <<gate, rows, now>>
        /\ UNCHANGED <<wrong, written, lost>>
    BY DEF AccountInv, TypeInv, ReqsOK, AcquireWork, ledger
  <1>2. PICK pc \in {"judging", "close"} : req' = [req EXCEPT ![r].pc = pc]
    BY DEF AcquireWork, Goto
  <1>3. PICK y : y = [req[r] EXCEPT !.pc = pc]
    OBVIOUS
  <1>4. req' = [req EXCEPT ![r] = y]
    BY <1>2, <1>3 DEF AccountInv, TypeInv, ReqsOK
  <1>5. ReqOK(y) /\ y.pc = pc
    BY <1>1, <1>3 DEF ReqOK, Pcs
  <1>6. wrong \in Nat /\ written \in Nat /\ lost \in Nat
        /\ Owes(req[r]) = 0 /\ Owes(y) = 0
    BY <1>1, <1>5, OwesAt DEF AccountInv, TypeInv
  <1> QED BY <1>1, <1>4, <1>5, <1>6, RequestStep

LEMMA JudgeStep ==
    ASSUME AccountInv, NEW r \in Reqs, NEW verdict, Judge(r, verdict)
    PROVE  AccountInv'
  <1>1. ReqOK(req[r]) /\ req[r].pc \in {"judge", "judging"}
        /\ UNCHANGED <<gate, rows, now>> /\ UNCHANGED <<written, lost>>
    BY DEF AccountInv, TypeInv, ReqsOK, Judge
  <1>2. PICK wr \in BOOLEAN : wr = (verdict = "wrong")
    OBVIOUS
  <1>3. PICK y : y = [req[r] EXCEPT !.pc = IF wr THEN "gate" ELSE "close", !.keep = wr]
    OBVIOUS
  <1>4. req' = [req EXCEPT ![r] = y]
    <2>1. req' = [req EXCEPT ![r].pc = IF wr THEN "gate" ELSE "close", ![r].keep = wr]
      BY <1>2 DEF Judge
    <2> QED BY <1>3, <2>1 DEF AccountInv, TypeInv, ReqsOK
  <1>5. ReqOK(y) /\ y.pc = IF wr THEN "gate" ELSE "close"
    BY <1>1, <1>3 DEF ReqOK, Pcs
  <1>6. wrong \in Nat /\ written \in Nat /\ lost \in Nat /\ Owes(req[r]) = 0
    BY <1>1, OwesAt DEF AccountInv, TypeInv
  <1>7. Owes(y) = IF wr THEN 1 ELSE 0
    BY <1>5, OwesAt
  <1>8. wrong' = IF wr THEN wrong + 1 ELSE wrong
    BY <1>2 DEF Judge
  <1>9. /\ wrong' \in Nat /\ written' \in Nat /\ lost' \in Nat
        /\ wrong' - written' - lost' - Owes(y)
             = wrong - written - lost - Owes(req[r])
    BY <1>1, <1>6, <1>7, <1>8
  <1> QED BY <1>1, <1>4, <1>5, <1>9, RequestStep

LEMMA CloseStep ==
    ASSUME AccountInv, NEW r \in Reqs, NEW t \in Sampled, Close(r, t)
    PROVE  AccountInv'
  <1>1. ReqOK(req[r]) /\ req[r].pc = "close" /\ UNCHANGED <<gate, rows, now>>
        /\ UNCHANGED <<wrong, written, lost>> /\ req' = [req EXCEPT ![r] = Free]
    BY DEF AccountInv, TypeInv, ReqsOK, Close, End, ledger
  <1>2. wrong \in Nat /\ written \in Nat /\ lost \in Nat /\ Owes(req[r]) = 0
    BY <1>1, OwesAt DEF AccountInv, TypeInv
  <1> QED BY <1>1, <1>2, FreeOK, RequestStep

LEMMA WriteAggregateStep ==
    ASSUME AccountInv, NEW r \in Reqs, NEW ok \in BOOLEAN, WriteAggregate(r, ok)
    PROVE  AccountInv'
  <1>1. ReqOK(req[r]) /\ req[r].pc = "aggregate"
        /\ UNCHANGED <<gate, rows, now>> /\ wrong' = wrong
    BY DEF AccountInv, TypeInv, ReqsOK, WriteAggregate
  <1>2. PICK c \in Nat, rec \in BOOLEAN : c = req[r].carried /\ rec = req[r].record
    BY <1>1 DEF ReqOK
  <1>3. PICK nrec \in BOOLEAN : nrec = (ok /\ rec)
    OBVIOUS
  <1>4. PICK y : y = [req[r] EXCEPT !.carried = 0, !.record = nrec,
                         !.pc = IF nrec THEN "individual" ELSE "close"]
    OBVIOUS
  <1>5. req' = [req EXCEPT ![r] = y]
    <2>1. req' = [req EXCEPT ![r].carried = 0, ![r].record = ok /\ @,
                   ![r].pc = IF ok /\ req[r].record THEN "individual" ELSE "close"]
      BY DEF WriteAggregate
    <2>2. req' = [req EXCEPT ![r].carried = 0, ![r].record = nrec,
                   ![r].pc = IF nrec THEN "individual" ELSE "close"]
      BY <1>1, <1>2, <1>3, <2>1 DEF AccountInv, TypeInv, ReqsOK, ReqOK
    <2> QED BY <1>4, <2>2 DEF AccountInv, TypeInv, ReqsOK
  <1>6. ReqOK(y) /\ y.pc = IF nrec THEN "individual" ELSE "close"
    BY <1>1, <1>4 DEF ReqOK, Pcs
  <1>7. Owes(y) = IF nrec THEN 1 ELSE 0
    BY <1>6, OwesAt
  <1>8. Owes(req[r]) = c + (IF rec THEN 1 ELSE 0)
    BY <1>1, <1>2, OwesAt
  <1>9. /\ written' = IF ok THEN written + c ELSE written
        /\ lost' = IF ok THEN lost ELSE lost + (c + IF rec THEN 1 ELSE 0)
    BY <1>2 DEF WriteAggregate
  <1>10. wrong \in Nat /\ written \in Nat /\ lost \in Nat
    BY DEF AccountInv, TypeInv
  <1>11. /\ written' \in Nat /\ lost' \in Nat
         /\ wrong' - written' - lost' - Owes(y)
              = wrong - written - lost - Owes(req[r])
    BY <1>1, <1>3, <1>7, <1>8, <1>9, <1>10
  <1> QED BY <1>1, <1>5, <1>6, <1>10, <1>11, RequestStep

LEMMA WriteIndividualStep ==
    ASSUME AccountInv, NEW r \in Reqs, NEW ok \in BOOLEAN, WriteIndividual(r, ok)
    PROVE  AccountInv'
  <1>1. ReqOK(req[r]) /\ req[r].pc = "individual"
        /\ UNCHANGED <<gate, rows, now>> /\ wrong' = wrong
    BY DEF AccountInv, TypeInv, ReqsOK, WriteIndividual
  <1>2. PICK y : y = [req[r] EXCEPT !.pc = "close", !.record = FALSE]
    OBVIOUS
  <1>3. req' = [req EXCEPT ![r] = y]
    BY <1>2 DEF AccountInv, TypeInv, ReqsOK, WriteIndividual
  <1>4. ReqOK(y) /\ y.pc = "close"
    BY <1>1, <1>2 DEF ReqOK, Pcs
  <1>5. Owes(req[r]) = 1 /\ Owes(y) = 0
    BY <1>1, <1>4, OwesAt
  <1>6. /\ written' = IF ok THEN written + 1 ELSE written
        /\ lost' = IF ok THEN lost ELSE lost + 1
    BY DEF WriteIndividual
  <1>7. wrong \in Nat /\ written \in Nat /\ lost \in Nat
    BY DEF AccountInv, TypeInv
  <1>8. /\ wrong' \in Nat /\ written' \in Nat /\ lost' \in Nat
        /\ wrong' - written' - lost' - Owes(y)
             = wrong - written - lost - Owes(req[r])
    BY <1>1, <1>5, <1>6, <1>7
  <1> QED BY <1>1, <1>3, <1>4, <1>8, RequestStep

\* The gate takes the failure and may hand over a count: what it and the
\* request owe together grows by the failures that become known here.
LEMMA ObserveStep ==
    ASSUME AccountInv, NEW r \in Reqs, NEW t \in Sampled, Observe(r, t)
    PROVE  AccountInv'
  <1>1. ReqOK(req[r]) /\ ReqsOK(req) /\ GatesOK(gate) /\ now \in Nat
        /\ wrong \in Nat /\ written \in Nat /\ lost \in Nat
        /\ rows = [k \in Kinds |-> gate[k].rows]
    BY DEF AccountInv, TypeInv, ReqsOK
  <1>2. /\ req[r].pc \in {"gate", "suppress"}
        /\ now' = now /\ written' = written
    BY DEF Observe
  <1>3. t \in Nat
    BY <1>1 DEF Sampled
  <1>4. PICK kind \in Kinds : kind = req[r].att.kind
    BY <1>1, <1>2, AttemptsAssumption DEF ReqOK
  <1>5. PICK force \in BOOLEAN : force = (req[r].pc = "suppress")
    OBVIOUS
  <1>6. PICK o :
          /\ o = observeMode(gate[kind], GateKey(req[r].att), t, force)
          /\ gate' = [gate EXCEPT ![kind] = o.gate]
          /\ req' = [req EXCEPT ![r].pc = "aggregate", ![r].carried = o.carried,
                                ![r].record = o.record]
          /\ rows' = [rows EXCEPT ![kind] =
                        (IF o.gate.start = gate[kind].start THEN @ ELSE 0)
                        + (IF o.record THEN 1 ELSE 0)
                        + (IF o.carried > 0 THEN 1 ELSE 0)]
          /\ lost' = IF o.early THEN lost + 1 ELSE lost
    BY <1>4, <1>5, Zenon DEF Observe
  <1>7. wrong' = IF force THEN wrong + 1 ELSE wrong
    BY <1>5 DEF Observe
  <1>8. GateOK(gate[kind])
    BY <1>1 DEF GatesOK
  <1>9. /\ GateOK(o.gate) /\ o.record \in BOOLEAN /\ o.carried \in Nat
        /\ o.early \in BOOLEAN
        /\ o.early => o.gate = gate[kind] /\ ~o.record /\ o.carried = 0
        /\ ~o.early => o.carried + (IF o.record THEN 1 ELSE 0) + o.gate.suppressed
                         = gate[kind].suppressed + 1
        /\ o.gate.rows = (IF o.gate.start = gate[kind].start THEN gate[kind].rows ELSE 0)
                         + (IF o.record THEN 1 ELSE 0)
                         + (IF o.carried > 0 THEN 1 ELSE 0)
    BY <1>3, <1>6, <1>8, Observed
  <1>10. PICK y : y = [req[r] EXCEPT !.pc = "aggregate", !.carried = o.carried,
                                     !.record = o.record]
    OBVIOUS
  <1>11. req' = [req EXCEPT ![r] = y]
    BY <1>1, <1>6, <1>10 DEF ReqsOK
  <1>12. ReqOK(y) /\ y.pc = "aggregate" /\ y.carried = o.carried /\ y.record = o.record
    BY <1>1, <1>2, <1>9, <1>10 DEF ReqOK, Pcs
  <1>13. Owes(y) = o.carried + (IF o.record THEN 1 ELSE 0)
    BY <1>12, OwesAt
  <1>14. Owes(req[r]) = IF force THEN 0 ELSE 1
    BY <1>1, <1>2, <1>5, OwesAt
  <1>15. /\ GatesOK(gate')
         /\ Total(KeptOf(gate'), Kinds) = Total(KeptOf(gate), Kinds)
              - gate[kind].suppressed + o.gate.suppressed
    <2>1. PICK h, y1 : h = gate' /\ y1 = o.gate
      OBVIOUS
    <2> QED BY <1>1, <1>6, <1>9, <2>1, GateMoves
  <1>16. /\ ReqsOK(req')
         /\ Total(HeldOf(req'), Reqs) = Total(HeldOf(req), Reqs) - Owes(req[r]) + Owes(y)
    <2>1. PICK p : p = req'
      OBVIOUS
    <2> QED BY <1>1, <1>11, <1>12, <2>1, RequestMoves
  <1>17. rows' = [k \in Kinds |-> gate'[k].rows]
    <2>1. PICK n : n = o.gate.rows
      OBVIOUS
    <2>2. rows' = [rows EXCEPT ![kind] = n]
      BY <1>1, <1>6, <1>9, <2>1
    <2>3. gate'[kind].rows = n /\ \A k \in Kinds \ {kind} : gate'[k] = gate[k]
      BY <1>1, <1>6, <2>1 DEF GatesOK
    <2> QED BY <1>1, <2>2, <2>3
  <1>18. wrong' \in Nat /\ lost' \in Nat /\ TypeInv'
    BY <1>1, <1>2, <1>6, <1>7, <1>9, <1>15, <1>16, <1>17 DEF TypeInv
  <1>19. Account'
    <2>1. PICK k0, k1, h0, h1 :
             /\ k0 = Total(KeptOf(gate), Kinds) /\ k1 = Total(KeptOf(gate'), Kinds)
             /\ h0 = Total(HeldOf(req), Reqs) /\ h1 = Total(HeldOf(req'), Reqs)
      OBVIOUS
    <2>2. k0 \in Int /\ h0 \in Int
      BY <1>1, <2>1, HeldType, KeptType
    <2>3. PICK s0 \in Nat, s1 \in Nat : s0 = gate[kind].suppressed /\ s1 = o.gate.suppressed
      BY <1>8, <1>9 DEF GateOK
    <2>4. PICK c \in Nat, n \in Nat :
             c = o.carried /\ n = (IF o.record THEN 1 ELSE 0)
      BY <1>9
    <2>5. k1 = k0 - s0 + s1
      BY <1>15, <2>1, <2>3
    <2>6. h1 = h0 - (IF force THEN 0 ELSE 1) + (c + n)
      BY <1>13, <1>14, <1>16, <2>1, <2>4
    <2>7. IF o.early THEN s1 = s0 /\ n = 0 /\ c = 0 ELSE c + n + s1 = s0 + 1
      BY <1>9, <2>3, <2>4
    <2>8. wrong = written + lost + k0 + h0
      BY <2>1 DEF AccountInv, Account
    <2>9. wrong' = written' + lost' + k1 + h1
      BY <1>1, <1>2, <1>6, <1>7, <2>2, <2>5, <2>6, <2>7, <2>8
    <2> QED BY <2>1, <2>9 DEF Account
  <1> QED BY <1>18, <1>19 DEF AccountInv

LEMMA TickStep ==
    ASSUME AccountInv, Tick
    PROVE  AccountInv'
  BY DEF AccountInv, TypeInv, Account, Tick, ledger

LEMMA AccountInit == ASSUME Init PROVE AccountInv
  <1>1. /\ now = 0 /\ wrong = 0 /\ written = 0 /\ lost = 0
        /\ req = [r \in Reqs |-> Free] /\ gate = [k \in Kinds |-> NoWindow]
        /\ rows = [k \in Kinds |-> 0]
    BY DEF Init
  <1>2. GateOK(NoWindow) /\ NoWindow.rows = 0 /\ NoWindow.suppressed = 0
    BY GateAssumption DEF GateOK, NoWindow, NewWindow
  <1>3. ReqsOK(req)
    BY <1>1, FreeOK DEF ReqsOK
  <1>4. GatesOK(gate)
    BY <1>1, <1>2 DEF GatesOK
  <1>5. TypeInv
    BY <1>1, <1>2, <1>3, <1>4 DEF TypeInv
  <1>6. Total(HeldOf(req), Reqs) = 0
    <2>1. PICK f : f = HeldOf(req)
      OBVIOUS
    <2>2. f \in [Reqs -> Int] /\ \A r \in Reqs : f[r] = 0
      BY <1>1, <2>1, FreeOK DEF HeldOf
    <2> QED BY <2>1, <2>2, AttemptsAssumption, TotalOfNothing
  <1>7. Total(KeptOf(gate), Kinds) = 0
    <2>1. PICK f : f = KeptOf(gate)
      OBVIOUS
    <2>2. f \in [Kinds -> Int] /\ \A k \in Kinds : f[k] = 0
      BY <1>1, <1>2, <2>1 DEF KeptOf
    <2> QED BY <2>1, <2>2, KindsFinite, TotalOfNothing
  <1>8. Account
    BY <1>1, <1>6, <1>7 DEF Account
  <1> QED BY <1>5, <1>8 DEF AccountInv

LEMMA AccountNext == ASSUME AccountInv, [Next]_vars PROVE AccountInv'
  <1>1. CASE Next
    <2>1. ASSUME NEW r \in Reqs, NEW t \in Sampled, NEW a \in Attempts,
                 ReserveFor(r, a, t)
          PROVE  AccountInv'
      BY <2>1, ReserveForStep
    <2>2. ASSUME NEW r \in Reqs, NEW t \in Sampled, Close(r, t) PROVE AccountInv'
      BY <2>2, CloseStep
    <2>3. ASSUME NEW r \in Reqs, NEW t \in Sampled, Observe(r, t) PROVE AccountInv'
      BY <2>3, ObserveStep
    <2>4. ASSUME NEW r \in Reqs, AcquireWork(r) PROVE AccountInv'
      BY <2>4, AcquireWorkStep
    <2>5. ASSUME NEW r \in Reqs, NEW verdict, Judge(r, verdict) PROVE AccountInv'
      BY <2>5, JudgeStep
    <2>6. ASSUME NEW r \in Reqs, NEW ok \in BOOLEAN,
                 WriteAggregate(r, ok) \/ WriteIndividual(r, ok)
          PROVE  AccountInv'
      BY <2>6, WriteAggregateStep, WriteIndividualStep
    <2>7. ASSUME Tick PROVE AccountInv'
      BY <2>7, TickStep
    <2> QED BY <1>1, <2>1, <2>2, <2>3, <2>4, <2>5, <2>6, <2>7 DEF Next
  <1>2. CASE UNCHANGED vars
    BY <1>2 DEF vars, AccountInv, TypeInv, Account
  <1> QED BY <1>1, <1>2

LEMMA AccountAlways == Spec => []AccountInv
  <1>1. Init => AccountInv
    BY AccountInit
  <1>2. AccountInv /\ [Next]_vars => AccountInv'
    BY AccountNext
  <1> QED BY <1>1, <1>2, PTL DEF Spec

LEMMA AccountGives == ASSUME AccountInv PROVE FailuresAccounted
  <1>1. ReqsOK(req) /\ GatesOK(gate) /\ rows = [k \in Kinds |-> gate[k].rows]
    BY DEF AccountInv, TypeInv
  <1>2. Held = HeldOf(req)
    BY DEF Held, InHand, HeldOf, Owes
  <1>3. Kept = KeptOf(gate)
    BY DEF Kept, Withheld, KeptOf
  <1>4. MapThenSumSet(InHand, Reqs) = Total(HeldOf(req), Reqs)
    BY <1>1, <1>2, HeldType, HeldTotal, AttemptsAssumption
  <1>5. MapThenSumSet(Withheld, Kinds) = Total(KeptOf(gate), Kinds)
    BY <1>1, <1>3, KeptType, KeptTotal, KindsFinite
  <1>6. \A k \in Kinds : rows[k] <= DurableLimit
    BY <1>1 DEF GatesOK, GateOK
  <1>7. wrong = written + lost + Total(KeptOf(gate), Kinds) + Total(HeldOf(req), Reqs)
    BY DEF AccountInv, Account
  <1> QED BY <1>4, <1>5, <1>6, <1>7 DEF FailuresAccounted

\* Whatever the requests in progress and their clocks, every wrong guess is in
\* the audit trail, in a gate's count or in the hands of one request, unless its
\* write failed or its clock preceded the window, and none is counted twice; no
\* window lets more than DurableLimit rows into the trail.
THEOREM FailuresAreAccounted == Spec => []FailuresAccounted
  <1>1. AccountInv => FailuresAccounted
    BY AccountGives
  <1> QED BY <1>1, AccountAlways, PTL

-----------------------------------------------------------------------------
(***************************************************************************)
(* The limiter against the ideal one.  Arithmetic first: what a generation *)
(* lasts is enough to fill a bucket, and levels follow each other.         *)
(***************************************************************************)
Bucket == [tokens : Int, last : Int]

LEMMA MinOfTwo ==
    ASSUME NEW a \in Int, NEW b \in Int
    PROVE  Min({a, b}) = IF a <= b THEN a ELSE b
  <1>1. \E x \in {a, b} : \A y \in {a, b} : x =< y
    OBVIOUS
  <1> QED BY <1>1 DEF Min

LEMMA MaxOfTwo ==
    ASSUME NEW a \in Int, NEW b \in Int
    PROVE  Max({a, b}) = IF a >= b THEN a ELSE b
  <1>1. \E x \in {a, b} : \A y \in {a, b} : x >= y
    OBVIOUS
  <1> QED BY <1>1 DEF Max

LEMMA CeilDivCovers ==
    ASSUME NEW a \in Nat, NEW b \in Nat \ {0}
    PROVE  CeilDiv(a, b) \in Nat /\ CeilDiv(a, b) * b >= a
           /\ (a > 0 => CeilDiv(a, b) >= 1)
  BY DEF CeilDiv

LEMMA Grows ==
    ASSUME NEW a \in Int, NEW b \in Int, NEW n \in Nat, a >= b
    PROVE  a * n \in Int /\ b * n \in Int /\ a * n >= b * n
  OBVIOUS

LEMMA Splits ==
    ASSUME NEW a \in Int, NEW b \in Int, NEW c \in Int, NEW n \in Nat
    PROVE  (a - c) * n = (a - b) * n + (b - c) * n
  OBVIOUS

LEMMA Rates ==
    ASSUME NEW o \in Operations
    PROVE  /\ Capacity[o] \in Nat /\ Refill[o] \in Nat \ {0} /\ Capacity[o] >= Token
           /\ Token \in Nat \ {0}
           /\ TTL(o) \in Nat \ {0} /\ TTL(o) * Refill[o] >= Capacity[o]
  <1>1. /\ Capacity[o] \in Nat /\ Refill[o] \in Nat \ {0} /\ Capacity[o] >= Token
        /\ Token \in Nat \ {0} /\ GenerationTTL \in Nat
    BY LimiterAssumption
  <1>2. PICK c, n : c = Capacity[o] /\ n = Refill[o]
    OBVIOUS
  <1>3. PICK d : d = CeilDiv(c, n)
    OBVIOUS
  <1>4. d \in Nat \ {0} /\ d * n >= c
    BY <1>1, <1>2, <1>3, CeilDivCovers
  <1>5. TTL(o) = IF GenerationTTL >= d THEN GenerationTTL ELSE d
    BY <1>1, <1>2, <1>3, <1>4, MaxOfTwo DEF TTL, naturalRecoveryDuration
  <1>6. TTL(o) \in Nat \ {0} /\ TTL(o) >= d
    BY <1>1, <1>4, <1>5
  <1>7. TTL(o) * n >= d * n /\ TTL(o) * n \in Int /\ d * n \in Int
    BY <1>1, <1>2, <1>4, <1>6, Grows
  <1>8. TTL(o) * n >= c
    BY <1>1, <1>2, <1>4, <1>7
  <1> QED BY <1>1, <1>2, <1>6, <1>8

LEMMA LevelIs ==
    ASSUME NEW o \in Operations, NEW b \in Bucket, NEW t \in Int
    PROVE  /\ Level(b, o, t) \in Int /\ Level(b, o, t) <= Capacity[o]
           /\ b = NoBucket => Level(b, o, t) = Capacity[o]
           /\ b # NoBucket =>
                Level(b, o, t) = IF Capacity[o] <= b.tokens + (t - b.last) * Refill[o]
                                 THEN Capacity[o]
                                 ELSE b.tokens + (t - b.last) * Refill[o]
  <1>1. Capacity[o] \in Nat /\ Refill[o] \in Nat
    BY Rates
  <1>2. b.tokens + (t - b.last) * Refill[o] \in Int
    BY <1>1 DEF Bucket
  <1>3. CASE b = NoBucket
    BY <1>1, <1>3 DEF Level
  <1>4. CASE b # NoBucket
    <2>1. PICK c, v : c = Capacity[o] /\ v = b.tokens + (t - b.last) * Refill[o]
      OBVIOUS
    <2>2. Level(b, o, t) = Min({c, v})
      BY <1>4, <2>1 DEF Level
    <2>3. Min({c, v}) = IF c <= v THEN c ELSE v
      BY <1>1, <1>2, <2>1, MinOfTwo
    <2> QED BY <1>1, <1>2, <1>4, <2>1, <2>2, <2>3
  <1> QED BY <1>3, <1>4

\* From time n on, bucket b never has more than bucket i.
Dominates(b, i, o, n) ==
    \A t \in Nat : t >= n => Level(b, o, t) <= Level(i, o, t)

LEMMA ChargeDominates ==
    ASSUME NEW o \in Operations, NEW u \in Int, NEW v \in Int, NEW at \in Nat, u <= v
    PROVE  Dominates([tokens |-> u, last |-> at], [tokens |-> v, last |-> at], o, at)
  <1> SUFFICES ASSUME NEW t \in Nat, t >= at
               PROVE  Level([tokens |-> u, last |-> at], o, t)
                        <= Level([tokens |-> v, last |-> at], o, t)
    BY DEF Dominates
  <1>0. PICK b, i : b = [tokens |-> u, last |-> at] /\ i = [tokens |-> v, last |-> at]
    OBVIOUS
  <1>1. /\ b \in Bucket /\ i \in Bucket /\ b # NoBucket /\ i # NoBucket
        /\ b.tokens = u /\ i.tokens = v /\ b.last = at /\ i.last = at
    BY <1>0 DEF Bucket, NoBucket
  <1>2. PICK c \in Nat, d \in Int : c = Capacity[o] /\ d = (t - at) * Refill[o]
    BY Rates
  <1>3. Level(b, o, t) = IF c <= u + d THEN c ELSE u + d
    BY <1>1, <1>2, LevelIs
  <1>4. Level(i, o, t) = IF c <= v + d THEN c ELSE v + d
    BY <1>1, <1>2, LevelIs
  <1>5. Level(b, o, t) <= Level(i, o, t)
    BY <1>2, <1>3, <1>4
  <1> QED BY <1>0, <1>5

LEMMA Elapses ==
    ASSUME NEW a \in Int, NEW b \in Int, NEW n \in Nat, a >= b
    PROVE  (a - b) * n \in Int /\ (a - b) * n >= 0
  <1>1. PICK d \in Nat : d = a - b
    OBVIOUS
  <1>2. d * n \in Nat
    OBVIOUS
  <1> QED BY <1>1, <1>2

LEMMA ReturnIs ==
    ASSUME NEW o \in Operations, NEW i \in Bucket
    PROVE  /\ Return(i, o) \in Bucket /\ Return(i, o).last = i.last
           /\ Return(i, o).tokens = IF Capacity[o] <= i.tokens + Token
                                    THEN Capacity[o] ELSE i.tokens + Token
  <1>1. Capacity[o] \in Nat /\ Token \in Nat
    BY Rates
  <1>2. PICK m : m = Min({Capacity[o], i.tokens + Token})
    OBVIOUS
  <1>3. m = IF Capacity[o] <= i.tokens + Token THEN Capacity[o] ELSE i.tokens + Token
    <2>1. i.tokens + Token \in Int
      BY <1>1 DEF Bucket
    <2> QED BY <1>1, <1>2, <2>1, MinOfTwo
  <1>4. m \in Int
    BY <1>1, <1>3 DEF Bucket
  <1>5. Return(i, o) = [i EXCEPT !.tokens = m]
    BY <1>2 DEF Return, Bucket
  <1> QED BY <1>3, <1>4, <1>5 DEF Bucket

\* A token that only the ideal limiter gets back.
LEMMA ReturnMore ==
    ASSUME NEW o \in Operations, NEW b \in Bucket, NEW i \in Bucket, NEW n \in Int,
           i.last \in Nat, i.last <= n, Dominates(b, i, o, n)
    PROVE  Dominates(b, Return(i, o), o, n)
  <1> SUFFICES ASSUME NEW t \in Nat, t >= n
               PROVE  Level(b, o, t) <= Level(Return(i, o), o, t)
    BY DEF Dominates
  <1>1. Level(b, o, t) <= Level(i, o, t)
    BY DEF Dominates
  <1>2. PICK j \in Bucket : /\ j = Return(i, o) /\ j.last = i.last
                            /\ j.tokens = IF Capacity[o] <= i.tokens + Token
                                          THEN Capacity[o] ELSE i.tokens + Token
    BY ReturnIs
  <1>3. i # NoBucket /\ j # NoBucket
    BY <1>2 DEF NoBucket
  <1>4. PICK c \in Nat, k \in Nat : c = Capacity[o] /\ k = Token
    BY Rates
  <1>5. PICK d \in Int : d = (t - i.last) * Refill[o] /\ d >= 0
    <2>1. PICK l \in Nat, r \in Nat : l = i.last /\ r = Refill[o]
      BY Rates
    <2>2. (t - l) * r \in Int /\ (t - l) * r >= 0
      BY <2>1, Elapses
    <2> QED BY <2>1, <2>2
  <1>6. Level(i, o, t) = IF c <= i.tokens + d THEN c ELSE i.tokens + d
    BY <1>3, <1>4, <1>5, LevelIs
  <1>7. Level(j, o, t) = IF c <= j.tokens + d THEN c ELSE j.tokens + d
    BY <1>2, <1>3, <1>4, <1>5, LevelIs
  <1>8. i.tokens \in Int /\ Level(b, o, t) \in Int
    BY LevelIs DEF Bucket
  <1>9. Level(b, o, t) <= Level(j, o, t)
    BY <1>1, <1>2, <1>4, <1>5, <1>6, <1>7, <1>8
  <1> QED BY <1>2, <1>9

\* A token that both get back.
LEMMA ReturnDominates ==
    ASSUME NEW o \in Operations, NEW b \in Bucket, NEW i \in Bucket, NEW s \in Nat,
           i.last \in Nat, i.last <= s, Level(b, o, s) <= Level(i, o, s),
           NEW m \in Int, m = Min({Capacity[o], Level(b, o, s) + Token})
    PROVE  Dominates([last |-> s, tokens |-> m], Return(i, o), o, s)
  <1> SUFFICES ASSUME NEW t \in Nat, t >= s
               PROVE  Level([last |-> s, tokens |-> m], o, t) <= Level(Return(i, o), o, t)
    BY DEF Dominates
  <1>2. PICK j \in Bucket : /\ j = Return(i, o) /\ j.last = i.last
                            /\ j.tokens = IF Capacity[o] <= i.tokens + Token
                                          THEN Capacity[o] ELSE i.tokens + Token
    BY ReturnIs
  <1>3. i # NoBucket /\ j # NoBucket
    BY <1>2 DEF NoBucket
  <1>4. PICK c \in Nat, k \in Nat : c = Capacity[o] /\ k = Token
    BY Rates
  <1>5. PICK x \in Int, y \in Int, z \in Int :
          /\ x = (t - i.last) * Refill[o] /\ y = (t - s) * Refill[o]
          /\ z = (s - i.last) * Refill[o]
          /\ x = y + z /\ y >= 0 /\ z >= 0
    <2>1. PICK l \in Nat : l = i.last
      OBVIOUS
    <2>2. PICK n \in Nat : n = Refill[o]
      BY Rates
    <2>3. (t - l) * n = (t - s) * n + (s - l) * n /\ (t - l) * n \in Int
      BY Splits
    <2>4. (t - s) * n \in Int /\ (t - s) * n >= 0
      BY Elapses
    <2>5. (s - l) * n \in Int /\ (s - l) * n >= 0
      BY <2>1, Elapses
    <2> QED BY <2>1, <2>2, <2>3, <2>4, <2>5
  <1>6. PICK a \in Int : a = Level(b, o, s)
    BY LevelIs
  <1>7. m = IF c <= a + k THEN c ELSE a + k
    BY <1>4, <1>6, MinOfTwo
  <1>8. a <= IF c <= i.tokens + z THEN c ELSE i.tokens + z
    BY <1>3, <1>4, <1>5, <1>6, LevelIs
  <1>14. PICK e : e = [last |-> s, tokens |-> m]
    OBVIOUS
  <1>9. e \in Bucket /\ e # NoBucket /\ e.tokens = m /\ e.last = s
    BY <1>14 DEF Bucket, NoBucket
  <1>10. Level(e, o, t) = IF c <= m + y THEN c ELSE m + y
    BY <1>4, <1>5, <1>9, LevelIs
  <1>11. Level(j, o, t) = IF c <= j.tokens + x THEN c ELSE j.tokens + x
    BY <1>2, <1>3, <1>4, <1>5, LevelIs
  <1>12. i.tokens \in Int
    BY DEF Bucket
  <1>13. Level(e, o, t) <= Level(j, o, t)
    BY <1>2, <1>4, <1>5, <1>7, <1>8, <1>10, <1>11, <1>12
  <1> QED BY <1>2, <1>13, <1>14

\* A bucket that was left alone for a generation is full.
LEMMA Recovered ==
    ASSUME NEW o \in Operations, NEW i \in Bucket, NEW n \in Int,
           i = NoBucket \/ (i.tokens \in Nat /\ i.last \in Nat /\ n - i.last >= TTL(o))
    PROVE  Dominates(NoBucket, i, o, n)
  <1> SUFFICES ASSUME NEW t \in Nat, t >= n
               PROVE  Level(NoBucket, o, t) <= Level(i, o, t)
    BY DEF Dominates
  <1>1. PICK c \in Nat : c = Capacity[o]
    BY Rates
  <1>2. Level(NoBucket, o, t) = c
    BY <1>1 DEF Level
  <1>3. CASE i = NoBucket
    BY <1>1, <1>2, <1>3
  <1>4. CASE i # NoBucket
    <2>1. PICK l \in Nat, m \in Nat, r \in Nat, u \in Nat :
             l = i.last /\ m = TTL(o) /\ r = Refill[o] /\ u = i.tokens
      BY <1>4, Rates
    <2>2. t - l >= m
      BY <1>4, <2>1
    <2>3. (t - l) * r >= m * r /\ (t - l) * r \in Int /\ m * r \in Int
      BY <2>2, Grows
    <2>4. m * r >= c
      BY <1>1, <2>1, Rates
    <2>5. Level(i, o, t) = IF c <= u + (t - l) * r THEN c ELSE u + (t - l) * r
      BY <1>1, <1>4, <2>1, LevelIs
    <2>6. PICK d \in Int, e \in Int : d = (t - l) * r /\ e = m * r
      BY <2>3
    <2>7. d >= e /\ e >= c /\ Level(i, o, t) = IF c <= u + d THEN c ELSE u + d
      BY <2>3, <2>4, <2>5, <2>6
    <2> QED BY <1>1, <1>2, <2>7
  <1> QED BY <1>3, <1>4

-----------------------------------------------------------------------------
(***************************************************************************)
(* One key of the table: b and p are its buckets in the two generations, i *)
(* the ideal one, st the start of the generation and n the last time.      *)
(***************************************************************************)

\* The bucket in force never has more than the ideal one.  A bucket of the
\* previous generation was not used since the present one began, which is why
\* forgetting it forgets nothing: by then the ideal one is full as well.
KeyOK(b, p, i, o, st, n) ==
    /\ b \in Bucket /\ p \in Bucket /\ i \in Bucket
    /\ i = NoBucket \/ (i.tokens \in Nat /\ i.last \in Nat /\ i.last <= n)
    /\ b # NoBucket => p = NoBucket /\ st # -1 /\ i.last < st + TTL(o)
    /\ p # NoBucket => st # -1 /\ i.last < st
    /\ Dominates(IF b # NoBucket THEN b ELSE p, i, o, n)

LEMMA NoBucketType == NoBucket \in Bucket
  BY DEF NoBucket, Bucket

LEMMA KeyLater ==
    ASSUME NEW b, NEW p, NEW i, NEW o, NEW st, NEW n \in Int, NEW m \in Int, m >= n,
           KeyOK(b, p, i, o, st, n)
    PROVE  KeyOK(b, p, i, o, st, m)
  <1>1. PICK e : e = IF b # NoBucket THEN b ELSE p
    OBVIOUS
  <1>2. Dominates(e, i, o, n)
    BY <1>1 DEF KeyOK
  <1>3. Dominates(e, i, o, m)
    BY <1>2 DEF Dominates
  <1>4. i = NoBucket \/ (i.tokens \in Nat /\ i.last \in Nat /\ i.last <= m)
    BY DEF KeyOK
  <1> QED BY <1>1, <1>3, <1>4 DEF KeyOK

\* rotateGeneration, as one key sees it.
LEMMA KeyFirst ==
    ASSUME NEW o \in Operations, NEW b, NEW p, NEW i, NEW n \in Int, NEW at \in Nat,
           at >= n, KeyOK(b, p, i, o, -1, n)
    PROVE  KeyOK(b, p, i, o, at, at)
  <1>1. KeyOK(b, p, i, o, -1, at)
    BY KeyLater
  <1> QED BY <1>1 DEF KeyOK

LEMMA KeyForgotten ==
    ASSUME NEW o \in Operations, NEW b, NEW p, NEW i, NEW st \in Int, NEW n \in Int,
           NEW at \in Nat, at >= n, KeyOK(b, p, i, o, st, n), b = NoBucket,
           at - st >= TTL(o)
    PROVE  Dominates(NoBucket, i, o, at)
  <1>1. CASE p = NoBucket
    BY <1>1, KeyLater DEF KeyOK
  <1>2. CASE p # NoBucket /\ i # NoBucket
    <2>1. i \in Bucket /\ i.tokens \in Nat /\ i.last \in Nat /\ i.last < st
      BY <1>2 DEF KeyOK
    <2>2. TTL(o) \in Nat
      BY Rates
    <2>3. at - i.last >= TTL(o)
      BY <2>1, <2>2
    <2> QED BY <2>1, <2>3, Recovered
  <1>3. CASE i = NoBucket
    BY <1>3, NoBucketType, Recovered
  <1> QED BY <1>1, <1>2, <1>3

LEMMA KeyRotates ==
    ASSUME NEW o \in Operations, NEW b, NEW p, NEW i, NEW st \in Int, NEW n \in Int,
           NEW at \in Nat, at >= n, KeyOK(b, p, i, o, st, n), st # -1,
           at - st >= TTL(o)
    PROVE  KeyOK(NoBucket, b, i, o, st + TTL(o), at)
  <1>1. TTL(o) \in Nat \ {0}
    BY Rates
  <1>2. KeyOK(b, p, i, o, st, at)
    BY KeyLater
  <1>3. Dominates(b, i, o, at)
    <2>1. CASE b # NoBucket
      BY <1>2, <2>1 DEF KeyOK
    <2>2. CASE b = NoBucket
      BY <2>2, KeyForgotten
    <2> QED BY <2>1, <2>2
  <1>4. b # NoBucket => st + TTL(o) # -1 /\ i.last < st + TTL(o)
    <2>1. SUFFICES ASSUME b # NoBucket PROVE st + TTL(o) # -1 /\ i.last < st + TTL(o)
      OBVIOUS
    <2>2. i.last < st + TTL(o) /\ i.last \in Int /\ i.last >= -1
      BY <1>2, <2>1 DEF KeyOK, NoBucket
    <2> QED BY <1>1, <2>2
  <1> QED BY <1>2, <1>3, <1>4, NoBucketType DEF KeyOK

LEMMA KeyDropped ==
    ASSUME NEW o \in Operations, NEW b, NEW p, NEW i, NEW st \in Int, NEW n \in Int,
           NEW at \in Nat, at >= n, KeyOK(b, p, i, o, st, n), st # -1,
           at - st >= 2 * TTL(o), NEW st2
    PROVE  KeyOK(NoBucket, NoBucket, i, o, st2, at)
  <1>1. TTL(o) \in Nat \ {0}
    BY Rates
  <1>2. KeyOK(b, p, i, o, st, at)
    BY KeyLater
  <1>3. Dominates(NoBucket, i, o, at)
    <2>1. CASE b # NoBucket /\ i # NoBucket
      <3>1. i \in Bucket /\ i.tokens \in Nat /\ i.last \in Nat /\ i.last < st + TTL(o)
        BY <1>2, <2>1 DEF KeyOK
      <3>2. at - i.last >= TTL(o)
        BY <1>1, <3>1
      <3> QED BY <3>1, <3>2, Recovered
    <2>2. CASE b = NoBucket
      BY <1>1, <2>2, KeyForgotten
    <2>3. CASE i = NoBucket
      BY <2>3, NoBucketType, Recovered
    <2> QED BY <2>1, <2>2, <2>3
  <1> QED BY <1>2, <1>3, NoBucketType DEF KeyOK

\* subjectBucket, as the key that moves sees it.
LEMMA KeyMoves ==
    ASSUME NEW o \in Operations, NEW p, NEW i, NEW st \in Int, NEW n,
           KeyOK(NoBucket, p, i, o, st, n), p # NoBucket
    PROVE  KeyOK(p, NoBucket, i, o, st, n)
  <1>1. TTL(o) \in Nat \ {0}
    BY Rates
  <1>2. i.last \in Int
    BY DEF KeyOK, Bucket
  <1>3. i.last < st + TTL(o)
    BY <1>1, <1>2 DEF KeyOK
  <1> QED BY <1>3, NoBucketType DEF KeyOK

\* A token is spent in both.
LEMMA KeySpends ==
    ASSUME NEW o \in Operations, NEW b, NEW p, NEW i, NEW st \in Int, NEW at \in Nat,
           KeyOK(b, p, i, o, st, at), b # NoBucket \/ p = NoBucket, st # -1,
           at < st + TTL(o), Level(b, o, at) >= Token,
           NEW c, c = [tokens |-> Level(b, o, at) - Token, last |-> at]
    PROVE  KeyOK(c, p, Charge(i, o, at), o, st, at)
  <1>1. Token \in Nat \ {0}
    BY Rates
  <1>2. b \in Bucket /\ i \in Bucket /\ p = NoBucket
    BY DEF KeyOK
  <1>3. PICK u \in Int, v \in Int : u = Level(b, o, at) /\ v = Level(i, o, at)
    BY <1>2, LevelIs
  <1>4. u <= v
    <2>1. Dominates(b, i, o, at)
      BY <1>2 DEF KeyOK
    <2> QED BY <1>3, <2>1 DEF Dominates
  <1>5. PICK j : j = [tokens |-> v - Token, last |-> at]
    OBVIOUS
  <1>6. c = [tokens |-> u - Token, last |-> at] /\ Charge(i, o, at) = j
    BY <1>3, <1>5 DEF Charge
  <1>7. /\ c \in Bucket /\ j \in Bucket /\ c # NoBucket /\ j # NoBucket
        /\ j.tokens \in Nat /\ j.last = at
    BY <1>1, <1>3, <1>4, <1>5, <1>6 DEF Bucket, NoBucket
  <1>8. Dominates(c, j, o, at)
    <2>1. PICK x \in Int, y \in Int : x = u - Token /\ y = v - Token /\ x <= y
      BY <1>1, <1>3, <1>4
    <2>2. Dominates([tokens |-> x, last |-> at], [tokens |-> y, last |-> at], o, at)
      BY <2>1, ChargeDominates
    <2> QED BY <1>5, <1>6, <2>1, <2>2
  <1> QED BY <1>2, <1>6, <1>7, <1>8 DEF KeyOK

\* A token is given back in both, or in the ideal limiter alone.
LEMMA KeyReturns ==
    ASSUME NEW o \in Operations, NEW b, NEW p, NEW i, NEW st, NEW n \in Int,
           KeyOK(b, p, i, o, st, n), i # NoBucket
    PROVE  KeyOK(b, p, Return(i, o), o, st, n) /\ Return(i, o) # NoBucket
  <1>1. i \in Bucket /\ i.tokens \in Nat /\ i.last \in Nat /\ i.last <= n
    BY DEF KeyOK
  <1>2. PICK j \in Bucket : /\ j = Return(i, o) /\ j.last = i.last
                            /\ j.tokens = IF Capacity[o] <= i.tokens + Token
                                          THEN Capacity[o] ELSE i.tokens + Token
    BY <1>1, ReturnIs
  <1>3. j.tokens \in Nat /\ j # NoBucket
    BY <1>1, <1>2, Rates DEF NoBucket
  <1>4. PICK e \in Bucket : e = IF b # NoBucket THEN b ELSE p
    BY DEF KeyOK
  <1>5. Dominates(e, i, o, n)
    BY <1>4 DEF KeyOK
  <1>6. Dominates(e, j, o, n)
    BY <1>1, <1>2, <1>5, ReturnMore
  <1> QED BY <1>1, <1>2, <1>3, <1>4, <1>6 DEF KeyOK

LEMMA KeyRefunds ==
    ASSUME NEW o \in Operations, NEW b, NEW p, NEW i, NEW st, NEW n \in Int,
           NEW t \in Nat, t >= n,
           KeyOK(b, p, i, o, st, n), b # NoBucket, i # NoBucket,
           NEW c, c = [last |-> t, tokens |-> Min({Capacity[o], Level(b, o, t) + Token})]
    PROVE  KeyOK(c, p, Return(i, o), o, st, t) /\ c # NoBucket
  <1>1. KeyOK(b, p, i, o, st, t)
    BY KeyLater
  <1>2. KeyOK(b, p, Return(i, o), o, st, t)
    BY <1>1, KeyReturns
  <1>3. /\ b \in Bucket /\ i \in Bucket /\ i.last \in Nat /\ i.last <= t
        /\ Dominates(b, i, o, t)
    BY <1>1 DEF KeyOK
  <1>4. Level(b, o, t) <= Level(i, o, t) /\ Level(b, o, t) \in Int
    BY <1>3, LevelIs DEF Dominates
  <1>5. PICK m \in Int : m = Min({Capacity[o], Level(b, o, t) + Token})
    <2>1. PICK u \in Int, v \in Int : u = Capacity[o] /\ v = Level(b, o, t) + Token
      BY <1>4, Rates
    <2>2. Min({u, v}) \in Int
      BY MinOfTwo
    <2> QED BY <2>1, <2>2
  <1>6. c = [last |-> t, tokens |-> m]
    BY <1>5
  <1>7. Dominates(c, Return(i, o), o, t)
    BY <1>3, <1>4, <1>5, <1>6, ReturnDominates
  <1>8. c \in Bucket /\ c # NoBucket
    BY <1>6 DEF Bucket, NoBucket
  <1> QED BY <1>2, <1>7, <1>8 DEF KeyOK

-----------------------------------------------------------------------------
(***************************************************************************)
(* The table of one operation.                                             *)
(***************************************************************************)
Buckets == [Keys -> Bucket]
Table == [own : Buckets, prev : Buckets, now : Int, start : Int, gen : Int]

\* n: the last time, or the one that is about to become it.
TableOK(s, id, o, n) ==
    /\ s \in Table /\ id \in Buckets /\ n \in Int /\ -1 <= s.start /\ s.start <= n
    /\ \A k \in Keys : KeyOK(s.own[k], s.prev[k], id[k], o, s.start, n)
    /\ subjectCount(s) <= MaxSubjects

Filled(f) == {k \in Subjects : f[k] # NoBucket}

LEMMA FilledCount ==
    ASSUME NEW f
    PROVE  IsFiniteSet(Filled(f)) /\ Cardinality(Filled(f)) \in Nat
  <1>1. Filled(f) \subseteq Subjects
    BY DEF Filled
  <1>2. IsFiniteSet(Filled(f))
    BY <1>1, LimiterAssumption, FS_Subset
  <1> QED BY <1>2, FS_CardinalityType

LEMMA FilledEntry ==
    ASSUME NEW f \in Buckets, NEW k \in Keys, NEW b, NEW g, g = [f EXCEPT ![k] = b]
    PROVE  /\ k \notin Subjects \/ (f[k] # NoBucket <=> b # NoBucket)
                => Cardinality(Filled(g)) = Cardinality(Filled(f))
           /\ Cardinality(Filled(g)) <= Cardinality(Filled(f)) + 1
           /\ k \in Subjects /\ f[k] # NoBucket /\ b = NoBucket
                => Cardinality(Filled(g)) = Cardinality(Filled(f)) - 1
  <1>1. Subjects \subseteq Keys
    BY DEF Keys
  <1>2. \A x \in Keys : g[x] = IF x = k THEN b ELSE f[x]
    BY DEF Buckets
  <1>3. IsFiniteSet(Filled(f)) /\ Cardinality(Filled(f)) \in Nat
    BY FilledCount
  <1>4. CASE k \notin Subjects \/ (f[k] # NoBucket <=> b # NoBucket)
    <2>1. Filled(g) = Filled(f)
      BY <1>1, <1>2, <1>4 DEF Filled
    <2> QED BY <1>3, <1>4, <2>1
  <1>5. CASE k \in Subjects /\ f[k] = NoBucket /\ b # NoBucket
    <2>1. Filled(g) = Filled(f) \cup {k} /\ k \notin Filled(f)
      BY <1>1, <1>2, <1>5 DEF Filled
    <2>2. Cardinality(Filled(g)) = Cardinality(Filled(f)) + 1
      BY <1>3, <2>1, FS_AddElement
    <2> QED BY <1>3, <1>5, <2>2
  <1>6. CASE k \in Subjects /\ f[k] # NoBucket /\ b = NoBucket
    <2>1. Filled(g) = Filled(f) \ {k} /\ k \in Filled(f)
      BY <1>1, <1>2, <1>6 DEF Filled
    <2>2. Cardinality(Filled(g)) = Cardinality(Filled(f)) - 1
      BY <1>3, <2>1, FS_RemoveElement
    <2> QED BY <1>3, <1>6, <2>2
  <1> QED BY <1>4, <1>5, <1>6

LEMMA FreshEmpty ==
    /\ Fresh \in Buckets /\ Cardinality(Filled(Fresh)) = 0
    /\ \A k \in Keys : Fresh[k] = NoBucket
  <1>1. Fresh \in Buckets /\ \A k \in Keys : Fresh[k] = NoBucket
    BY NoBucketType DEF Fresh, Buckets
  <1>2. Filled(Fresh) = {}
    BY <1>1 DEF Filled, Keys
  <1> QED BY <1>1, <1>2, FS_EmptySet

LEMMA CountIs ==
    ASSUME NEW s
    PROVE  subjectCount(s) = Cardinality(Filled(s.own)) + Cardinality(Filled(s.prev))
  BY DEF subjectCount, Filled

LEMMA WholePart ==
    ASSUME NEW e \in Nat, NEW d \in Nat \ {0}, e >= d, ~(e \div d >= 2)
    PROVE  e - (e % d) = d
  OBVIOUS

\* After rotateGeneration the time lies within the generation.
LEMMA RotateOK ==
    ASSUME NEW o \in Operations, NEW s, NEW id, NEW n, TableOK(s, id, o, n),
           NEW at \in Nat, at >= n, NEW r, r = rotateGeneration(s, o, at)
    PROVE  TableOK(r, id, o, at) /\ r.start # -1 /\ at < r.start + TTL(o)
  <1>1. /\ s \in Table /\ id \in Buckets /\ n \in Int /\ -1 <= s.start /\ s.start <= n
        /\ s.start \in Int
        /\ \A k \in Keys : KeyOK(s.own[k], s.prev[k], id[k], o, s.start, n)
        /\ Cardinality(Filled(s.own)) + Cardinality(Filled(s.prev)) <= MaxSubjects
    BY CountIs DEF TableOK, Table
  <1>2. MaxSubjects \in Nat /\ TTL(o) \in Nat \ {0}
    BY Rates, LimiterAssumption
  <1>3. /\ Cardinality(Filled(s.own)) \in Nat /\ Cardinality(Filled(s.prev)) \in Nat
        /\ s.own \in Buckets /\ s.prev \in Buckets
    BY <1>1, FilledCount DEF Table
  <1>4. PICK d \in Nat \ {0} : d = TTL(o)
    BY <1>2
  <1>5. CASE s.start = -1
    <2>1. r = [s EXCEPT !.start = at]
      BY <1>5 DEF rotateGeneration
    <2>2. r \in Table /\ r.own = s.own /\ r.prev = s.prev /\ r.start = at
      BY <1>1, <2>1 DEF Table
    <2>3. \A k \in Keys : KeyOK(r.own[k], r.prev[k], id[k], o, r.start, at)
      BY <1>1, <1>5, <2>2, KeyFirst
    <2>4. subjectCount(r) <= MaxSubjects
      BY <1>1, <2>2, CountIs
    <2> QED BY <1>1, <1>2, <2>2, <2>3, <2>4 DEF TableOK
  <1>6. CASE s.start # -1 /\ at - s.start < TTL(o)
    <2>1. r = s
      BY <1>6 DEF rotateGeneration
    <2>2. \A k \in Keys : KeyOK(s.own[k], s.prev[k], id[k], o, s.start, at)
      BY <1>1, KeyLater
    <2>3. TableOK(r, id, o, at)
      BY <1>1, <2>1, <2>2 DEF TableOK
    <2> QED BY <1>1, <1>2, <1>6, <2>1, <2>3
  <1>7. CASE s.start # -1 /\ ~(at - s.start < TTL(o))
    <2>1. PICK e \in Nat : e = at - s.start /\ e >= d
      BY <1>1, <1>4, <1>7
    <2>2. PICK q \in Int, m \in 0..(d - 1) : q = e \div d /\ m = e % d
      BY <2>1
    <2>3. PICK p : p = IF q >= 2 THEN Fresh ELSE s.own
      OBVIOUS
    <2>4. r = [s EXCEPT !.prev = p, !.own = Fresh, !.gen = s.gen + 1, !.start = at - m]
      BY <1>1, <1>4, <1>7, <2>1, <2>2, <2>3 DEF rotateGeneration, Table
    <2>5. p \in Buckets
      BY <1>3, <2>3, FreshEmpty
    <2>6. /\ r \in Table /\ r.own = Fresh /\ r.prev = p /\ r.start = at - m
      <3>1. PICK f \in Buckets : f = Fresh
        BY FreshEmpty
      <3>2. PICK g \in Int, a \in Int : g = s.gen + 1 /\ a = at - m
        BY <1>1 DEF Table
      <3>3. r = [s EXCEPT !.prev = p, !.own = f, !.gen = g, !.start = a]
        BY <2>4, <3>1, <3>2
      <3>4. r \in Table /\ r.own = f /\ r.prev = p /\ r.start = a
        BY <1>1, <2>5, <3>3 DEF Table
      <3> QED BY <3>1, <3>2, <3>4
    <2>7. subjectCount(r) <= MaxSubjects
      <3>1. Cardinality(Filled(p)) <= MaxSubjects /\ Cardinality(Filled(p)) \in Nat
        BY <1>1, <1>2, <1>3, <2>3, FreshEmpty
      <3> QED BY <2>6, <3>1, FreshEmpty, CountIs
    <2>8. ASSUME NEW k \in Keys
          PROVE  KeyOK(r.own[k], r.prev[k], id[k], o, r.start, at)
      <3>1. r.own[k] = NoBucket
        BY <2>6, FreshEmpty
      <3>2. CASE q >= 2
        <4>1. e >= 2 * d
          BY <2>1, <2>2, <3>2
        <4>2. at - s.start >= 2 * TTL(o)
          BY <1>4, <2>1, <4>1
        <4>3. r.prev[k] = NoBucket
          BY <2>3, <2>6, <3>2, FreshEmpty
        <4>4. KeyOK(s.own[k], s.prev[k], id[k], o, s.start, n)
          BY <1>1
        <4> QED BY <1>1, <1>7, <3>1, <4>2, <4>3, <4>4, KeyDropped
      <3>3. CASE ~(q >= 2)
        <4>1. e - m = d
          BY <2>1, <2>2, <3>3, WholePart
        <4>2. r.start = s.start + TTL(o)
          BY <1>1, <1>4, <2>1, <2>6, <4>1
        <4>3. r.prev[k] = s.own[k]
          BY <2>3, <2>6, <3>3
        <4>4. KeyOK(s.own[k], s.prev[k], id[k], o, s.start, n)
          BY <1>1
        <4>5. at - s.start >= TTL(o)
          BY <1>4, <2>1
        <4>6. KeyOK(NoBucket, s.own[k], id[k], o, s.start + TTL(o), at)
          BY <1>1, <1>7, <4>4, <4>5, KeyRotates
        <4> QED BY <3>1, <4>2, <4>3, <4>6
      <3> QED BY <3>2, <3>3
    <2>9. -1 < at - m /\ at - m <= at /\ at < at - m + TTL(o)
      <3>1. e - m >= 0
        BY <2>1, <2>2
      <3> QED BY <1>1, <1>4, <1>7, <2>1, <2>2, <3>1
    <2> QED BY <1>1, <2>6, <2>7, <2>8, <2>9 DEF TableOK
  <1> QED BY <1>5, <1>6, <1>7

\* subjectBucket leaves the key in the present generation, or without a bucket.
LEMMA MoveOK ==
    ASSUME NEW o \in Operations, NEW s, NEW id, NEW n, TableOK(s, id, o, n),
           NEW k \in Keys, NEW r, r = subjectBucket(s, k)
    PROVE  /\ TableOK(r, id, o, n) /\ r.start = s.start
           /\ r.own[k] # NoBucket \/ r.prev[k] = NoBucket
           /\ s.own[k] # NoBucket \/ s.prev[k] = NoBucket => r = s
           /\ k \notin Subjects => subjectCount(r) = subjectCount(s)
           /\ \A x \in Keys \ {k} : r.own[x] = s.own[x] /\ r.prev[x] = s.prev[x]
  <1>1. CASE ~(s.own[k] = NoBucket /\ s.prev[k] # NoBucket)
    BY <1>1 DEF subjectBucket
  <1>2. CASE s.own[k] = NoBucket /\ s.prev[k] # NoBucket
    <2>1. /\ s \in Table /\ s.own \in Buckets /\ s.prev \in Buckets /\ s.start \in Int
          /\ Cardinality(Filled(s.own)) + Cardinality(Filled(s.prev)) <= MaxSubjects
      BY CountIs DEF TableOK, Table
    <2>2. PICK f, g : f = [s.own EXCEPT ![k] = s.prev[k]]
                      /\ g = [s.prev EXCEPT ![k] = NoBucket]
      OBVIOUS
    <2>3. r = [s EXCEPT !.own = f, !.prev = g]
      BY <1>2, <2>1, <2>2 DEF subjectBucket, Table
    <2>4. /\ f \in Buckets /\ g \in Buckets /\ f[k] = s.prev[k] /\ g[k] = NoBucket
          /\ \A x \in Keys \ {k} : f[x] = s.own[x] /\ g[x] = s.prev[x]
      BY <2>1, <2>2, NoBucketType DEF Buckets
    <2>5. r \in Table /\ r.own = f /\ r.prev = g /\ r.start = s.start
      BY <2>1, <2>3, <2>4 DEF Table
    <2>6. /\ subjectCount(r) <= MaxSubjects
          /\ k \notin Subjects => subjectCount(r) = subjectCount(s)
      <3>1. PICK a \in Nat, b \in Nat, c \in Nat, d \in Nat :
              /\ a = Cardinality(Filled(s.own)) /\ b = Cardinality(Filled(s.prev))
              /\ c = Cardinality(Filled(f)) /\ d = Cardinality(Filled(g))
        BY FilledCount
      <3>2. CASE k \in Subjects
        <4>1. d = b - 1
          BY <1>2, <2>1, <2>2, <3>1, <3>2, FilledEntry
        <4>2. c <= a + 1
          BY <2>1, <2>2, <3>1, FilledEntry
        <4>3. c + d <= MaxSubjects
          BY <2>1, <3>1, <4>1, <4>2, LimiterAssumption
        <4> QED BY <2>5, <3>1, <3>2, <4>3, CountIs
      <3>3. CASE k \notin Subjects
        <4>1. d = b
          BY <2>1, <2>2, <3>1, <3>3, FilledEntry
        <4>2. c = a
          BY <2>1, <2>2, <3>1, <3>3, FilledEntry
        <4> QED BY <2>1, <2>5, <3>1, <4>1, <4>2, CountIs
      <3> QED BY <3>2, <3>3
    <2>7. \A x \in Keys : KeyOK(r.own[x], r.prev[x], id[x], o, r.start, n)
      <3>1. ASSUME NEW x \in Keys
            PROVE  KeyOK(r.own[x], r.prev[x], id[x], o, r.start, n)
        <4>1. KeyOK(s.own[x], s.prev[x], id[x], o, s.start, n)
          BY DEF TableOK
        <4>2. CASE x = k
          BY <1>2, <2>1, <2>4, <2>5, <4>1, <4>2, KeyMoves
        <4>3. CASE x # k
          BY <2>4, <2>5, <4>1, <4>3
        <4> QED BY <4>2, <4>3
      <3> QED BY <3>1
    <2>8. TableOK(r, id, o, n)
      BY <2>5, <2>6, <2>7 DEF TableOK
    <2> QED BY <1>2, <2>4, <2>5, <2>6, <2>8
  <1> QED BY <1>1, <1>2

SetNow(s, n) == [s EXCEPT !.now = n]
SpendAt(s, k, lev, n) == [s EXCEPT !.own[k] = [tokens |-> lev - Token, last |-> n]]
ChargeAt(id, k, o, n) == [id EXCEPT ![k] = Charge(@, o, n)]

\* One operation of a reservation: the bucket that serves subject k, which has
\* no more than the ideal one, and what remains when a token is spent.
LEMMA ServeOK ==
    ASSUME NEW o \in Operations, NEW s, NEW id, TableOK(s, id, o, s.now),
           NEW k \in Subjects, NEW at \in Nat, at >= s.now,
           NEW f, f = subjectBucket(rotateGeneration(s, o, at), k),
           NEW key, key = ServingKey(f, k),
           NEW st, st = SetNow(subjectBucket(f, key), at),
           NEW lev, lev = Level(st.own[key], o, at)
    PROVE  /\ key \in Keys /\ st.now = at /\ lev \in Int
           /\ TableOK(st, id, o, at)
           /\ lev >= Token =>
                TableOK(SpendAt(st, key, lev, at), ChargeAt(id, key, o, at), o, at)
  <1>1. PICK r : r = rotateGeneration(s, o, at)
    OBVIOUS
  <1>2. TableOK(r, id, o, at) /\ r.start # -1 /\ at < r.start + TTL(o)
    BY <1>1, RotateOK
  <1>3. k \in Keys /\ Overflow \in Keys /\ Overflow \notin Subjects
    BY LimiterAssumption DEF Keys
  <1>4. /\ TableOK(f, id, o, at) /\ f.start = r.start
        /\ f.own[k] # NoBucket \/ f.prev[k] = NoBucket
    BY <1>1, <1>2, <1>3, MoveOK
  <1>5. key \in {k, Overflow} /\ key \in Keys
    BY <1>3 DEF ServingKey
  <1>6. PICK g : g = subjectBucket(f, key)
    OBVIOUS
  <1>7. /\ TableOK(g, id, o, at) /\ g.start = r.start
        /\ g.own[key] # NoBucket \/ g.prev[key] = NoBucket
    BY <1>4, <1>5, <1>6, MoveOK
  <1>8. key \in Subjects /\ g.own[key] = NoBucket => subjectCount(g) < MaxSubjects
    <2>1. SUFFICES ASSUME key \in Subjects, g.own[key] = NoBucket
                   PROVE  subjectCount(g) < MaxSubjects
      OBVIOUS
    <2>2. key = k
      BY <1>3, <1>5, <2>1
    <2>3. g = f
      BY <1>3, <1>4, <1>6, <2>2, MoveOK
    <2> QED BY <1>3, <2>1, <2>2, <2>3 DEF ServingKey
  <1>9. /\ st \in Table /\ st.own = g.own /\ st.prev = g.prev /\ st.start = g.start
        /\ st.now = at /\ g \in Table
    BY <1>6, <1>7 DEF TableOK, Table, SetNow
  <1>10. subjectCount(st) = subjectCount(g)
    BY <1>9, CountIs
  <1>11. TableOK(st, id, o, at)
    BY <1>7, <1>9, <1>10 DEF TableOK
  <1>12. st.own[key] \in Bucket /\ st.own \in Buckets /\ id \in Buckets /\ st.start \in Int
    BY <1>5, <1>9, <1>11 DEF TableOK, Table, Buckets
  <1>13. lev \in Int
    BY <1>12, LevelIs
  <1>14. ASSUME lev >= Token
         PROVE  TableOK([st EXCEPT !.own[key] = [tokens |-> lev - Token, last |-> at]],
                        [id EXCEPT ![key] = Charge(@, o, at)], o, at)
    <2>1. PICK c : c = [tokens |-> lev - Token, last |-> at]
      OBVIOUS
    <2>2. PICK i : i = Charge(id[key], o, at)
      OBVIOUS
    <2>3. KeyOK(st.own[key], st.prev[key], id[key], o, st.start, at)
      BY <1>5, <1>11 DEF TableOK
    <2>4. KeyOK(c, st.prev[key], i, o, st.start, at)
      BY <1>2, <1>7, <1>9, <1>12, <1>14, <2>1, <2>2, <2>3, KeySpends
    <2>5. c \in Bucket /\ i \in Bucket
      BY <2>4 DEF KeyOK
    <2>6. PICK h : h = [st.own EXCEPT ![key] = c]
      OBVIOUS
    <2>7. PICK j : j = [id EXCEPT ![key] = i]
      OBVIOUS
    <2>8. /\ h \in Buckets /\ j \in Buckets /\ h[key] = c /\ j[key] = i
          /\ \A x \in Keys \ {key} : h[x] = st.own[x] /\ j[x] = id[x]
      BY <1>5, <1>12, <2>5, <2>6, <2>7 DEF Buckets
    <2>9. PICK z : z = [st EXCEPT !.own = h]
      OBVIOUS
    <2>10. z = [st EXCEPT !.own[key] = [tokens |-> lev - Token, last |-> at]]
      BY <1>9, <2>1, <2>6, <2>9 DEF Table
    <2>11. z \in Table /\ z.own = h /\ z.prev = st.prev /\ z.start = st.start
      BY <1>9, <2>8, <2>9 DEF Table
    <2>12. \A x \in Keys : KeyOK(z.own[x], z.prev[x], j[x], o, z.start, at)
      <3>1. ASSUME NEW x \in Keys
            PROVE  KeyOK(z.own[x], z.prev[x], j[x], o, z.start, at)
        <4>1. KeyOK(st.own[x], st.prev[x], id[x], o, st.start, at)
          BY <1>11 DEF TableOK
        <4>2. CASE x = key
          BY <2>4, <2>8, <2>11, <4>2
        <4>3. CASE x # key
          BY <2>8, <2>11, <4>1, <4>3
        <4> QED BY <4>2, <4>3
      <3> QED BY <3>1
    <2>13. subjectCount(z) <= MaxSubjects
      <3>1. PICK a \in Nat, b \in Nat, d \in Nat :
              /\ a = Cardinality(Filled(st.own)) /\ b = Cardinality(Filled(st.prev))
              /\ d = Cardinality(Filled(h))
        BY FilledCount
      <3>2. subjectCount(st) = a + b /\ subjectCount(z) = d + b
        BY <2>11, <3>1, CountIs
      <3>3. subjectCount(st) <= MaxSubjects /\ MaxSubjects \in Nat
        BY <1>11, LimiterAssumption DEF TableOK
      <3>4. CASE key \in Subjects /\ st.own[key] = NoBucket
        <4>1. a + b < MaxSubjects
          BY <1>8, <1>9, <1>10, <3>2, <3>4
        <4>2. d <= a + 1
          BY <1>5, <1>12, <2>6, <3>1, FilledEntry
        <4> QED BY <3>2, <3>3, <4>1, <4>2
      <3>5. CASE key \notin Subjects \/ st.own[key] # NoBucket
        <4>1. c # NoBucket
          BY <2>1 DEF NoBucket
        <4>3. key \notin Subjects \/ (st.own[key] # NoBucket <=> c # NoBucket)
          BY <3>5, <4>1
        <4>2. d = a
          BY <1>5, <1>12, <2>6, <3>1, <4>3, FilledEntry
        <4> QED BY <3>2, <3>3, <4>2
      <3> QED BY <3>4, <3>5
    <2>14. TableOK(z, j, o, at)
      BY <1>11, <2>8, <2>11, <2>12, <2>13 DEF TableOK
    <2>15. [id EXCEPT ![key] = Charge(@, o, at)] = j
      BY <1>12, <2>2, <2>7
    <2> QED BY <2>10, <2>14, <2>15
  <1> QED BY <1>5, <1>9, <1>11, <1>13, <1>14 DEF SpendAt, ChargeAt

-----------------------------------------------------------------------------
(***************************************************************************)
(* Reserve and Refund, over all operations.                                *)
(***************************************************************************)
TablesOK(L, I) ==
    /\ L = [o \in Operations |-> L[o]] /\ I = [o \in Operations |-> I[o]]
    /\ \A o \in Operations : TableOK(L[o], I[o], o, L[o].now)

LEMMA WantedIs ==
    ASSUME NEW a \in Attempts
    PROVE  \E p, q \in Operations :
             /\ DOMAIN Wanted(a) = {p, q}
             /\ Wanted(a)[p] \in Subjects /\ Wanted(a)[q] \in Subjects
  <1>1. a.source \in Subjects /\ a.principal \in Subjects
    BY AttemptsAssumption
  <1>2. CASE a.kind # "reverify"
    <2>1. Wanted(a) = [LoginSource |-> a.source, AuthFailure |-> a.principal]
      BY <1>2 DEF Wanted
    <2>2. /\ DOMAIN Wanted(a) = {"LoginSource", "AuthFailure"}
          /\ Wanted(a)["LoginSource"] = a.source
          /\ Wanted(a)["AuthFailure"] = a.principal
      BY <2>1
    <2> QED BY <1>1, <2>2, AttemptsAssumption
  <1>3. CASE a.kind = "reverify"
    <2>1. Wanted(a) = [ReverifySource |-> a.source, ReverifyPrincipal |-> a.principal]
      BY <1>3 DEF Wanted
    <2>2. /\ DOMAIN Wanted(a) = {"ReverifySource", "ReverifyPrincipal"}
          /\ Wanted(a)["ReverifySource"] = a.source
          /\ Wanted(a)["ReverifyPrincipal"] = a.principal
      BY <2>1
    <2> QED BY <1>1, <2>2, AttemptsAssumption
  <1> QED BY <1>2, <1>3

\* No wait: every bucket has a token.
LEMMA NoWait ==
    ASSUME NEW S \in SUBSET Nat, NEW u, NEW v, S \subseteq {u, v},
           retryAfter(S) = 0, NEW w \in S
    PROVE  w = 0
  <1>0. PICK R : R = {0} \cup S
    BY Zenon
  <1>1. R \in SUBSET Nat /\ R = {0} \cup S
    BY <1>0
  <1>2. \E x \in R : \A y \in R : x >= y
    <2>1. CASE u \in S /\ v \in S
      BY <1>1, <2>1
    <2>2. CASE u \in S /\ v \notin S
      BY <1>1, <2>2
    <2>3. CASE u \notin S /\ v \in S
      BY <1>1, <2>3
    <2> QED BY <2>1, <2>2, <2>3
  <1>3. Max(R) \in R /\ \A y \in R : Max(R) >= y
    BY <1>2, Zenon DEF Max
  <1>4. Max(R) = 0
    BY <1>1 DEF retryAfter
  <1> QED BY <1>1, <1>3, <1>4

LEMMA ReserveOK ==
    ASSUME NEW L, NEW I, TablesOK(L, I), NEW a \in Attempts, NEW t \in Nat,
           NEW d, d = Reserve(L, Wanted(a), t)
    PROVE  /\ \A o \in Operations : d.lim[o].now \in {L[o].now, t}
           /\ ~d.ok => TablesOK(d.lim, I)
           /\ d.ok => /\ \A o \in DOMAIN d.items : /\ d.items[o].key \in Keys
                                                   /\ d.lim[o].now \in Nat
                      /\ DOMAIN d.items \subseteq Operations
                      /\ TablesOK(d.lim, [o \in Operations |-> [k \in Keys |->
                           IF o \in DOMAIN d.items /\ d.items[o].key = k
                           THEN Charge(I[o][k], o, d.lim[o].now) ELSE I[o][k]]])
  <1> DEFINE
        want == Wanted(a)
        ops == DOMAIN want
        late == Max({L[o].now - t : o \in ops})
        at == [o \in ops |-> Max({L[o].now, t})]
        found == [o \in ops |->
                    subjectBucket(rotateGeneration(L[o], o, at[o]), want[o])]
        key == [o \in ops |-> ServingKey(found[o], want[o])]
        state == [o \in ops |->
                    [subjectBucket(found[o], key[o]) EXCEPT !.now = at[o]]]
        level == [o \in ops |-> Level(state[o].own[key[o]], o, at[o])]
        waits == {CeilDiv(Token - level[o], Refill[o]) : o \in {p \in ops : level[p] < Token}}
        wait == retryAfter(waits)
        Spent(o) == [state[o] EXCEPT !.own[key[o]] =
                       [tokens |-> level[o] - Token, last |-> at[o]]]
        items == [o \in ops |-> [key |-> key[o], gen |-> state[o].gen]]
        after == [o \in Operations |->
                         IF o \notin ops THEN L[o]
                         ELSE IF wait = 0 THEN Spent(o) ELSE state[o]]
        charged == [o \in Operations |-> [k \in Keys |->
                           IF o \in DOMAIN d.items /\ d.items[o].key = k
                           THEN Charge(I[o][k], o, d.lim[o].now) ELSE I[o][k]]]
  <1>1. d = IF late >= Skew
            THEN [ok |-> FALSE, skew |-> TRUE, wait |-> late, lim |-> L, items |-> <<>>]
            ELSE [ok |-> wait = 0, skew |-> FALSE, wait |-> wait,
                  lim |-> after, items |-> items]
    BY Zenon DEF Reserve
  <1>2. PICK p, q \in Operations : /\ ops = {p, q}
                                   /\ want[p] \in Subjects /\ want[q] \in Subjects
    BY WantedIs
  <1>3. ASSUME NEW o \in ops
        PROVE  /\ o \in Operations /\ want[o] \in Subjects /\ L[o].now \in Int
               /\ TableOK(L[o], I[o], o, L[o].now)
               /\ at[o] \in Nat /\ at[o] >= L[o].now /\ at[o] \in {L[o].now, t}
    <2>1. o \in Operations /\ want[o] \in Subjects
      BY <1>2, <1>3
    <2>2. TableOK(L[o], I[o], o, L[o].now)
      BY <2>1 DEF TablesOK
    <2>3. L[o].now \in Int
      BY <2>2 DEF TableOK
    <2>4. Max({L[o].now, t}) = IF L[o].now >= t THEN L[o].now ELSE t
      BY <2>3, MaxOfTwo
    <2> QED BY <2>1, <2>2, <2>3, <2>4
  <1>4. ASSUME NEW o \in ops
        PROVE  /\ key[o] \in Keys /\ state[o].now = at[o] /\ level[o] \in Int
               /\ TableOK(state[o], I[o], o, at[o])
               /\ level[o] >= Token =>
                    TableOK(Spent(o), [I[o] EXCEPT ![key[o]] = Charge(@, o, at[o])], o, at[o])
    <2>1. PICK f : f = subjectBucket(rotateGeneration(L[o], o, at[o]), want[o])
      OBVIOUS
    <2>2. PICK ky : ky = ServingKey(f, want[o])
      OBVIOUS
    <2>3. PICK st : st = [subjectBucket(f, ky) EXCEPT !.now = at[o]]
      OBVIOUS
    <2>4. PICK lev : lev = Level(st.own[ky], o, at[o])
      OBVIOUS
    <2>5. key[o] = ky /\ state[o] = st /\ level[o] = lev
      <3>1. found[o] = f
        BY <2>1
      <3>2. key[o] = ky
        BY <2>2, <3>1
      <3>3. state[o] = st
        BY <2>3, <3>1, <3>2
      <3> QED BY <2>4, <3>2, <3>3
    <2>6. PICK s, id, n, k : s = L[o] /\ id = I[o] /\ n = at[o] /\ k = want[o]
      OBVIOUS
    <2> HIDE DEF want, at
    <2>7. /\ ky \in Keys /\ st.now = n /\ lev \in Int
          /\ TableOK(st, id, o, n)
          /\ lev >= Token =>
               TableOK(SpendAt(st, ky, lev, n), ChargeAt(id, ky, o, n), o, n)
      <3>1. o \in Operations /\ k \in Subjects /\ TableOK(s, id, o, s.now)
            /\ n \in Nat /\ n >= s.now
        BY <1>3, <2>6
      <3>2. f = subjectBucket(rotateGeneration(s, o, n), k) /\ ky = ServingKey(f, k)
            /\ st = SetNow(subjectBucket(f, ky), n)
            /\ lev = Level(st.own[ky], o, n)
        BY <2>1, <2>2, <2>3, <2>4, <2>6, Zenon DEF SetNow
      <3> HIDE DEF found, key, state, level, waits, wait, Spent, items, after, charged, late
      <3> QED BY <3>1, <3>2, ServeOK
    <2> HIDE DEF found, key, state, level, waits, wait, items, after, charged, late
    <2>8. Spent(o) = SpendAt(st, ky, lev, n)
      BY <2>5, <2>6, Zenon DEF SpendAt
    <2>9. ChargeAt(id, ky, o, n) = [I[o] EXCEPT ![key[o]] = Charge(@, o, at[o])]
      BY <2>5, <2>6, Zenon DEF ChargeAt
    <2> HIDE DEF Spent
    <2> QED BY <2>5, <2>6, <2>7, <2>8, <2>9
  <1>5. CASE late >= Skew
    <2> HIDE DEF late, wait, after, items
    <2> QED BY <1>1, <1>5
  <1>6. CASE ~(late >= Skew) /\ wait # 0
    <2>1. ~d.ok /\ d.lim = after
      <3> HIDE DEF late, wait, after, items
      <3>1. PICK b \in BOOLEAN : b = (wait = 0)
        BY Zenon
      <3>2. d = [ok |-> b, skew |-> FALSE, wait |-> wait, lim |-> after, items |-> items]
        BY <1>1, <1>6, <3>1, Zenon
      <3>3. d.ok = b /\ d.lim = after /\ d.items = items
        BY <3>2
      <3> QED BY <1>6, <3>1, <3>3, Zenon
    <2>2. TablesOK(after, I)
      <3>1. ASSUME NEW o \in Operations PROVE TableOK(after[o], I[o], o, after[o].now)
        <4>1. CASE o \notin ops
          BY <4>1, Zenon DEF TablesOK
        <4>2. CASE o \in ops
          <5>1. after[o] = state[o]
            BY <1>6, <4>2, Zenon
          <5> HIDE DEF ops, state, after, at
          <5> QED BY <1>4, <4>2, <5>1, Zenon
        <4> QED BY <4>1, <4>2, Zenon
      <3>2. after = [o \in Operations |-> after[o]]
        <4> HIDE DEF ops, wait, state, Spent
        <4> QED OBVIOUS
      <3> HIDE DEF after
      <3> QED BY <3>1, <3>2 DEF TablesOK
    <2>3. ASSUME NEW o \in Operations PROVE after[o].now \in {L[o].now, t}
      <3>1. CASE o \notin ops
        <4>1. after[o] = L[o]
          BY <3>1, Zenon
        <4> HIDE DEF after
        <4> QED BY <4>1
      <3>2. CASE o \in ops
        <4>1. after[o] = state[o]
          BY <1>6, <3>2, Zenon
        <4> HIDE DEF ops, state, after, at
        <4> QED BY <1>3, <1>4, <3>2, <4>1, Zenon
      <3> QED BY <3>1, <3>2, Zenon
    <2> HIDE DEF after
    <2> QED BY <2>1, <2>2, <2>3, Zenon
  <1>7. CASE ~(late >= Skew) /\ wait = 0
    <2>1. d.ok /\ d.lim = after /\ d.items = items
      <3> HIDE DEF late, wait, after, items
      <3>1. PICK b \in BOOLEAN : b = (wait = 0)
        BY Zenon
      <3>2. d = [ok |-> b, skew |-> FALSE, wait |-> wait, lim |-> after, items |-> items]
        BY <1>1, <1>7, <3>1, Zenon
      <3>3. d.ok = b /\ d.lim = after /\ d.items = items
        BY <3>2
      <3> QED BY <1>7, <3>1, <3>3, Zenon
    <2>2. \A o \in ops : level[o] >= Token
      <3>1. SUFFICES ASSUME NEW o \in ops, level[o] < Token PROVE FALSE
        <4>1. \A o \in ops : level[o] \in Int
          BY <1>4, Zenon
        <4> HIDE DEF level, ops
        <4> QED BY <4>1, LimiterAssumption
      <3>2. ASSUME NEW x \in ops, level[x] < Token
            PROVE  CeilDiv(Token - level[x], Refill[x]) \in Nat \ {0}
        <4>1. PICK c : c = Token - level[x]
          OBVIOUS
        <4>2. level[x] \in Int /\ x \in Operations
          BY <1>3, <1>4, <3>2, Zenon
        <4> HIDE DEF level, ops
        <4>3. c \in Nat /\ c > 0 /\ Refill[x] \in Nat \ {0}
          BY <3>2, <4>1, <4>2, Rates
        <4>4. CeilDiv(c, Refill[x]) \in Nat /\ CeilDiv(c, Refill[x]) >= 1
          BY <4>3, CeilDivCovers
        <4> QED BY <4>1, <4>4
      <3> HIDE DEF level
      <3>3. waits \in SUBSET Nat
        BY <3>2
      <3>4. waits \subseteq {CeilDiv(Token - level[p], Refill[p]),
                             CeilDiv(Token - level[q], Refill[q])}
        BY <1>2
      <3>5. CeilDiv(Token - level[o], Refill[o]) \in waits
        BY <3>1
      <3>6. PICK w \in waits : w \in Nat \ {0}
        BY <3>1, <3>2, <3>5
      <3>7. PICK u, v : u = CeilDiv(Token - level[p], Refill[p])
                        /\ v = CeilDiv(Token - level[q], Refill[q])
        OBVIOUS
      <3>8. waits \subseteq {u, v} /\ retryAfter(waits) = 0
        BY <1>7, <3>4, <3>7
      <3> HIDE DEF waits
      <3>9. w = 0
        BY <3>3, <3>6, <3>8, NoWait
      <3> QED BY <3>6, <3>9
    <2>3. /\ \A o \in DOMAIN d.items : d.items[o].key \in Keys
          /\ DOMAIN d.items \subseteq Operations /\ DOMAIN d.items = ops
          /\ \A o \in ops : d.items[o].key = key[o]
      <3>1. DOMAIN items = ops /\ \A o \in ops : items[o].key = key[o]
        OBVIOUS
      <3>2. \A o \in ops : key[o] \in Keys /\ o \in Operations
        BY <1>3, <1>4, Zenon
      <3> HIDE DEF items, ops, key
      <3> QED BY <2>1, <3>1, <3>2, Zenon
    <2>7. ASSUME NEW o \in ops PROVE after[o].now = at[o] /\ at[o] \in Nat
      <3>1. after[o] = Spent(o)
        BY <1>3, <1>7, <2>7, Zenon
      <3>2. state[o].now = at[o] /\ state[o] \in Table /\ at[o] \in Nat
        <4> HIDE DEF state, at, ops
        <4> QED BY <1>3, <1>4, <2>7, Zenon DEF TableOK
      <3> HIDE DEF state, key, at, after
      <3> QED BY <3>1, <3>2 DEF Table
    <2>4. ASSUME NEW o \in Operations
          PROVE  TableOK(after[o], charged[o], o, after[o].now)
      <3>1. charged[o] = [k \in Keys |->
                           IF o \in DOMAIN d.items /\ d.items[o].key = k
                           THEN Charge(I[o][k], o, d.lim[o].now) ELSE I[o][k]]
        OBVIOUS
      <3>2. TableOK(L[o], I[o], o, L[o].now)
        BY DEF TablesOK
      <3>3. I[o] \in [Keys -> Bucket]
        BY <3>2 DEF TableOK, Buckets
      <3>4. CASE o \notin ops
        <4>1. after[o] = L[o]
          BY <3>4, Zenon
        <4>2. charged[o] = I[o]
          <5> HIDE DEF charged, ops
          <5> QED BY <2>3, <3>1, <3>3, <3>4
        <4> HIDE DEF after, charged
        <4> QED BY <3>2, <4>1, <4>2
      <3>5. CASE o \in ops
        <4>1. after[o] = Spent(o)
          BY <1>7, <3>5, Zenon
        <4>2. level[o] >= Token
          BY <2>2, <3>5
        <4> HIDE DEF after, level, ops
        <4>3. TableOK(Spent(o), [I[o] EXCEPT ![key[o]] = Charge(@, o, at[o])], o, at[o])
          BY <1>4, <3>5, <4>2, Zenon
        <4>4. after[o].now = at[o]
          BY <2>7, <3>5
        <4> HIDE DEF Spent, charged, key, at
        <4>5. charged[o] = [I[o] EXCEPT ![key[o]] = Charge(@, o, at[o])]
          <5>1. PICK i, ky, n : i = I[o] /\ ky = key[o] /\ n = at[o]
            OBVIOUS
          <5>2. charged[o] = [k \in Keys |-> IF ky = k THEN Charge(i[k], o, n) ELSE i[k]]
            BY <2>1, <2>3, <3>1, <3>5, <4>4, <5>1
          <5>3. [i EXCEPT ![ky] = Charge(@, o, n)]
                  = [k \in Keys |-> IF ky = k THEN Charge(i[k], o, n) ELSE i[k]]
            BY <3>3, <5>1
          <5> QED BY <5>1, <5>2, <5>3
        <4> QED BY <4>1, <4>3, <4>4, <4>5
      <3> QED BY <3>4, <3>5, Zenon
    <2>5. after = [o \in Operations |-> after[o]] /\ charged = [o \in Operations |-> charged[o]]
      <3> HIDE DEF ops, wait, state, Spent
      <3> QED OBVIOUS
    <2>6. TablesOK(after, charged)
      <3> HIDE DEF after, charged
      <3> QED BY <2>4, <2>5 DEF TablesOK
    <2>8. \A o \in DOMAIN d.items : d.lim[o].now \in Nat
      <3> HIDE DEF after, at, ops
      <3> QED BY <2>1, <2>3, <2>7
    <2>9. ASSUME NEW o \in Operations PROVE after[o].now \in {L[o].now, t}
      <3>1. CASE o \notin ops
        <4>1. after[o] = L[o]
          BY <3>1, Zenon
        <4> HIDE DEF after
        <4> QED BY <4>1
      <3>2. CASE o \in ops
        <4> HIDE DEF ops, after, at
        <4> QED BY <1>3, <2>7, <3>2, Zenon
      <3> QED BY <3>1, <3>2, Zenon
    <2> HIDE DEF after
    <2> QED BY <2>1, <2>3, <2>6, <2>8, <2>9, Zenon
  <1> QED BY <1>5, <1>6, <1>7, Zenon

RefundAt(s, h, t) == [s EXCEPT !.now = t, !.own = h]

LEMMA RefundTable ==
    ASSUME NEW s \in Table, NEW h \in Buckets, NEW t \in Int, NEW z, z = RefundAt(s, h, t)
    PROVE  z \in Table /\ z.own = h /\ z.prev = s.prev /\ z.start = s.start /\ z.now = t
  BY DEF Table, RefundAt

LEMMA FilledSame ==
    ASSUME NEW f \in Buckets, NEW k \in Keys, NEW b, NEW g, g = [f EXCEPT ![k] = b],
           f[k] # NoBucket, b # NoBucket
    PROVE  Cardinality(Filled(g)) = Cardinality(Filled(f))
  <1>1. Subjects \subseteq Keys
    BY DEF Keys
  <1>2. \A x \in Keys : g[x] = IF x = k THEN b ELSE f[x]
    BY DEF Buckets
  <1>3. Filled(g) = Filled(f)
    BY <1>1, <1>2 DEF Filled
  <1> QED BY <1>3

\* What a reservation took was taken in the ideal limiter too.
ItemsOK(items, I) ==
    \A o \in Operations : o \in DOMAIN items =>
        items[o].key \in Keys /\ I[o][items[o].key] # NoBucket

LEMMA ItemsKept ==
    ASSUME NEW I, NEW J, NEW items, ItemsOK(items, I),
           \A o \in Operations : \A k \in Keys : I[o][k] # NoBucket => J[o][k] # NoBucket
    PROVE  ItemsOK(items, J)
  BY DEF ItemsOK

LEMMA RefundOK ==
    ASSUME NEW L, NEW I, TablesOK(L, I), NEW items, ItemsOK(items, I), NEW t \in Nat,
           NEW J, J = [o \in Operations |-> [k \in Keys |->
                         IF o \in DOMAIN items /\ items[o].key = k
                         THEN Return(I[o][k], o) ELSE I[o][k]]]
    PROVE  /\ TablesOK(refundMany(L, items, t), J)
           /\ \A o \in Operations : \A k \in Keys :
                I[o][k] # NoBucket => J[o][k] # NoBucket
  <1> DEFINE R == refundMany(L, items, t)
             skip(o) == \/ o \notin DOMAIN items
                        \/ items[o].gen # L[o].gen
                        \/ t < L[o].now
                        \/ L[o].own[items[o].key] = NoBucket
             back(o) == [L[o] EXCEPT !.now = t,
                           !.own[items[o].key] = [last |-> t,
                                      tokens |-> Min({Capacity[o], Level(@, o, t) + Token})]]
  <1>1. R = [o \in Operations |-> IF skip(o) THEN L[o] ELSE back(o)]
    BY Zenon DEF refundMany
  <1> HIDE DEF R
  <1>2. ASSUME NEW o \in Operations
        PROVE  /\ TableOK(R[o], J[o], o, R[o].now)
               /\ \A k \in Keys : I[o][k] # NoBucket => J[o][k] # NoBucket
    <2>1. /\ TableOK(L[o], I[o], o, L[o].now) /\ L[o] \in Table /\ I[o] \in Buckets
          /\ L[o].now \in Int /\ L[o].own \in Buckets /\ L[o].start \in Int
      BY DEF TablesOK, TableOK, Table
    <2>2. J[o] = [k \in Keys |-> IF o \in DOMAIN items /\ items[o].key = k
                                 THEN Return(I[o][k], o) ELSE I[o][k]]
      OBVIOUS
    <2>3. ASSUME NEW k \in Keys
          PROVE  KeyOK(L[o].own[k], L[o].prev[k], I[o][k], o, L[o].start, L[o].now)
      BY <2>1 DEF TableOK
    <2>4. ASSUME NEW k \in Keys
          PROVE  /\ KeyOK(L[o].own[k], L[o].prev[k], J[o][k], o, L[o].start, L[o].now)
                 /\ I[o][k] # NoBucket => J[o][k] # NoBucket
      <3>1. CASE o \in DOMAIN items /\ items[o].key = k
        <4>1. I[o][k] # NoBucket /\ J[o][k] = Return(I[o][k], o)
          BY <2>2, <3>1 DEF ItemsOK
        <4>2. /\ KeyOK(L[o].own[k], L[o].prev[k], Return(I[o][k], o), o, L[o].start, L[o].now)
              /\ Return(I[o][k], o) # NoBucket
          BY <2>1, <2>3, <4>1, KeyReturns
        <4> QED BY <4>1, <4>2
      <3>2. CASE ~(o \in DOMAIN items /\ items[o].key = k)
        <4>1. J[o][k] = I[o][k]
          BY <2>2, <3>2
        <4> QED BY <2>3, <4>1
      <3> QED BY <3>1, <3>2
    <2>5. J[o] \in Buckets
      <3>1. \A k \in Keys : J[o][k] \in Bucket
        BY <2>4 DEF KeyOK
      <3> QED BY <2>2, <3>1 DEF Buckets
    <2>6. CASE skip(o)
      <3>1. R[o] = L[o]
        BY <1>1, <2>6, Zenon
      <3> HIDE DEF skip
      <3>2. TableOK(L[o], J[o], o, L[o].now)
        BY <2>1, <2>4, <2>5 DEF TableOK
      <3> QED BY <2>4, <3>1, <3>2
    <2>7. CASE ~skip(o)
      <3>1. R[o] = back(o)
        BY <1>1, <2>7, Zenon
      <3>2. PICK ky : ky = items[o].key
        OBVIOUS
      <3>3. /\ o \in DOMAIN items /\ ky \in Keys /\ I[o][ky] # NoBucket
            /\ L[o].own[ky] # NoBucket /\ ~(t < L[o].now)
        BY <2>7, <3>2 DEF ItemsOK
      <3> HIDE DEF skip
      <3>4. PICK m : m = Min({Capacity[o], Level(L[o].own[ky], o, t) + Token})
        OBVIOUS
      <3>5. PICK c : c = [last |-> t, tokens |-> m]
        OBVIOUS
      <3>6. J[o][ky] = Return(I[o][ky], o)
        BY <2>2, <3>2, <3>3
      <3>7. KeyOK(c, L[o].prev[ky], J[o][ky], o, L[o].start, t) /\ c # NoBucket
        <4>1. KeyOK(L[o].own[ky], L[o].prev[ky], I[o][ky], o, L[o].start, L[o].now)
          BY <2>3, <3>3
        <4>2. PICK b, p, i, st, n : b = L[o].own[ky] /\ p = L[o].prev[ky] /\ i = I[o][ky]
                                    /\ st = L[o].start /\ n = L[o].now
          OBVIOUS
        <4>3. n \in Int /\ t >= n /\ KeyOK(b, p, i, o, st, n)
              /\ b # NoBucket /\ i # NoBucket
              /\ c = [last |-> t, tokens |-> Min({Capacity[o], Level(b, o, t) + Token})]
          BY <2>1, <3>3, <3>4, <3>5, <4>1, <4>2
        <4>4. KeyOK(c, p, Return(i, o), o, st, t) /\ c # NoBucket
          BY <4>3, KeyRefunds
        <4> QED BY <3>6, <4>2, <4>4
      <3>8. PICK h : h = [L[o].own EXCEPT ![ky] = c]
        OBVIOUS
      <3>9. h \in Buckets /\ h[ky] = c /\ \A x \in Keys \ {ky} : h[x] = L[o].own[x]
        BY <2>1, <3>3, <3>7, <3>8 DEF Buckets, KeyOK
      <3>10. PICK s : s = L[o]
        OBVIOUS
      <3>11. R[o] = [s EXCEPT !.now = t, !.own = h]
        <4>1. R[o] = [s EXCEPT !.now = t,
                         !.own[ky] = [last |-> t,
                            tokens |-> Min({Capacity[o], Level(@, o, t) + Token})]]
          BY <3>1, <3>2, <3>10, Zenon
        <4>2. R[o] = [s EXCEPT !.now = t, !.own[ky] = c]
          BY <2>1, <3>3, <3>4, <3>5, <3>10, <4>1 DEF Table, Buckets
        <4> QED BY <2>1, <3>8, <3>10, <4>2 DEF Table
      <3>12. /\ R[o] \in Table /\ R[o].own = h /\ R[o].prev = L[o].prev
             /\ R[o].start = L[o].start /\ R[o].now = t
        <4>1. PICK z : z = RefundAt(s, h, t)
          OBVIOUS
        <4>2. s \in Table /\ h \in Buckets /\ t \in Int
          BY <2>1, <3>9, <3>10
        <4>3. z \in Table /\ z.own = h /\ z.prev = s.prev /\ z.start = s.start /\ z.now = t
          BY <4>1, <4>2, RefundTable
        <4> QED BY <3>10, <3>11, <4>1, <4>3 DEF RefundAt
      <3>13. \A x \in Keys : KeyOK(R[o].own[x], R[o].prev[x], J[o][x], o, R[o].start, t)
        <4>1. ASSUME NEW x \in Keys
              PROVE  KeyOK(R[o].own[x], R[o].prev[x], J[o][x], o, R[o].start, t)
          <5>1. CASE x = ky
            BY <3>7, <3>9, <3>12, <5>1
          <5>2. CASE x # ky
            <6>1. KeyOK(L[o].own[x], L[o].prev[x], J[o][x], o, L[o].start, t)
              BY <2>1, <2>4, <3>3, KeyLater
            <6> QED BY <3>9, <3>12, <5>2, <6>1
          <5> QED BY <5>1, <5>2
        <4> QED BY <4>1
      <3>14. subjectCount(R[o]) = subjectCount(L[o])
        <4>1. Cardinality(Filled(h)) = Cardinality(Filled(L[o].own))
          <5>2. PICK g : g = L[o].own
            OBVIOUS
          <5>3. g \in Buckets /\ h = [g EXCEPT ![ky] = c]
                /\ g[ky] # NoBucket /\ c # NoBucket
            BY <2>1, <3>3, <3>7, <3>8, <5>2
          <5>4. Cardinality(Filled(h)) = Cardinality(Filled(g))
            BY <3>3, <5>3, FilledSame
          <5> QED BY <5>2, <5>4
        <4> QED BY <3>12, <4>1, CountIs
      <3>15. TableOK(R[o], J[o], o, t)
        BY <2>1, <2>5, <3>3, <3>12, <3>13, <3>14 DEF TableOK
      <3> QED BY <2>4, <3>12, <3>15
    <2> QED BY <2>6, <2>7
  <1>3. R = [o \in Operations |-> R[o]]
    <2> HIDE DEF skip, back
    <2> QED BY <1>1
  <1>4. J = [o \in Operations |-> J[o]]
    OBVIOUS
  <1>5. TablesOK(R, J)
    BY <1>2, <1>3, <1>4 DEF TablesOK
  <1> QED BY <1>2, <1>5 DEF R

-----------------------------------------------------------------------------
(***************************************************************************)
(* The steps again, for the limiter.                                       *)
(***************************************************************************)
LimitInv == /\ TablesOK(lim, ideal)
            /\ \A r \in Reqs : ItemsOK(req[r].items, ideal)

LEMMA NoItems == \A I : ItemsOK(<<>>, I)
  <1>1. DOMAIN <<>> = {}
    OBVIOUS
  <1> QED BY <1>1 DEF ItemsOK

\* Steps that leave the limiter and the reservations alone.
LEMMA LimitFrame ==
    ASSUME LimitInv, UNCHANGED <<lim, ideal>>,
           \A x \in Reqs : req'[x].items = req[x].items
    PROVE  LimitInv'
  BY DEF LimitInv

LEMMA LimitReserve ==
    ASSUME TypeInv, LimitInv, NEW r \in Reqs, NEW a \in Attempts, NEW t \in Sampled,
           ReserveFor(r, a, t)
    PROVE  LimitInv'
  <1>1. t \in Nat /\ ReqsOK(req) /\ TablesOK(lim, ideal)
    BY DEF TypeInv, Sampled, LimitInv
  <1>2. PICK d \in {Reserve(lim, Wanted(a), t)} :
          /\ lim' = d.lim
          /\ \/ /\ d.ok
                /\ req' = [req EXCEPT ![r] =
                            [Free EXCEPT !.att = a, !.items = d.items,
                               !.pc = IF a.kind = "password" THEN "work" ELSE "judge"]]
                /\ ideal' = [o \in Operations |-> [k \in Keys |->
                     IF o \in DOMAIN d.items /\ d.items[o].key = k
                     THEN Charge(ideal[o][k], o, d.lim[o].now) ELSE ideal[o][k]]]
             \/ ~d.ok /\ a.kind # "reverify" /\ UNCHANGED <<req, ideal>>
             \/ /\ ~d.ok /\ a.kind = "reverify" /\ UNCHANGED ideal
                /\ req' = [req EXCEPT ![r] =
                            [Free EXCEPT !.att = a, !.pc = "suppress"]]
    BY Zenon DEF ReserveFor
  <1>3. PICK J : J = [o \in Operations |-> [k \in Keys |->
                       IF o \in DOMAIN d.items /\ d.items[o].key = k
                       THEN Charge(ideal[o][k], o, d.lim[o].now) ELSE ideal[o][k]]]
    OBVIOUS
  <1>4. /\ ~d.ok => TablesOK(d.lim, ideal)
        /\ d.ok => /\ \A o \in DOMAIN d.items : /\ d.items[o].key \in Keys
                                                /\ d.lim[o].now \in Nat
                   /\ DOMAIN d.items \subseteq Operations /\ TablesOK(d.lim, J)
    <2>1. PICK L, I : L = lim /\ I = ideal
      OBVIOUS
    <2> QED BY <1>1, <1>2, <1>3, <2>1, ReserveOK
  <1>5. /\ lim' = d.lim
        /\ \/ /\ d.ok /\ ideal' = J
              /\ req' = [req EXCEPT ![r] =
                          [Free EXCEPT !.att = a, !.items = d.items,
                             !.pc = IF a.kind = "password" THEN "work" ELSE "judge"]]
           \/ ~d.ok /\ ideal' = ideal /\ req' = req
           \/ /\ ~d.ok /\ ideal' = ideal
              /\ req' = [req EXCEPT ![r] = [Free EXCEPT !.att = a, !.pc = "suppress"]]
    BY <1>2, <1>3
  <1>6. CASE /\ d.ok /\ ideal' = J
             /\ req' = [req EXCEPT ![r] =
                          [Free EXCEPT !.att = a, !.items = d.items,
                             !.pc = IF a.kind = "password" THEN "work" ELSE "judge"]]
    <2>1. PICK its, pc : its = d.items /\ pc = IF a.kind = "password" THEN "work" ELSE "judge"
      OBVIOUS
    <2>2. PICK y : y = [Free EXCEPT !.att = a, !.items = its, !.pc = pc]
      OBVIOUS
    <2>3. y.items = its
      BY <2>2 DEF Free
    <2>4. req' = [req EXCEPT ![r] = y]
      BY <1>6, <2>1, <2>2
    <2>5. req'[r].items = its /\ \A x \in Reqs \ {r} : req'[x] = req[x]
      BY <1>1, <2>3, <2>4 DEF ReqsOK
    <2>6. ASSUME NEW o \in Operations, NEW k \in Keys
          PROVE  /\ ideal[o][k] # NoBucket => J[o][k] # NoBucket
                 /\ o \in DOMAIN its /\ its[o].key = k => J[o][k] # NoBucket
      <3>1. J[o][k] = IF o \in DOMAIN its /\ its[o].key = k
                      THEN Charge(ideal[o][k], o, d.lim[o].now) ELSE ideal[o][k]
        BY <1>3, <2>1
      <3>2. CASE o \in DOMAIN its /\ its[o].key = k
        <4>1. d.lim[o].now \in Nat /\ J[o][k].last = d.lim[o].now
          BY <1>4, <1>6, <2>1, <3>1, <3>2 DEF Charge
        <4> QED BY <4>1 DEF NoBucket
      <3>3. CASE ~(o \in DOMAIN its /\ its[o].key = k)
        BY <3>1, <3>3
      <3> QED BY <3>2, <3>3
    <2>7. ItemsOK(its, J)
      BY <1>4, <1>6, <2>1, <2>6 DEF ItemsOK
    <2>8. \A x \in Reqs : ItemsOK(req'[x].items, J)
      <3>1. ASSUME NEW x \in Reqs \ {r} PROVE ItemsOK(req[x].items, J)
        <4>1. ItemsOK(req[x].items, ideal)
          BY DEF LimitInv
        <4>2. PICK I, its2 : I = ideal /\ its2 = req[x].items
          OBVIOUS
        <4> QED BY <2>6, <4>1, <4>2, ItemsKept
      <3> QED BY <2>5, <2>7, <3>1
    <2> QED BY <1>4, <1>5, <1>6, <2>8 DEF LimitInv
  <1>7. CASE ~d.ok /\ ideal' = ideal /\ req' = req
    BY <1>4, <1>5, <1>7 DEF LimitInv
  <1>8. CASE /\ ~d.ok /\ ideal' = ideal
             /\ req' = [req EXCEPT ![r] = [Free EXCEPT !.att = a, !.pc = "suppress"]]
    <2>1. PICK y : y = [Free EXCEPT !.att = a, !.pc = "suppress"]
      OBVIOUS
    <2>2. y.items = <<>>
      BY <2>1 DEF Free
    <2>3. req'[r].items = <<>> /\ \A x \in Reqs \ {r} : req'[x] = req[x]
      BY <1>1, <1>8, <2>1, <2>2 DEF ReqsOK
    <2> QED BY <1>4, <1>5, <1>8, <2>3, NoItems DEF LimitInv
  <1> QED BY <1>5, <1>6, <1>7, <1>8

LEMMA LimitClose ==
    ASSUME TypeInv, LimitInv, NEW r \in Reqs, NEW t \in Sampled, Close(r, t)
    PROVE  LimitInv'
  <1>1. t \in Nat /\ ReqsOK(req) /\ TablesOK(lim, ideal) /\ req[r].keep \in BOOLEAN
    BY DEF TypeInv, Sampled, LimitInv, ReqsOK, ReqOK
  <1>2. req' = [req EXCEPT ![r] = Free] /\ lim' = Refunded(r, t)
    BY DEF Close, End
  <1>3. Free.items = <<>>
    BY DEF Free
  <1>4. req'[r].items = <<>> /\ \A x \in Reqs \ {r} : req'[x] = req[x]
    BY <1>1, <1>2, <1>3 DEF ReqsOK
  <1>5. PICK I, items : I = ideal /\ items = req[r].items
    OBVIOUS
  <1>6. ideal' = [o \in Operations |-> [k \in Keys |->
                    IF o \in DOMAIN items /\ items[o].key = k /\ ~req[r].keep
                    THEN Return(I[o][k], o) ELSE I[o][k]]]
    BY <1>5 DEF Close
  <1>7. ItemsOK(items, I)
    BY <1>5 DEF LimitInv
  <1>8. CASE req[r].keep
    <2>1. lim' = lim
      BY <1>2, <1>8 DEF Refunded
    <2>2. ideal' = ideal
      <3>1. ideal' = [o \in Operations |-> [k \in Keys |-> I[o][k]]]
        BY <1>6, <1>8
      <3>2. \A o \in Operations : I[o] = [k \in Keys |-> I[o][k]]
        BY <1>1, <1>5 DEF TablesOK, TableOK, Buckets
      <3>3. I = [o \in Operations |-> I[o]]
        BY <1>1, <1>5 DEF TablesOK
      <3> QED BY <1>5, <3>1, <3>2, <3>3
    <2> QED BY <1>1, <1>4, <2>1, <2>2, NoItems DEF LimitInv
  <1>9. CASE ~req[r].keep
    <2>1. PICK J : J = [o \in Operations |-> [k \in Keys |->
                         IF o \in DOMAIN items /\ items[o].key = k
                         THEN Return(I[o][k], o) ELSE I[o][k]]]
      OBVIOUS
    <2>2. ideal' = J
      BY <1>6, <1>9, <2>1
    <2>3. lim' = refundMany(lim, items, t)
      BY <1>2, <1>5, <1>9 DEF Refunded
    <2>4. /\ TablesOK(refundMany(lim, items, t), J)
          /\ \A o \in Operations : \A k \in Keys :
                I[o][k] # NoBucket => J[o][k] # NoBucket
      <3>1. PICK L : L = lim
        OBVIOUS
      <3> QED BY <1>1, <1>5, <1>7, <2>1, <3>1, RefundOK
    <2>5. \A x \in Reqs : ItemsOK(req'[x].items, J)
      <3>1. ASSUME NEW x \in Reqs \ {r} PROVE ItemsOK(req[x].items, J)
        <4>1. ItemsOK(req[x].items, I)
          BY <1>5 DEF LimitInv
        <4>2. PICK its : its = req[x].items
          OBVIOUS
        <4> QED BY <2>4, <4>1, <4>2, ItemsKept
      <3> QED BY <1>4, <3>1, NoItems
    <2> QED BY <2>2, <2>3, <2>4, <2>5 DEF LimitInv
  <1> QED BY <1>1, <1>8, <1>9

LEMMA LimitInit == ASSUME Init PROVE LimitInv
  <1>1. lim = NewLimiter /\ ideal = [o \in Operations |-> Fresh]
        /\ req = [r \in Reqs |-> Free]
    BY DEF Init, Fresh
  <1>2. PICK s : s = [own |-> Fresh, prev |-> Fresh, now |-> -1, start |-> -1, gen |-> 0]
    OBVIOUS
  <1>3. lim = [o \in Operations |-> s]
    BY <1>1, <1>2, Zenon DEF NewLimiter
  <1>4. PICK f \in Buckets : f = Fresh
    BY FreshEmpty
  <1>5. s \in Table /\ s.own = f /\ s.prev = f /\ s.now = -1 /\ s.start = -1
    BY <1>2, <1>4 DEF Table
  <1>6. ASSUME NEW o \in Operations PROVE TableOK(s, f, o, -1)
    <2>1. Dominates(NoBucket, NoBucket, o, -1)
      BY NoBucketType, Recovered
    <2>2. KeyOK(NoBucket, NoBucket, NoBucket, o, -1, -1)
      BY <2>1, NoBucketType DEF KeyOK
    <2>3. \A k \in Keys : f[k] = NoBucket
      BY <1>4, FreshEmpty
    <2>4. subjectCount(s) <= MaxSubjects
      BY <1>4, <1>5, FreshEmpty, CountIs, LimiterAssumption
    <2> QED BY <1>5, <2>2, <2>3, <2>4 DEF TableOK
  <1>7. TablesOK(lim, ideal)
    BY <1>1, <1>3, <1>4, <1>5, <1>6 DEF TablesOK
  <1>8. Free.items = <<>>
    BY DEF Free
  <1> QED BY <1>1, <1>7, <1>8, NoItems DEF LimitInv

LEMMA LimitNext == ASSUME TypeInv, LimitInv, [Next]_vars PROVE LimitInv'
  <1>0. ReqsOK(req)
    BY DEF TypeInv
  <1>1. CASE Next
    <2>1. ASSUME NEW r \in Reqs, NEW t \in Sampled, NEW a \in Attempts,
                 ReserveFor(r, a, t)
          PROVE  LimitInv'
      BY <2>1, LimitReserve
    <2>2. ASSUME NEW r \in Reqs, NEW t \in Sampled, Close(r, t) PROVE LimitInv'
      BY <2>2, LimitClose
    <2>3. ASSUME NEW r \in Reqs, NEW t \in Sampled, Observe(r, t) PROVE LimitInv'
      <3>1. PICK o : req' = [req EXCEPT ![r].pc = "aggregate", ![r].carried = o.carried,
                                        ![r].record = o.record]
        BY <2>3, Zenon DEF Observe
      <3>2. \A x \in Reqs : req'[x].items = req[x].items
        BY <1>0, <3>1 DEF ReqsOK, ReqOK
      <3>3. UNCHANGED <<lim, ideal>>
        BY <2>3 DEF Observe
      <3> QED BY <3>2, <3>3, LimitFrame
    <2>4. ASSUME NEW r \in Reqs, AcquireWork(r) PROVE LimitInv'
      <3>1. PICK pc : req' = [req EXCEPT ![r].pc = pc]
        BY <2>4, Zenon DEF AcquireWork, Goto
      <3>2. \A x \in Reqs : req'[x].items = req[x].items
        BY <1>0, <3>1 DEF ReqsOK, ReqOK
      <3>3. UNCHANGED <<lim, ideal>>
        BY <2>4 DEF AcquireWork
      <3> QED BY <3>2, <3>3, LimitFrame
    <2>5. ASSUME NEW r \in Reqs, NEW verdict, Judge(r, verdict) PROVE LimitInv'
      <3>1. PICK pc, keep : req' = [req EXCEPT ![r].pc = pc, ![r].keep = keep]
        BY <2>5, Zenon DEF Judge
      <3>2. \A x \in Reqs : req'[x].items = req[x].items
        BY <1>0, <3>1 DEF ReqsOK, ReqOK
      <3>3. UNCHANGED <<lim, ideal>>
        BY <2>5 DEF Judge
      <3> QED BY <3>2, <3>3, LimitFrame
    <2>6. ASSUME NEW r \in Reqs, NEW ok \in BOOLEAN, WriteAggregate(r, ok)
          PROVE  LimitInv'
      <3>1. PICK pc : req' = [req EXCEPT ![r].carried = 0, ![r].record = ok /\ @,
                                         ![r].pc = pc]
        BY <2>6, Zenon DEF WriteAggregate
      <3>2. \A x \in Reqs : req'[x].items = req[x].items
        BY <1>0, <3>1 DEF ReqsOK, ReqOK
      <3>3. UNCHANGED <<lim, ideal>>
        BY <2>6 DEF WriteAggregate
      <3> QED BY <3>2, <3>3, LimitFrame
    <2>7. ASSUME NEW r \in Reqs, NEW ok \in BOOLEAN, WriteIndividual(r, ok)
          PROVE  LimitInv'
      <3>1. \A x \in Reqs : req'[x].items = req[x].items
        BY <1>0, <2>7 DEF ReqsOK, ReqOK, WriteIndividual
      <3>2. UNCHANGED <<lim, ideal>>
        BY <2>7 DEF WriteIndividual
      <3> QED BY <3>1, <3>2, LimitFrame
    <2>8. ASSUME Tick PROVE LimitInv'
      BY <2>8, LimitFrame DEF Tick
    <2> QED BY <1>1, <2>1, <2>2, <2>3, <2>4, <2>5, <2>6, <2>7, <2>8 DEF Next
  <1>2. CASE UNCHANGED vars
    BY <1>2, LimitFrame DEF vars
  <1> QED BY <1>1, <1>2

LEMMA LimitGives == ASSUME LimitInv PROVE NeverMoreThanIdeal
  <1>1. \A o \in Operations : TableOK(lim[o], ideal[o], o, lim[o].now)
    BY DEF LimitInv, TablesOK
  <1>2. TablesBounded(lim)
    BY <1>1 DEF TablesBounded, TableOK, subjectCount
  <1>3. \A o \in Operations, k \in Keys :
          ideal[o][k] = NoBucket \/ ideal[o][k].tokens >= 0
    BY <1>1 DEF TableOK, KeyOK
  <1> QED BY <1>2, <1>3 DEF NeverMoreThanIdeal

\* No bucket of the limiter, a subject's own or the shared one of an operation,
\* admits a guess that the same bucket, never forgotten, would refuse, and the
\* limiter keeps to its bound of subjects, for any rates, lengths of generations,
\* bounds, numbers of concurrent requests and lags of their clocks: rotation,
\* moves between generations and late refunds (Reserve, refundMany) never favour
\* a caller.  A subject served by the shared bucket and later by its own is
\* covered by the two together.
THEOREM LimiterNeverLax == Spec => []NeverMoreThanIdeal
  <1>1. Init => LimitInv
    BY LimitInit
  <1>2. AccountInv /\ LimitInv /\ [Next]_vars => LimitInv'
    BY LimitNext DEF AccountInv
  <1>3. LimitInv => NeverMoreThanIdeal
    BY LimitGives
  <1> QED BY <1>1, <1>2, <1>3, AccountAlways, PTL DEF Spec

-----------------------------------------------------------------------------
(***************************************************************************)
(* RetryAfter.                                                             *)
(***************************************************************************)

\* The bucket of key k, in whichever generation.
InForce(s, k) == IF s.own[k] # NoBucket THEN s.own[k] ELSE s.prev[k]

LEMMA RotateCases ==
    ASSUME NEW o \in Operations, NEW s \in Table, NEW at \in Int,
           NEW r, r = rotateGeneration(s, o, at)
    PROVE  /\ r \in Table
           /\ \/ r.own = s.own /\ r.prev = s.prev
              \/ r.own = Fresh /\ r.prev = s.own
              \/ r.own = Fresh /\ r.prev = Fresh
  <1>1. PICK f \in Buckets : f = Fresh
    BY FreshEmpty
  <1>2. PICK e \in Int, d \in Nat \ {0} : e = at - s.start /\ d = TTL(o)
    BY Rates DEF Table
  <1>3. CASE s.start = -1
    BY <1>3 DEF rotateGeneration, Table
  <1>4. CASE s.start # -1 /\ e < d
    BY <1>2, <1>4 DEF rotateGeneration
  <1>5. CASE s.start # -1 /\ ~(e < d)
    <2>1. PICK p, m : p = (IF e \div d >= 2 THEN f ELSE s.own) /\ m = at - (e % d)
      OBVIOUS
    <2>2. p \in Buckets /\ p \in {f, s.own} /\ m \in Int
      BY <1>2, <2>1 DEF Table
    <2>3. PICK g \in Int : g = s.gen + 1
      BY DEF Table
    <2>4. r \in Table /\ r.own = f /\ r.prev = p
      <3>1. r = [s EXCEPT !.prev = p, !.own = f, !.gen = g, !.start = m]
        BY <1>1, <1>2, <1>5, <2>1, <2>3 DEF rotateGeneration, Table
      <3> QED BY <2>2, <3>1 DEF Table
    <2> QED BY <1>1, <2>2, <2>4
  <1> QED BY <1>2, <1>3, <1>4, <1>5

LEMMA MoveForce ==
    ASSUME NEW s \in Table, NEW k \in Keys, NEW r, r = subjectBucket(s, k)
    PROVE  /\ r \in Table /\ r.own[k] = InForce(s, k)
           /\ r.own[k] # NoBucket \/ r.prev[k] = NoBucket
           /\ InForce(s, k) = NoBucket => r = s
           /\ \A x \in Keys : InForce(r, x) = InForce(s, x)
  <1>1. CASE ~(s.own[k] = NoBucket /\ s.prev[k] # NoBucket)
    BY <1>1 DEF subjectBucket, InForce
  <1>2. CASE s.own[k] = NoBucket /\ s.prev[k] # NoBucket
    <2>1. PICK f, g : f = [s.own EXCEPT ![k] = s.prev[k]]
                      /\ g = [s.prev EXCEPT ![k] = NoBucket]
      OBVIOUS
    <2>2. f \in Buckets /\ g \in Buckets
      BY <2>1, NoBucketType DEF Table, Buckets
    <2>3. r = [s EXCEPT !.own = f, !.prev = g]
      BY <1>2, <2>1 DEF subjectBucket, Table
    <2>4. r \in Table /\ r.own = f /\ r.prev = g
      BY <2>2, <2>3 DEF Table
    <2>5. \A x \in Keys : /\ f[x] = IF x = k THEN s.prev[k] ELSE s.own[x]
                          /\ g[x] = IF x = k THEN NoBucket ELSE s.prev[x]
      BY <2>1 DEF Table, Buckets
    <2> QED BY <1>2, <2>4, <2>5 DEF InForce
  <1> QED BY <1>1, <1>2

\* A bucket fills up with time.
LEMMA MoreLater ==
    ASSUME NEW o \in Operations, NEW b \in Bucket, NEW n \in Int, NEW w \in Nat
    PROVE  \/ Level(b, o, n + w) = Capacity[o]
           \/ Level(b, o, n + w) >= Level(b, o, n) + w * Refill[o]
  <1>1. PICK c \in Nat, v \in Nat : c = Capacity[o] /\ v = Refill[o]
    BY Rates
  <1>2. CASE b = NoBucket
    BY <1>2, LevelIs
  <1>3. CASE b # NoBucket
    <2>1. PICK u \in Int, l \in Int : u = b.tokens /\ l = b.last
      BY DEF Bucket
    <2>2. PICK x \in Int, y \in Int, z \in Int :
             x = (n - l) * v /\ y = ((n + w) - l) * v /\ z = ((n + w) - n) * v
      OBVIOUS
    <2>3. y = z + x
      BY <2>2, Splits
    <2>4. z = w * v
      <3>1. (n + w) - n = w
        OBVIOUS
      <3> QED BY <2>2, <3>1
    <2>5. /\ Level(b, o, n) = IF c <= u + x THEN c ELSE u + x
          /\ Level(b, o, n + w) = IF c <= u + y THEN c ELSE u + y
      <3>1. n + w \in Int
        OBVIOUS
      <3> QED BY <1>1, <1>3, <2>1, <2>2, <3>1, LevelIs
    <2>6. PICK g, h : g = Level(b, o, n) /\ h = Level(b, o, n + w)
      OBVIOUS
    <2>7. h = c \/ h >= g + z
      BY <2>3, <2>5, <2>6
    <2> QED BY <1>1, <2>4, <2>6, <2>7
  <1> QED BY <1>2, <1>3

LEMMA CountFalls ==
    ASSUME NEW s \in Table, NEW r \in Table,
           \/ r.own = s.own /\ r.prev = s.prev
           \/ r.own = Fresh /\ r.prev = s.own
           \/ r.own = Fresh /\ r.prev = Fresh
    PROVE  subjectCount(r) <= subjectCount(s) /\ subjectCount(r) \in Nat
  <1>1. PICK a \in Nat, b \in Nat : /\ a = Cardinality(Filled(s.own))
                                    /\ b = Cardinality(Filled(s.prev))
    BY FilledCount
  <1>2. subjectCount(s) = a + b
    BY <1>1, CountIs
  <1>3. subjectCount(r) = Cardinality(Filled(r.own)) + Cardinality(Filled(r.prev))
    BY CountIs
  <1> QED BY <1>1, <1>2, <1>3, FreshEmpty

\* Reserve for one operation: the bucket that serves subject k at time n.
Found(s, o, k, n) == subjectBucket(rotateGeneration(s, o, n), k)
KeyFor(s, o, k, n) == ServingKey(Found(s, o, k, n), k)
Ready(s, o, k, n) ==
    SetNow(subjectBucket(Found(s, o, k, n), KeyFor(s, o, k, n)), n)
Has(s, o, k, n) == Level(Ready(s, o, k, n).own[KeyFor(s, o, k, n)], o, n)

\* What serves k after rotation, in terms of the rotated table r.
LEMMA ServedFrom ==
    ASSUME NEW o \in Operations, NEW s \in Table, NEW k \in Subjects, NEW n \in Int,
           NEW r, r = rotateGeneration(s, o, n),
           NEW key, key = KeyFor(s, o, k, n), NEW st, st = Ready(s, o, k, n)
    PROVE  /\ st \in Table /\ st.now = n
           /\ key = k \/ (key = Overflow /\ InForce(r, k) = NoBucket
                          /\ ~(subjectCount(r) < MaxSubjects))
           /\ key = k /\ InForce(r, k) = NoBucket =>
                subjectCount(r) < MaxSubjects /\ subjectCount(st) = subjectCount(r)
           /\ st.own[key] = InForce(r, key)
           /\ st.own[key] # NoBucket \/ st.prev[key] = NoBucket
           /\ \A x \in Keys : InForce(st, x) = InForce(r, x)
           /\ Has(s, o, k, n) = Level(InForce(r, key), o, n)
  <1>1. r \in Table /\ k \in Keys /\ Overflow \in Keys
    BY RotateCases DEF Keys
  <1>2. PICK f : f = subjectBucket(r, k)
    OBVIOUS
  <1>3. /\ f \in Table /\ f.own[k] = InForce(r, k)
        /\ InForce(r, k) = NoBucket => f = r
        /\ \A x \in Keys : InForce(f, x) = InForce(r, x)
    BY <1>1, <1>2, MoveForce
  <1>4. f = Found(s, o, k, n) /\ key = ServingKey(f, k)
    BY <1>2 DEF Found, KeyFor
  <1>5. PICK g : g = subjectBucket(f, key)
    OBVIOUS
  <1>6. key \in {k, Overflow} /\ key \in Keys
    BY <1>1, <1>4 DEF ServingKey
  <1>7. /\ g \in Table /\ g.own[key] = InForce(f, key)
        /\ g.own[key] # NoBucket \/ g.prev[key] = NoBucket
        /\ InForce(f, key) = NoBucket => g = f
        /\ \A x \in Keys : InForce(g, x) = InForce(f, x)
    BY <1>3, <1>5, <1>6, MoveForce
  <1>8. st = SetNow(g, n)
    BY <1>4, <1>5 DEF Ready
  <1>9. st \in Table /\ st.own = g.own /\ st.prev = g.prev /\ st.now = n
    BY <1>7, <1>8 DEF SetNow, Table
  <1>10. subjectCount(st) = subjectCount(g)
    BY <1>9, CountIs
  <1>11. \A x \in Keys : InForce(st, x) = InForce(r, x)
    BY <1>3, <1>7, <1>9 DEF InForce
  <1>12. st.own[key] = InForce(r, key)
    BY <1>3, <1>6, <1>7, <1>9
  <1>13. Has(s, o, k, n) = Level(InForce(r, key), o, n)
    BY <1>12 DEF Has
  <1>14. key = k \/ (key = Overflow /\ InForce(r, k) = NoBucket
                     /\ ~(subjectCount(r) < MaxSubjects))
    BY <1>3, <1>4 DEF ServingKey
  <1>15. ASSUME key = k, InForce(r, k) = NoBucket
         PROVE  subjectCount(r) < MaxSubjects /\ subjectCount(st) = subjectCount(r)
    <2>1. f = r /\ g = r
      BY <1>1, <1>3, <1>7, <1>15
    <2>2. k # Overflow
      BY LimiterAssumption
    <2> QED BY <1>3, <1>4, <1>10, <1>15, <2>1, <2>2 DEF ServingKey
  <1> QED BY <1>7, <1>9, <1>11, <1>12, <1>13, <1>14, <1>15

\* Who was refused finds, w ticks later, the bucket filled up by w ticks or a full
\* one: its own, moved with its generation, or a new one, or the shared one.
LEMMA ServedLater ==
    ASSUME NEW o \in Operations, NEW s \in Table, NEW k \in Subjects, NEW n \in Nat,
           NEW w \in Nat, NEW st, st = Ready(s, o, k, n)
    PROVE  /\ st \in Table /\ st.now = n
           /\ Has(s, o, k, n) \in Int /\ Has(st, o, k, n + w) \in Int
           /\ \/ Has(st, o, k, n + w) = Capacity[o]
              \/ Has(st, o, k, n + w) >= Has(s, o, k, n) + w * Refill[o]
  <1>1. PICK r, key : r = rotateGeneration(s, o, n) /\ key = KeyFor(s, o, k, n)
    OBVIOUS
  <1>2. /\ st \in Table /\ st.now = n
        /\ key = k \/ (key = Overflow /\ InForce(r, k) = NoBucket
                       /\ ~(subjectCount(r) < MaxSubjects))
        /\ key = k /\ InForce(r, k) = NoBucket =>
             subjectCount(r) < MaxSubjects /\ subjectCount(st) = subjectCount(r)
        /\ st.own[key] = InForce(r, key)
        /\ st.own[key] # NoBucket \/ st.prev[key] = NoBucket
        /\ \A x \in Keys : InForce(st, x) = InForce(r, x)
        /\ Has(s, o, k, n) = Level(InForce(r, key), o, n)
    BY <1>1, ServedFrom
  <1>3. PICK m \in Nat : m = n + w
    OBVIOUS
  <1>4. PICK q, ky : q = rotateGeneration(st, o, m) /\ ky = KeyFor(st, o, k, m)
    OBVIOUS
  <1>5. /\ ky = k \/ (ky = Overflow /\ InForce(q, k) = NoBucket
                      /\ ~(subjectCount(q) < MaxSubjects))
        /\ Has(st, o, k, m) = Level(InForce(q, ky), o, m)
    <2>1. PICK su : su = Ready(st, o, k, m)
      OBVIOUS
    <2> QED BY <1>2, <1>4, <2>1, ServedFrom
  <1>6. /\ q \in Table
        /\ \/ q.own = st.own /\ q.prev = st.prev
           \/ q.own = Fresh /\ q.prev = st.own
           \/ q.own = Fresh /\ q.prev = Fresh
    BY <1>2, <1>4, RotateCases
  <1>7. k \in Keys /\ Overflow \in Keys /\ key \in Keys /\ ky \in Keys /\ r \in Table
    BY <1>1, <1>2, <1>5, RotateCases DEF Keys
  <1>8. \A x \in Keys : InForce(q, x) \in Bucket /\ InForce(r, x) \in Bucket
    BY <1>6, <1>7 DEF InForce, Table, Buckets
  <1>9. Has(s, o, k, n) \in Int /\ Has(st, o, k, m) \in Int
    BY <1>2, <1>5, <1>7, <1>8, LevelIs
  \* the buckets that rotation finds again
  <1>10. InForce(q, key) = InForce(r, key) \/ InForce(q, key) = NoBucket
    BY <1>2, <1>6, <1>7, FreshEmpty DEF InForce
  <1>11. InForce(q, ky) = NoBucket => Has(st, o, k, m) = Capacity[o]
    BY <1>5, NoBucketType, LevelIs
  <1>12. CASE ky = key
    <2>1. CASE InForce(q, ky) = NoBucket
      BY <1>2, <1>3, <1>9, <1>11, <2>1
    <2>2. CASE InForce(q, ky) = InForce(r, key)
      <3>1. PICK b \in Bucket : b = InForce(r, key)
        BY <1>7, <1>8
      <3>2. \/ Level(b, o, n + w) = Capacity[o]
            \/ Level(b, o, n + w) >= Level(b, o, n) + w * Refill[o]
        BY MoreLater
      <3> QED BY <1>2, <1>3, <1>5, <1>9, <2>2, <3>1, <3>2
    <2> QED BY <1>10, <1>12, <2>1, <2>2
  <1>13. CASE ky # key
    <2>1. InForce(q, ky) = NoBucket
      <3>1. CASE ky = k
        <4>1. InForce(st, k) = NoBucket
          BY <1>2, <1>7, <1>13, <3>1
        <4>2. st.own[k] = NoBucket /\ st.prev[k] = NoBucket
          BY <4>1 DEF InForce
        <4> QED BY <1>6, <1>7, <3>1, <4>2, FreshEmpty DEF InForce
      <3>2. CASE ky # k
        <4>1. /\ ky = Overflow /\ key = k /\ InForce(q, k) = NoBucket
              /\ ~(subjectCount(q) < MaxSubjects)
          BY <1>2, <1>5, <1>13, <3>2
        <4>2. CASE q.own = Fresh /\ q.prev = Fresh
          BY <1>7, <4>2, FreshEmpty DEF InForce
        <4>3. CASE ~(q.own = Fresh /\ q.prev = Fresh)
          <5>1. InForce(q, k) = InForce(r, k)
            BY <1>2, <1>6, <1>7, <4>1, <4>3, FreshEmpty DEF InForce
          <5>2. subjectCount(st) < MaxSubjects
            BY <1>2, <4>1, <5>1
          <5>3. subjectCount(q) <= subjectCount(st) /\ subjectCount(q) \in Nat
            BY <1>2, <1>6, CountFalls
          <5>4. subjectCount(st) <= subjectCount(st) /\ subjectCount(st) \in Nat
            BY <1>2, CountFalls
          <5> QED BY <4>1, <5>2, <5>3, <5>4, LimiterAssumption
        <4> QED BY <4>2, <4>3
      <3> QED BY <3>1, <3>2
    <2> QED BY <1>2, <1>3, <1>9, <1>11, <2>1
  <1> QED BY <1>12, <1>13

\* retryAfter of at most two waits covers them both.
LEMMA WaitCovers ==
    ASSUME NEW S \in SUBSET Nat, NEW u, NEW v, S \subseteq {u, v}
    PROVE  /\ retryAfter(S) \in Nat /\ \A w \in S : retryAfter(S) >= w
           /\ S = {} => retryAfter(S) = 0
  <1>1. PICK R : R = {0} \cup S
    BY Zenon
  <1>2. R \in SUBSET Nat
    BY <1>1
  <1>3. \E x \in R : \A y \in R : x >= y
    <2>1. CASE u \in S /\ v \in S
      BY <1>1, <1>2, <2>1
    <2>2. CASE u \in S /\ v \notin S
      BY <1>1, <1>2, <2>2
    <2>3. CASE u \notin S /\ v \in S
      BY <1>1, <1>2, <2>3
    <2>4. CASE u \notin S /\ v \notin S
      <3>1. R = {0}
        BY <1>1, <2>4
      <3> QED BY <3>1
    <2> QED BY <2>1, <2>2, <2>3, <2>4
  <1>4. Max(R) \in R /\ \A y \in R : Max(R) >= y
    BY <1>3, Zenon DEF Max
  <1>5. retryAfter(S) = Max(R)
    BY <1>1 DEF retryAfter
  <1> QED BY <1>1, <1>2, <1>4, <1>5

\* Reserve with a clock that is not behind: which wait it answers, and what it
\* leaves when it refuses.
LEMMA ReserveOnTime ==
    ASSUME NEW L, \A o \in Operations : L[o] \in Table, NEW a \in Attempts,
           NEW t \in Nat, \A o \in DOMAIN Wanted(a) : L[o].now <= t,
           NEW d, d = Reserve(L, Wanted(a), t)
    PROVE  /\ d.wait \in Nat /\ (d.ok <=> d.wait = 0)
           /\ \A o \in DOMAIN Wanted(a) :
                /\ Has(L[o], o, Wanted(a)[o], t) < Token =>
                     d.wait * Refill[o] >= Token - Has(L[o], o, Wanted(a)[o], t)
                /\ d.wait # 0 => d.lim[o] = Ready(L[o], o, Wanted(a)[o], t)
           /\ (\A o \in DOMAIN Wanted(a) : Has(L[o], o, Wanted(a)[o], t) >= Token)
                => d.wait = 0
  <1> DEFINE
        want == Wanted(a)
        ops == DOMAIN want
        late == Max({L[o].now - t : o \in ops})
        at == [o \in ops |-> Max({L[o].now, t})]
        found == [o \in ops |->
                    subjectBucket(rotateGeneration(L[o], o, at[o]), want[o])]
        key == [o \in ops |-> ServingKey(found[o], want[o])]
        state == [o \in ops |->
                    [subjectBucket(found[o], key[o]) EXCEPT !.now = at[o]]]
        level == [o \in ops |-> Level(state[o].own[key[o]], o, at[o])]
        waits == {CeilDiv(Token - level[o], Refill[o]) : o \in {p \in ops : level[p] < Token}}
        wait == retryAfter(waits)
        Spent(o) == [state[o] EXCEPT !.own[key[o]] =
                       [tokens |-> level[o] - Token, last |-> at[o]]]
        items == [o \in ops |-> [key |-> key[o], gen |-> state[o].gen]]
        after == [o \in Operations |->
                         IF o \notin ops THEN L[o]
                         ELSE IF wait = 0 THEN Spent(o) ELSE state[o]]
  <1>1. d = IF late >= Skew
            THEN [ok |-> FALSE, skew |-> TRUE, wait |-> late, lim |-> L, items |-> <<>>]
            ELSE [ok |-> wait = 0, skew |-> FALSE, wait |-> wait,
                  lim |-> after, items |-> items]
    BY Zenon DEF Reserve
  <1>2. PICK p, q \in Operations : /\ ops = {p, q}
                                   /\ want[p] \in Subjects /\ want[q] \in Subjects
    BY WantedIs
  <1>3. ASSUME NEW o \in ops
        PROVE  /\ o \in Operations /\ want[o] \in Subjects /\ L[o].now \in Int
               /\ L[o] \in Table /\ L[o].now <= t /\ at[o] = t
    <2>1. o \in Operations /\ want[o] \in Subjects
      BY <1>2, <1>3
    <2>2. L[o] \in Table /\ L[o].now \in Int /\ L[o].now <= t
      BY <2>1 DEF Table
    <2>3. Max({L[o].now, t}) = IF L[o].now >= t THEN L[o].now ELSE t
      BY <2>2, MaxOfTwo
    <2> QED BY <2>1, <2>2, <2>3
  <1>4. ASSUME NEW o \in ops
        PROVE  /\ state[o] = Ready(L[o], o, want[o], t)
               /\ level[o] = Has(L[o], o, want[o], t) /\ level[o] \in Int
    <2>1. at[o] = t
      BY <1>3
    <2>2. found[o] = Found(L[o], o, want[o], t)
      BY <2>1, Zenon DEF Found
    <2>3. key[o] = KeyFor(L[o], o, want[o], t)
      BY <2>2, Zenon DEF KeyFor
    <2>4. state[o] = Ready(L[o], o, want[o], t)
      BY <2>1, <2>2, <2>3, Zenon DEF Ready, SetNow
    <2>5. level[o] = Has(L[o], o, want[o], t)
      BY <2>1, <2>3, <2>4, Zenon DEF Has
    <2>6. PICK s, k, st : s = L[o] /\ k = want[o] /\ st = Ready(L[o], o, want[o], t)
      OBVIOUS
    <2>7. o \in Operations /\ s \in Table /\ k \in Subjects /\ st = Ready(s, o, k, t)
      BY <1>3, <2>6
    <2> HIDE DEF level, state
    <2>8. Has(s, o, k, t) \in Int
      BY <2>7, ServedLater
    <2> QED BY <2>4, <2>5, <2>6, <2>8
  <1>5. ~(late >= Skew)
    <2>1. PICK u \in Int, v \in Int : u = L[p].now - t /\ v = L[q].now - t /\ u <= 0 /\ v <= 0
      BY <1>2, <1>3
    <2>2. {L[o].now - t : o \in ops} = {u, v}
      BY <1>2, <2>1
    <2>3. late \in {u, v}
      <3>1. late = Max({u, v})
        BY <2>2, Zenon
      <3> HIDE DEF late
      <3> QED BY <2>1, <3>1, MaxOfTwo
    <2> HIDE DEF late
    <2> QED BY <2>1, <2>3, LimiterAssumption
  <1>6. /\ d.wait = wait /\ (d.ok <=> wait = 0) /\ d.lim = after
    <2> HIDE DEF late, wait, after, items
    <2>1. PICK b \in BOOLEAN : b = (wait = 0)
      BY Zenon
    <2>2. d = [ok |-> b, skew |-> FALSE, wait |-> wait, lim |-> after, items |-> items]
      BY <1>1, <1>5, <2>1, Zenon
    <2>3. d.ok = b /\ d.lim = after /\ d.wait = wait
      BY <2>2
    <2> QED BY <2>1, <2>3, Zenon
  <1>7. ASSUME NEW o \in ops, level[o] < Token
        PROVE  /\ CeilDiv(Token - level[o], Refill[o]) \in Nat
               /\ CeilDiv(Token - level[o], Refill[o]) * Refill[o] >= Token - level[o]
               /\ Refill[o] \in Nat /\ level[o] \in Int
    <2>1. PICK c : c = Token - level[o]
      OBVIOUS
    <2>2. level[o] \in Int /\ o \in Operations
      BY <1>3, <1>4, <1>7, Zenon
    <2> HIDE DEF level, ops
    <2>3. c \in Nat /\ Refill[o] \in Nat \ {0}
      BY <1>7, <2>1, <2>2, Rates
    <2> QED BY <2>1, <2>2, <2>3, CeilDivCovers
  <1>8. /\ wait \in Nat /\ \A w \in waits : wait >= w
        /\ waits = {} => wait = 0
    <2> HIDE DEF level
    <2>1. waits \in SUBSET Nat
      BY <1>7
    <2>2. PICK u, v : u = CeilDiv(Token - level[p], Refill[p])
                      /\ v = CeilDiv(Token - level[q], Refill[q])
      OBVIOUS
    <2>3. waits \subseteq {u, v}
      BY <1>2, <2>2
    <2> HIDE DEF waits
    <2> QED BY <2>1, <2>3, WaitCovers
  <1>9. ASSUME NEW o \in ops, level[o] < Token PROVE wait * Refill[o] >= Token - level[o]
    <2>1. PICK w, v : w = CeilDiv(Token - level[o], Refill[o]) /\ v = Refill[o]
      OBVIOUS
    <2>2. w \in waits
      BY <1>9, <2>1
    <2>3. w \in Nat /\ w * v >= Token - level[o] /\ v \in Nat /\ level[o] \in Int
      BY <1>7, <1>9, <2>1, Zenon
    <2> HIDE DEF wait, waits, level, ops
    <2>4. wait * v >= w * v /\ wait * v \in Int /\ w * v \in Int
      BY <1>8, <2>2, <2>3, Grows
    <2>5. Token - level[o] \in Int
      BY <2>3, LimiterAssumption
    <2> QED BY <2>1, <2>3, <2>4, <2>5
  <1>10. ASSUME NEW o \in ops, wait # 0 PROVE after[o] = state[o]
    BY <1>3, <1>10, Zenon
  <1>11. ASSUME \A o \in ops : level[o] >= Token PROVE wait = 0
    <2>1. \A o \in ops : level[o] \in Int
      BY <1>4, Zenon
    <2> HIDE DEF level, ops, wait
    <2>2. waits = {}
      BY <1>11, <2>1, LimiterAssumption
    <2> QED BY <1>8, <2>2
  <1> HIDE DEF level, state, after, wait, waits, ops, want
  <1>12. ASSUME NEW o \in ops
         PROVE  /\ Has(L[o], o, want[o], t) < Token =>
                     d.wait * Refill[o] >= Token - Has(L[o], o, want[o], t)
                /\ d.wait # 0 => d.lim[o] = Ready(L[o], o, want[o], t)
    BY <1>4, <1>6, <1>9, <1>10, <1>12, Zenon
  <1>13. (\A o \in ops : Has(L[o], o, want[o], t) >= Token) => d.wait = 0
    BY <1>4, <1>6, <1>11, Zenon
  <1> QED BY <1>6, <1>8, <1>12, <1>13, Zenon DEF ops, want

LEMMA Quotient ==
    ASSUME NEW a \in Nat, NEW b \in Nat \ {0}
    PROVE  a \div b \in Nat /\ a < (a \div b) * b + b
  OBVIOUS

LEMMA Halves ==
    ASSUME NEW w \in Nat, NEW s \in Nat \ {0}
    PROVE  /\ (2 * w + s) \div (2 * s) \in Nat /\ (s - 1) \div 2 \in Nat
           /\ ((2 * w + s) \div (2 * s)) * s + (s - 1) \div 2 >= w
  <1>1. PICK a \in Nat, b \in Nat \ {0} : a = 2 * w + s /\ b = 2 * s
    OBVIOUS
  <1>2. PICK q \in Nat : q = a \div b /\ a < q * b + b
    BY Quotient
  <1>3. PICK h \in Nat : h = (s - 1) \div 2 /\ s - 1 <= 2 * h + 1
    OBVIOUS
  <1>4. PICK x \in Nat : x = q * s
    OBVIOUS
  <1>5. q * b = 2 * x
    <2>1. q * (2 * s) = 2 * (q * s)
      OBVIOUS
    <2> QED BY <1>1, <1>4, <2>1
  <1>6. x + h >= w
    BY <1>1, <1>2, <1>3, <1>5
  <1> QED BY <1>1, <1>2, <1>3, <1>4, <1>6

\* Rounding to the nearest second drops less than half of one.
LEMMA PatienceCovers ==
    ASSUME NEW w \in Nat
    PROVE  Patience(w) \in Nat /\ Patience(w) >= w
  <1>1. PICK s \in Nat \ {0} : s = Second
    BY AttemptsAssumption
  <1>2. PICK q \in Nat, h \in Nat : /\ q = (2 * w + s) \div (2 * s)
                                   /\ h = (s - 1) \div 2
    BY <1>1, Halves
  <1>3. PICK m \in Nat : m = Max({1, q}) /\ m >= q
    <2>1. Max({1, q}) = IF 1 >= q THEN 1 ELSE q
      BY MaxOfTwo
    <2> QED BY <2>1
  <1>4. Patience(w) = m * s + h
    BY <1>1, <1>2, <1>3 DEF Patience, RetryAfterHeader, Dropped
  <1>5. q * s + h >= w
    BY <1>1, <1>2, Halves
  <1>6. m * s >= q * s /\ m * s \in Nat
    BY <1>3, Grows
  <1> QED BY <1>2, <1>4, <1>5, <1>6

\* Who waits as long as it was told, and half a second for the rounding, is
\* admitted.
LEMMA HonestAnswer ==
    ASSUME NEW L, NEW I, TablesOK(L, I), NEW n \in Nat,
           \A o \in Operations : L[o].now <= n, NEW a \in Attempts
    PROVE  ComesBack(L, a, n)
  <1>1. PICK d, W, ops : d = Reserve(L, Wanted(a), n) /\ W = Wanted(a) /\ ops = DOMAIN W
    OBVIOUS
  <1>2. SUFFICES ASSUME ~d.ok PROVE Reserve(d.lim, W, n + Patience(d.wait)).ok
    BY <1>1 DEF ComesBack
  <1>3. \A o \in Operations : L[o] \in Table
    BY DEF TablesOK, TableOK
  <1>4. \A o \in ops : o \in Operations /\ W[o] \in Subjects
    BY <1>1, WantedIs
  <1>5. /\ d.wait \in Nat /\ d.wait # 0
        /\ \A o \in ops :
             /\ Has(L[o], o, W[o], n) < Token =>
                  d.wait * Refill[o] >= Token - Has(L[o], o, W[o], n)
             /\ d.lim[o] = Ready(L[o], o, W[o], n)
    BY <1>1, <1>2, <1>3, <1>4, ReserveOnTime
  <1>6. PICK w \in Nat, m \in Nat : w = Patience(d.wait) /\ m = n + w /\ w >= d.wait
    BY <1>5, PatienceCovers
  <1>7. ASSUME NEW o \in ops
        PROVE  /\ d.lim[o] \in Table /\ d.lim[o].now = n
               /\ Has(d.lim[o], o, W[o], m) >= Token
    <2>1. PICK s, k, st, v : /\ s = L[o] /\ k = W[o] /\ st = Ready(s, o, k, n)
                             /\ v = Refill[o]
      OBVIOUS
    <2>2. o \in Operations /\ s \in Table /\ k \in Subjects /\ st = d.lim[o]
      BY <1>3, <1>4, <1>5, <2>1
    <2>3. /\ st \in Table /\ st.now = n
          /\ Has(s, o, k, n) \in Int /\ Has(st, o, k, m) \in Int
          /\ \/ Has(st, o, k, m) = Capacity[o]
             \/ Has(st, o, k, m) >= Has(s, o, k, n) + w * v
      <3>1. /\ st \in Table /\ st.now = n
            /\ Has(s, o, k, n) \in Int /\ Has(st, o, k, n + w) \in Int
            /\ \/ Has(st, o, k, n + w) = Capacity[o]
               \/ Has(st, o, k, n + w) >= Has(s, o, k, n) + w * Refill[o]
        <4>1. o \in Operations /\ s \in Table /\ k \in Subjects /\ w \in Nat
              /\ st = Ready(s, o, k, n)
          BY <1>6, <2>1, <2>2
        <4> QED BY <4>1, ServedLater
      <3> QED BY <1>6, <2>1, <3>1
    <2>5. /\ Capacity[o] \in Nat /\ Capacity[o] >= Token /\ Token \in Nat
          /\ v \in Nat
      BY <2>1, <2>2, Rates
    <2>4. Has(s, o, k, n) < Token => w * v >= Token - Has(s, o, k, n)
      <3>1. /\ w * v \in Int /\ d.wait * v \in Int /\ w * v >= d.wait * v
        BY <1>5, <1>6, <2>5, Grows
      <3>2. Has(s, o, k, n) < Token => d.wait * v >= Token - Has(s, o, k, n)
        BY <1>5, <2>1
      <3> QED BY <2>3, <2>5, <3>1, <3>2
    <2>6. PICK x \in Nat : x = w * v
      BY <2>5
    <2>7. Has(st, o, k, m) >= Token
      BY <2>3, <2>4, <2>5, <2>6
    <2> QED BY <2>1, <2>2, <2>3, <2>7
  <1>8. PICK L2, e : L2 = d.lim /\ e = Reserve(L2, W, m)
    OBVIOUS
  <1>9. \A o \in Operations : L2[o] \in Table
    <2>1. TablesOK(d.lim, I)
      BY <1>1, <1>2, ReserveOK
    <2> QED BY <1>8, <2>1 DEF TablesOK, TableOK
  <1>10. \A o \in ops : L2[o].now <= m /\ Has(L2[o], o, W[o], m) >= Token
    BY <1>6, <1>7, <1>8
  <1>11. e.ok
    BY <1>1, <1>8, <1>9, <1>10, ReserveOnTime
  <1> QED BY <1>6, <1>8, <1>11

\* No clock the limiter has seen is ahead of the time.
ClockInv == \A o \in Operations : lim[o].now <= now

LEMMA ClockNext == ASSUME TypeInv, LimitInv, ClockInv, [Next]_vars PROVE ClockInv'
  <1>1. TablesOK(lim, ideal) /\ now \in Nat
    BY DEF TypeInv, LimitInv
  <1>2. \A o \in Operations : lim[o] \in Table /\ lim[o].now \in Int
    BY <1>1 DEF TablesOK, TableOK, Table
  <1>3. ASSUME NEW r \in Reqs, NEW t \in Sampled, NEW a \in Attempts,
               ReserveFor(r, a, t)
        PROVE  ClockInv'
    <2>1. t \in Nat /\ t <= now
      BY <1>1 DEF Sampled
    <2>2. PICK d : d = Reserve(lim, Wanted(a), t) /\ lim' = d.lim /\ now' = now
      BY <1>3, Zenon DEF ReserveFor
    <2>3. PICK L, I : L = lim /\ I = ideal
      OBVIOUS
    <2>4. \A o \in Operations : d.lim[o].now \in {L[o].now, t}
      BY <1>1, <2>1, <2>2, <2>3, ReserveOK
    <2> QED BY <2>1, <2>2, <2>3, <2>4 DEF ClockInv
  <1>4. ASSUME NEW r \in Reqs, NEW t \in Sampled, Close(r, t) PROVE ClockInv'
    <2>1. t \in Nat /\ t <= now
      BY <1>1 DEF Sampled
    <2>2. now' = now /\ lim' = Refunded(r, t)
      BY <1>4 DEF Close
    <2>3. ASSUME NEW o \in Operations PROVE lim'[o].now \in {lim[o].now, t}
      <3>1. CASE req[r].keep
        BY <2>2, <3>1 DEF Refunded
      <3>2. CASE ~req[r].keep
        <4>1. PICK x : lim'[o] = lim[o] \/ lim'[o] = [lim[o] EXCEPT !.now = t, !.own = x]
          <5>1. lim' = refundMany(lim, req[r].items, t)
            BY <2>2, <3>2 DEF Refunded
          <5> QED BY <1>2, <5>1 DEF refundMany, Table
        <4> QED BY <1>2, <4>1 DEF Table
      <3> QED BY <3>1, <3>2
    <2> QED BY <2>1, <2>2, <2>3 DEF ClockInv
  <1>5. ASSUME Tick PROVE ClockInv'
    BY <1>1, <1>2, <1>5 DEF ClockInv, Tick
  <1>6. CASE UNCHANGED <<lim, now>>
    BY <1>6 DEF ClockInv
  <1>7. ASSUME NEW r \in Reqs, NEW t \in Sampled, Observe(r, t)
        PROVE  UNCHANGED <<lim, now>>
    BY <1>7 DEF Observe
  <1>8. ASSUME NEW r \in Reqs, NEW verdict, NEW ok,
               \/ AcquireWork(r) \/ Judge(r, verdict)
               \/ WriteAggregate(r, ok) \/ WriteIndividual(r, ok)
        PROVE  UNCHANGED <<lim, now>>
    BY <1>8 DEF AcquireWork, Judge, WriteAggregate, WriteIndividual
  <1>9. CASE UNCHANGED vars
    BY <1>6, <1>9 DEF vars
  <1> QED BY <1>3, <1>4, <1>5, <1>6, <1>7, <1>8, <1>9 DEF Next

LEMMA ClockInit == ASSUME Init PROVE ClockInv
  BY DEF Init, ClockInv, NewLimiter

\* Whoever is refused and comes back after the seconds it was told (retryAfter,
\* rounded by writeRateLimitError) and the half of one that rounding may drop is
\* admitted if nobody else spent meanwhile, for any rates, lengths of generations
\* and bounds: its bucket, moved with its generation, has filled up, or it was
\* forgotten and it gets a full one, its own or the shared one.
THEOREM RetryAfterIsHonest == Spec => RetryAfterHonest
  <1>1. Init => LimitInv /\ ClockInv
    BY LimitInit, ClockInit
  <1>2. AccountInv /\ LimitInv /\ ClockInv /\ [Next]_vars => LimitInv' /\ ClockInv'
    BY LimitNext, ClockNext DEF AccountInv
  <1>3. AccountInv /\ LimitInv /\ ClockInv
          => (Refusal => \A a \in Attempts : ComesBack(lim, a, now))
    <2>1. SUFFICES ASSUME AccountInv, LimitInv, ClockInv, NEW a \in Attempts
                   PROVE  ComesBack(lim, a, now)
      OBVIOUS
    <2>2. PICK L, I, n : L = lim /\ I = ideal /\ n = now
      OBVIOUS
    <2>3. TablesOK(L, I) /\ n \in Nat /\ \A o \in Operations : L[o].now <= n
      BY <2>1, <2>2 DEF AccountInv, TypeInv, LimitInv, ClockInv
    <2>4. ComesBack(L, a, n)
      BY <2>3, HonestAnswer
    <2> QED BY <2>2, <2>4
  <1> QED BY <1>1, <1>2, <1>3, AccountAlways, PTL DEF Spec, RetryAfterHonest
=============================================================================
