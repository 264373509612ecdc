---------------------------- MODULE BackupProofs ----------------------------
(***************************************************************************)
(* Proofs about the backup service, for any finite set of runs, any        *)
(* retention windows and any number of faults.                             *)
(***************************************************************************)
EXTENDS Backup, FiniteSetTheorems, WellFoundedInduction, TLAPS

Intact == {"whole", "altered"}
Copied == Intact \cup {"rot"}
Contents == {"empty", "part"} \cup Copied
Kinds == {"idle", "run", "start", "latest", "list", "retain"}
RunPcs == {"record", "copy", "verify", "syncfile", "publish", "unlink", "check",
           "syncdir", "success", "undofinal", "recordfailure", "droptemp"}
Pcs == RunPcs \cup {"idle", "running", "syncing", "retired", "scan", "query",
                    "retire", "remove", "unretire"}
Op == [kind : Kinds, pc : Pcs, id : Runs \cup {0}, todo : SUBSET Runs,
       passed : SUBSET Runs, decayed : SUBSET Runs]
Names == [temp : SUBSET Runs, final : SUBSET Runs]

Row == [status : Statuses, kept : BOOLEAN,
        ver : {"unknown", "passed", "failed", "retired"}, at : 0..MaxTime,
        sum : {"none", "whole", "altered"}]

TypeInv ==
  /\ rows \in Rows /\ temp \in SUBSET Runs /\ final \in SUBSET Runs
  /\ disk \in Names /\ data \in [Runs -> Contents] /\ synced \in SUBSET Runs
  /\ started \in [Runs -> Int] /\ snap \in [Runs -> SUBSET Rows]
  /\ op \in Op /\ up \in BOOLEAN /\ (~up => op = Idle) /\ now \in 0..MaxTime /\ faults \in Nat
  /\ misread \in SUBSET Runs /\ reported \in SUBSET Runs

\* Every name was drawn by a run; what was reported is durable, name and bytes.
FilesInv ==
  /\ \A i \in final \cup disk.final : started[i] \in 0..MaxTime
  /\ \A i \in reported :
       /\ i \in final \cap disk.final \cap synced /\ i \notin temp \cup disk.temp
       /\ data[i] \in Copied /\ started[i] # -1

(***************************************************************************)
(* Tables, current and copied.                                             *)
(***************************************************************************)
SucceededIn(T) == {i \in Runs : T[i].status = "succeeded"}
RetiredIn(T) == {i \in SucceededIn(T) : ~T[i].kept /\ T[i].ver = "retired"}
NewerIn(T, i, j) == T[i].at > T[j].at \/ (T[i].at = T[j].at /\ i > j)
SeenIn(T, R, w, i) == {T[j].at \div w.span : j \in {k \in R : NewerIn(T, k, i)}}
KeptBy(T, R, w, i) ==
  /\ T[i].at \div w.span \notin SeenIn(T, R, w, i)
  /\ Cardinality(SeenIn(T, R, w, i)) < w.limit

\* What is retired is outside of every window; what succeeded is retained or
\* retired.
TableOK(T) ==
  /\ \A i \in RetiredIn(T), w \in Windows : ~KeptBy(T, SucceededIn(T), w, i)
  /\ \A i \in SucceededIn(T) : T[i].kept \/ T[i].ver = "retired"
Tables == {rows} \cup UNION {snap[j] : j \in Runs}
TablesInv ==
  \A T \in Tables :
    /\ TableOK(T)
    /\ \A i \in Runs : started[i] = -1 => T[i].status = "none"

\* What was reported and is legible is failed in no table, unless it was misread.
ReportedInv ==
  \A i \in reported \ misread : data[i] \in Intact =>
    \A T \in Tables : T[i].status # "failed"

(***************************************************************************)
(* The operation that holds runMu.                                         *)
(***************************************************************************)
RunInv ==
  LET i == op.id
  IN  op.kind = "run" =>
        /\ op.pc \in RunPcs /\ i \in Runs /\ started[i] \in 0..MaxTime /\ i \notin reported
        /\ op.pc # "droptemp" =>
             /\ rows[i].status = IF op.pc = "record" THEN "none" ELSE "running"
             /\ \A T \in Tables : T[i].status # "failed"
        /\ op.pc \in {"verify", "syncfile", "publish", "unlink", "check", "syncdir", "success"}
             => data[i] \in Copied
        /\ op.pc \in {"publish", "unlink", "check", "syncdir", "success"} => i \in synced
        /\ op.pc \in {"unlink", "check", "syncdir", "success"} => i \in final
        /\ op.pc \in {"check", "syncdir", "success"} => i \notin temp
        /\ op.pc = "success" => i \in disk.final /\ i \notin disk.temp

\* A record that this pass verified and does not retire.
Anchor(k) ==
  /\ k \in final \ temp /\ rows[k].kept /\ rows[k].status = "succeeded"
  /\ data[k] = rows[k].sum \/ k \in op.decayed
Doomed == op.todo \cup IF op.pc = "remove" THEN {op.id} ELSE {}
RetainInv ==
  op.kind = "retain" =>
    /\ op.pc \in {"verify", "retire", "remove", "unretire"}
    /\ op.pc \in {"remove", "unretire"} => op.id \in Runs
    /\ op.passed \subseteq SucceededIn(rows)
    /\ op.pc = "verify" => /\ op.todo \subseteq successfulRetained
                           /\ \A j \in op.passed : Anchor(j)
    /\ op.pc # "verify" =>
         /\ op.todo \subseteq op.passed
         /\ \A i \in op.todo, w \in Windows : ~KeptBy(rows, op.passed, w, i)
         /\ \A i \in Doomed : \E k \in op.passed \ Doomed : Anchor(k) /\ Newer(k, i)

Reconciles == op.kind \in {"start", "latest", "list"}
SettledRow(i) ==
  Legible(i) => /\ i \in successfulRetained \/ rows[i].status = "failed"
                /\ i \in reported => i \in successfulRetained
ReconcileInv ==
  Reconciles =>
    /\ op.pc \in {"running", "syncing", "retired", "scan", "query"}
    /\ op.pc \in {"running", "syncing"} => op.todo = Running
    /\ op.pc = "retired" => Running = {} /\ Retired \cap final \subseteq op.todo
    /\ op.pc = "scan" =>
         /\ Running = {} /\ Retired \cap final = {}
         /\ \A i \in final \ (misread \cup op.todo) : SettledRow(i)

IInv == /\ TypeInv /\ FilesInv /\ TablesInv /\ ReportedInv
        /\ RunInv /\ RetainInv /\ ReconcileInv

-----------------------------------------------------------------------------
(***************************************************************************)
(* Tables: a set of runs has a newest one, and a window that keeps a run   *)
(* among many keeps it among fewer.                                        *)
(***************************************************************************)
LEMMA RowsType == Rows = [Runs -> Row]
  BY DEF Rows, Row

LEMMA RowType ==
  ASSUME NEW T \in Rows, NEW i \in Runs
  PROVE  T[i] \in Row /\ T[i].at \in Int /\ T[i].kept \in BOOLEAN
<1>1. T[i] \in Row
  BY RowsType
<1> QED BY <1>1, RunsAssumption DEF Row

LEMMA NewerOrder ==
  ASSUME NEW T \in Rows, NEW i \in Runs, NEW j \in Runs, NEW k \in Runs
  PROVE  /\ ~NewerIn(T, i, i)
         /\ i # j => NewerIn(T, i, j) \/ NewerIn(T, j, i)
         /\ NewerIn(T, i, j) /\ NewerIn(T, j, k) => NewerIn(T, i, k)
<1>1. T[i].at \in Int /\ T[j].at \in Int /\ T[k].at \in Int
  BY RowType
<1>2. i \in Int /\ j \in Int /\ k \in Int
  BY RunsAssumption
<1> QED BY <1>1, <1>2 DEF NewerIn

\* The run with the fewest newer ones has none.
LEMMA HasNewest ==
  ASSUME NEW T \in Rows, NEW S \in SUBSET Runs, S # {}
  PROVE  \E i \in S : \A j \in S \ {i} : NewerIn(T, i, j)
<1> DEFINE A(i) == {j \in S : NewerIn(T, j, i)}
           N == {Cardinality(A(i)) : i \in S}
<1>1. IsFiniteSet(S)
  BY RunsAssumption, FS_Subset
<1>2. \A i \in S : IsFiniteSet(A(i)) /\ Cardinality(A(i)) \in Nat
  BY <1>1, FS_Subset, FS_CardinalityType
<1>3. N \subseteq Nat /\ N # {}
  BY <1>2
<1>4. \E n \in N : \A m \in N : ~(<<m, n>> \in OpToRel(<, Nat))
  <2> HIDE DEF N
  <2> QED BY <1>3, NatLessThanWellFounded, WFMin
<1>5. PICK i \in S : \A m \in N : ~(<<m, Cardinality(A(i))>> \in OpToRel(<, Nat))
  BY <1>4
<1>6. \A j \in S : ~(Cardinality(A(j)) < Cardinality(A(i)))
  BY <1>2, <1>5 DEF OpToRel
<1>7. ASSUME NEW j \in A(i) PROVE FALSE
  <2>1. j \in S /\ NewerIn(T, j, i)
    OBVIOUS
  <2>2. A(j) \subseteq A(i)
    BY <2>1, NewerOrder
  <2>3. j \notin A(j)
    BY NewerOrder
  <2>4. A(j) # A(i)
    BY <2>3, <1>7
  <2>5. Cardinality(A(j)) <= Cardinality(A(i))
        /\ (Cardinality(A(j)) = Cardinality(A(i)) => A(j) = A(i))
    BY <1>2, <2>2, FS_Subset
  <2>6. PICK a \in Nat, b \in Nat : a = Cardinality(A(j)) /\ b = Cardinality(A(i))
    BY <1>2, <2>1
  <2>7. a <= b /\ a # b /\ ~(a < b)
    BY <1>6, <2>1, <2>4, <2>5, <2>6
  <2> QED BY <2>7
<1>8. \A j \in S \ {i} : NewerIn(T, i, j)
  BY <1>7, NewerOrder
<1> QED BY <1>8

LEMMA NewestOK ==
  ASSUME TypeInv, NEW S \in SUBSET Runs, S # {}
  PROVE  Newest(S) \in S /\ \A j \in S \ {Newest(S)} : Newer(Newest(S), j)
<1>1. \E i \in S : \A j \in S \ {i} : Newer(i, j)
  BY HasNewest DEF TypeInv, NewerIn, Newer
<1> QED BY <1>1 DEF Newest

LEMMA SeenFinite ==
  ASSUME NEW T, NEW R \in SUBSET Runs, NEW w, NEW i
  PROVE  IsFiniteSet(SeenIn(T, R, w, i)) /\ Cardinality(SeenIn(T, R, w, i)) \in Nat
<1> DEFINE D == {k \in R : NewerIn(T, k, i)}
           f == [j \in D |-> T[j].at \div w.span]
<1>1. IsFiniteSet(D)
  BY RunsAssumption, FS_Subset
<1>2. SeenIn(T, R, w, i) = {f[j] : j \in D}
  BY DEF SeenIn
<1>3. IsFiniteSet({f[j] : j \in D})
  <2> HIDE DEF D
  <2>1. f \in Surjection(D, {f[j] : j \in D})
    BY DEF Surjection
  <2> HIDE DEF f
  <2> QED BY <1>1, <2>1, FS_Surjection
<1> QED BY <1>2, <1>3, FS_CardinalityType

LEMMA KeptByFewer ==
  ASSUME NEW T \in Rows, NEW U \in Rows, NEW S \in SUBSET Runs, NEW R \in SUBSET S,
         NEW i \in Runs, NEW w \in Windows,
         \A j \in R \cup {i} : U[j].at = T[j].at, KeptBy(U, S, w, i)
  PROVE  KeptBy(T, R, w, i)
<1>1. SeenIn(T, R, w, i) \subseteq SeenIn(U, S, w, i)
  BY DEF SeenIn, NewerIn
<1>2. Cardinality(SeenIn(T, R, w, i)) <= Cardinality(SeenIn(U, S, w, i))
  BY <1>1, SeenFinite, FS_Subset
<1>3. Cardinality(SeenIn(T, R, w, i)) < w.limit
  BY <1>2, SeenFinite, RunsAssumption DEF KeptBy
<1> QED BY <1>1, <1>3 DEF KeptBy

\* The windows of the table are the ones of retentionSet.
LEMMA RetentionSet ==
  ASSUME NEW R \in SUBSET Runs, NEW i \in R
  PROVE  i \in retentionSet(R) <=> \E w \in Windows : KeptBy(rows, R, w, i)
<1>1. \A w \in Windows : i \in selectBuckets(R, w) <=> KeptBy(rows, R, w, i)
  BY DEF selectBuckets, KeptBy, SeenIn, NewerIn, Newer, Bucket
<1> QED BY <1>1 DEF retentionSet

\* The newest run is in every window.
LEMMA NewestIsKept ==
  ASSUME TypeInv, NEW R \in SUBSET Runs, R # {}
  PROVE  Newest(R) \in retentionSet(R)
<1> DEFINE n == Newest(R)
<1>1. n \in R /\ \A j \in R \ {n} : NewerIn(rows, n, j)
  BY NewestOK DEF Newer, NewerIn
<1>2. \A k \in R : ~NewerIn(rows, k, n)
  BY <1>1, NewerOrder DEF TypeInv
<1>3. PICK w \in Windows : w.limit \in Nat \ {0}
  BY RunsAssumption
<1> HIDE DEF n
<1>4. SeenIn(rows, R, w, n) = {}
  BY <1>2 DEF SeenIn
<1>5. KeptBy(rows, R, w, n)
  BY <1>3, <1>4, FS_EmptySet DEF KeptBy
<1> QED BY <1>1, <1>5, RetentionSet DEF n

-----------------------------------------------------------------------------
(***************************************************************************)
(* What a change of a row does to the tables.                              *)
(***************************************************************************)
LEMMA TableStep ==
  ASSUME NEW T \in Rows, NEW U \in Rows, TableOK(T),
         \A j \in SucceededIn(T) : j \in SucceededIn(U) /\ U[j].at = T[j].at,
         \A i \in SucceededIn(U) : U[i].kept \/ U[i].ver = "retired",
         \A i \in RetiredIn(U) :
           \/ i \in RetiredIn(T)
           \/ \A w \in Windows : ~KeptBy(U, SucceededIn(U), w, i)
  PROVE  TableOK(U)
<1>1. ASSUME NEW i \in RetiredIn(U), NEW w \in Windows, KeptBy(U, SucceededIn(U), w, i)
      PROVE  FALSE
  <2>1. i \in RetiredIn(T)
    BY <1>1
  <2>2. i \in SucceededIn(T) /\ i \in Runs
    BY <2>1 DEF RetiredIn, SucceededIn
  <2>3. SucceededIn(T) \in SUBSET SucceededIn(U) /\ SucceededIn(U) \in SUBSET Runs
    BY DEF SucceededIn
  <2>4. KeptBy(T, SucceededIn(T), w, i)
    BY <1>1, <2>2, <2>3, KeptByFewer
  <2> QED BY <2>1, <2>4 DEF TableOK
<1> QED BY <1>1 DEF TableOK

\* A row that did not succeed changes, or succeeds; a row that succeeded stays
\* so, retained, with its time.
LEMMA RowTo ==
  ASSUME NEW T \in Rows, TableOK(T), NEW i \in Runs, NEW row \in Row,
         row.status = "succeeded" => row.kept,
         T[i].status = "succeeded" => row.status = "succeeded" /\ row.at = T[i].at
  PROVE  [T EXCEPT ![i] = row] \in Rows /\ TableOK([T EXCEPT ![i] = row])
<1>1. PICK U : U = [T EXCEPT ![i] = row]
  OBVIOUS
<1>2. U \in Rows /\ U[i] = row /\ \A j \in Runs : j # i => U[j] = T[j]
  BY <1>1, RowsType
<1>3. \A j \in SucceededIn(T) : j \in SucceededIn(U) /\ U[j].at = T[j].at
  BY <1>2 DEF SucceededIn
<1>4. \A j \in SucceededIn(U) : U[j].kept \/ U[j].ver = "retired"
  <2> SUFFICES ASSUME NEW j \in SucceededIn(U) PROVE U[j].kept \/ U[j].ver = "retired"
    OBVIOUS
  <2>1. CASE j = i
    BY <1>2, <2>1 DEF SucceededIn
  <2>2. CASE j # i
    BY <1>2, <2>2 DEF SucceededIn, TableOK
  <2> QED BY <2>1, <2>2
<1>5. \A j \in RetiredIn(U) : j \in RetiredIn(T)
  BY <1>2 DEF RetiredIn, SucceededIn
<1>6. TableOK(U)
  BY <1>2, <1>3, <1>4, <1>5, TableStep
<1> QED BY <1>1, <1>2, <1>6

LEMMA TablesType == TypeInv => rows \in Tables /\ Tables \subseteq Rows
  BY DEF Tables, TypeInv

LEMMA TablesTo ==
  ASSUME TypeInv, TablesInv, NEW i \in Runs, NEW row \in Row,
         row.status = "succeeded" => row.kept,
         rows[i].status = "succeeded" => row.status = "succeeded" /\ row.at = rows[i].at,
         started[i] = -1 => row.status = "none",
         rows' = [rows EXCEPT ![i] = row], UNCHANGED <<snap, started>>
  PROVE  /\ TablesInv' /\ rows' \in Rows /\ Tables' \subseteq Tables \cup {rows'}
         /\ rows'[i] = row /\ \A j \in Runs : j # i => rows'[j] = rows[j]
<1>1. rows' \in Rows /\ TableOK(rows')
  BY RowTo, TablesType DEF TypeInv, TablesInv
<1>2. rows'[i] = row /\ \A j \in Runs : j # i => rows'[j] = rows[j]
  BY RowsType DEF TypeInv
<1>3. Tables' \subseteq Tables \cup {rows'}
  BY DEF Tables
<1>4. \A j \in Runs : started[j] = -1 => rows'[j].status = "none"
  BY <1>2, TablesType DEF TablesInv
<1>5. ASSUME NEW T \in Tables'
      PROVE  TableOK(T) /\ \A j \in Runs : started'[j] = -1 => T[j].status = "none"
  <2>1. CASE T = rows'
    BY <1>1, <1>4, <2>1
  <2>2. CASE T \in Tables
    BY <2>2 DEF TablesInv
  <2> QED BY <1>3, <2>1, <2>2
<1>6. TablesInv'
  BY <1>5 DEF TablesInv
<1> QED BY <1>1, <1>2, <1>3, <1>6

LEMMA TablesKept ==
  ASSUME TablesInv, UNCHANGED <<rows, snap>>,
         \A i \in Runs : started'[i] = -1 => started[i] = -1
  PROVE  TablesInv' /\ Tables' = Tables
<1>1. Tables' = Tables
  BY DEF Tables
<1> QED BY <1>1 DEF TablesInv

LEMMA FilesKept ==
  ASSUME FilesInv, UNCHANGED <<directory, started, reported>>
  PROVE  FilesInv'
  BY DEF FilesInv, directory

\* Contents get worse, reports and tables are the ones there were, but for
\* rows that fail for a reason.
LEMMA ReportedKept ==
  ASSUME ReportedInv, reported' \subseteq reported, misread \subseteq misread',
         \A i \in reported' : data'[i] \in Intact => data[i] \in Intact,
         \A T \in Tables' : \A i \in reported' \ misread' :
           data'[i] \in Intact /\ T[i].status = "failed"
             => \E U \in Tables : U[i].status = "failed"
  PROVE  ReportedInv'
<1> SUFFICES ASSUME NEW i \in reported' \ misread', data'[i] \in Intact, NEW T \in Tables'
             PROVE  T[i].status # "failed"
  BY DEF ReportedInv
<1>1. i \in reported \ misread /\ data[i] \in Intact
  OBVIOUS
<1> QED BY <1>1 DEF ReportedInv

LEMMA IdleOp ==
  ASSUME op' = Idle
  PROVE  /\ op' \in Op /\ op'.kind = "idle" /\ op'.pc = "idle"
         /\ RunInv' /\ RetainInv' /\ ReconcileInv'
<1>1. Idle \in Op /\ Idle.kind = "idle" /\ Idle.pc = "idle"
  BY DEF Idle, Op, Kinds, Pcs
<1> QED BY <1>1 DEF RunInv, RetainInv, ReconcileInv, Reconciles

LEMMA GotoOp ==
  ASSUME op \in Op, NEW pc \in Pcs, Goto(pc)
  PROVE  /\ op' \in Op /\ op'.pc = pc /\ op'.kind = op.kind /\ op'.id = op.id
         /\ op'.todo = op.todo /\ op'.passed = op.passed /\ op'.decayed = op.decayed
  BY DEF Goto, Op

-----------------------------------------------------------------------------
(***************************************************************************)
(* Run.                                                                    *)
(***************************************************************************)
LEMMA RunKind ==
  ASSUME op'.kind = "run"
  PROVE  RetainInv' /\ ReconcileInv'
  BY DEF RetainInv, ReconcileInv, Reconciles

LEMMA StepRunBegin ==
  ASSUME IInv, NEW i \in Runs, RunBegin(i)
  PROVE  IInv'
<1> USE DEF IInv
<1>1. PICK n : n = [Idle EXCEPT !.kind = "run", !.pc = "record", !.id = i]
  OBVIOUS
<1>2. n \in Op /\ n.kind = "run" /\ n.pc = "record" /\ n.id = i
  BY <1>1 DEF Idle, Op, Kinds, Pcs, RunPcs
<1>3. op' = n
  BY <1>1 DEF RunBegin
<1>4. /\ started' = [started EXCEPT ![i] = now] /\ now \in 0..MaxTime /\ now # -1
      /\ started[i] = -1 /\ started' \in [Runs -> Int] /\ started'[i] = now
      /\ \A j \in Runs : j # i => started'[j] = started[j]
  BY RunsAssumption DEF RunBegin, TypeInv
<1>5. TypeInv'
  BY <1>2, <1>3, <1>4 DEF RunBegin, NoFault, TypeInv
<1>6. i \notin final /\ i \notin disk.final /\ i \notin reported
  BY <1>4, RunsAssumption DEF FilesInv
<1>7. FilesInv'
  <2>1. final' = final /\ disk' = disk /\ reported' = reported /\ synced' = synced
        /\ data' = data /\ temp' = temp \cup {i}
    BY DEF RunBegin
  <2>2. final \subseteq Runs /\ disk.final \subseteq Runs /\ reported \subseteq Runs
    BY DEF TypeInv, Names
  <2> QED BY <1>4, <1>6, <2>1, <2>2 DEF FilesInv
<1>8. TablesInv' /\ Tables' = Tables
  BY <1>4, TablesKept DEF RunBegin
<1>9. ReportedInv'
  BY <1>8, ReportedKept DEF RunBegin
<1>10. \A T \in Tables : T[i].status = "none"
  BY <1>4 DEF TablesInv
<1>11. rows'[i].status = "none" /\ i \notin reported'
  BY <1>6, <1>10, TablesType DEF RunBegin
<1>12. RunInv'
  BY <1>2, <1>3, <1>4, <1>8, <1>10, <1>11 DEF RunInv, RunPcs
<1>13. RetainInv' /\ ReconcileInv'
  BY <1>2, <1>3, RunKind
<1> QED BY <1>5, <1>7, <1>8, <1>9, <1>12, <1>13

\* What the record of a run in progress says.
LEMMA Running1 ==
  ASSUME IInv, op.kind = "run"
  PROVE  /\ op \in Op /\ op.id \in Runs /\ op.id \notin reported
         /\ started[op.id] \in 0..MaxTime /\ started[op.id] # -1
  BY RunsAssumption DEF IInv, TypeInv, RunInv

LEMMA StepRunRecordStart ==
  ASSUME IInv, RunRecordStart
  PROVE  IInv'
<1> USE DEF IInv
<1>0. up /\ op.kind = "run" /\ op.pc = "record"
  BY DEF RunRecordStart, At
<1>1. /\ op \in Op /\ op.id \in Runs /\ op.id \notin reported
      /\ started[op.id] \in 0..MaxTime /\ started[op.id] # -1
  BY <1>0, Running1
<1>2. PICK i \in Runs : i = op.id
  BY <1>1
<1>3. rows[i].status = "none" /\ \A T \in Tables : T[i].status # "failed"
  BY <1>0, <1>2 DEF RunInv
<1>4. FilesInv'
  BY FilesKept DEF RunRecordStart, history
<1>5. CASE UNCHANGED rows /\ Fault /\ Goto("droptemp")
  <2>1. /\ op' \in Op /\ op'.pc = "droptemp" /\ op'.kind = "run" /\ op'.id = i
    BY <1>0, <1>1, <1>2, <1>5, GotoOp DEF Pcs, RunPcs
  <2>2. TypeInv'
    BY <1>0, <1>5, <2>1 DEF RunRecordStart, TypeInv, directory, history, Fault
  <2>3. TablesInv' /\ Tables' = Tables
    BY <1>5, TablesKept DEF RunRecordStart, history
  <2>4. ReportedInv'
    BY <2>3, ReportedKept DEF RunRecordStart, history, directory
  <2>5. RunInv'
    BY <1>1, <1>2, <2>1 DEF RunInv, RunPcs, RunRecordStart, history
  <2> QED BY <2>1, <2>2, <2>3, <2>4, <2>5, <1>4, RunKind
<1>6. CASE /\ rows' = [rows EXCEPT ![op.id] = [NoRow EXCEPT !.status = "running", !.kept = TRUE]]
           /\ Goto("copy") /\ NoFault
  <2>1. /\ op' \in Op /\ op'.pc = "copy" /\ op'.kind = "run" /\ op'.id = i
    BY <1>0, <1>1, <1>2, <1>6, GotoOp DEF Pcs, RunPcs
  <2>2. PICK row : row = [NoRow EXCEPT !.status = "running", !.kept = TRUE]
    OBVIOUS
  <2>3. row \in Row /\ row.status = "running"
    <3>1. row = [status |-> "running", kept |-> TRUE, ver |-> "unknown", at |-> 0,
                  sum |-> "none"]
      BY <2>2 DEF NoRow
    <3> QED BY <3>1, RunsAssumption DEF Row, Statuses
  <2>4. /\ TablesInv' /\ rows' \in Rows /\ Tables' \subseteq Tables \cup {rows'}
        /\ rows'[i] = row /\ \A j \in Runs : j # i => rows'[j] = rows[j]
    BY <1>1, <1>2, <1>3, <1>6, <2>2, <2>3, TablesTo DEF RunRecordStart, history
  <2>5. TypeInv'
    BY <1>0, <1>6, <2>1, <2>4 DEF RunRecordStart, TypeInv, directory, history, NoFault
  <2>6. ReportedInv'
    <3>1. \A j \in Runs : rows'[j].status = "failed" => rows[j].status = "failed"
      BY <2>3, <2>4
    <3> QED BY <2>4, <3>1, ReportedKept, TablesType DEF RunRecordStart, history, directory, TypeInv
  <2>7. RunInv'
    BY <1>1, <1>2, <1>3, <2>1, <2>3, <2>4 DEF RunInv, RunPcs, RunRecordStart, history
  <2> QED BY <2>1, <2>4, <2>5, <2>6, <2>7, <1>4, RunKind
<1> QED BY <1>5, <1>6 DEF RunRecordStart

LEMMA StepRunCopy ==
  ASSUME IInv, RunCopy
  PROVE  IInv'
<1> USE DEF IInv
<1>0. up /\ op.kind = "run" /\ op.pc = "copy"
  BY DEF RunCopy, At
<1>1. /\ op \in Op /\ op.id \in Runs /\ op.id \notin reported
      /\ started[op.id] \in 0..MaxTime /\ started[op.id] # -1
  BY <1>0, Running1
<1>2. PICK i \in Runs : i = op.id
  BY <1>1
<1>3. rows[i].status = "running" /\ \A T \in Tables : T[i].status # "failed"
  BY <1>0, <1>2 DEF RunInv
<1>4. Tables' \subseteq Tables
  <2>1. rows \in Tables
    BY DEF Tables
  <2>2. \A j \in Runs : snap'[j] \subseteq snap[j] \cup {rows}
    BY <1>2 DEF RunCopy, TypeInv
  <2> QED BY <2>1, <2>2 DEF Tables, RunCopy
<1>5. TablesInv'
  BY <1>4 DEF TablesInv, RunCopy
<1>6. PICK d \in {"whole", "part"}, pc \in {"verify", "recordfailure"} :
        /\ data' = [data EXCEPT ![i] = d] /\ Goto(pc) /\ (pc = "verify" => d = "whole")
  BY <1>2 DEF RunCopy
<1>7. /\ op' \in Op /\ op'.pc = pc /\ op'.kind = "run" /\ op'.id = i
  BY <1>0, <1>1, <1>2, <1>6, GotoOp DEF Pcs, RunPcs
<1>8. /\ data' \in [Runs -> Contents] /\ data'[i] = d
      /\ \A j \in Runs : j # i => data'[j] = data[j]
  BY <1>6 DEF TypeInv, Contents, Copied, Intact
<1>9. snap' \in [Runs -> SUBSET Rows] /\ faults' \in Nat
  BY DEF RunCopy, TypeInv, Fault, NoFault
<1>10. TypeInv'
  BY <1>0, <1>7, <1>8, <1>9 DEF RunCopy, TypeInv
<1>11. FilesInv'
  BY <1>1, <1>2, <1>8 DEF FilesInv, RunCopy, TypeInv
<1>12. ReportedInv'
  BY <1>1, <1>2, <1>4, <1>8, ReportedKept DEF RunCopy, TypeInv
<1>13. RunInv'
  <2>1. op'.pc = "verify" => data'[i] \in Copied
    BY <1>6, <1>7, <1>8 DEF Copied, Intact
  <2> QED BY <1>1, <1>2, <1>3, <1>4, <1>6, <1>7, <1>8, <2>1 DEF RunInv, RunPcs, RunCopy
<1> QED BY <1>5, <1>7, <1>10, <1>11, <1>12, <1>13, RunKind

\* The steps between the copy and the record touch the directory only.
FileSteps == {"verify", "syncfile", "publish", "unlink", "check", "syncdir", "success"}
LEMMA RunFileFrame ==
  ASSUME IInv, NEW from \in FileSteps, NEW to \in FileSteps, RunFile(from, to),
         temp' \in SUBSET Runs, final' \in SUBSET Runs, disk' \in Names,
         synced' \in SUBSET Runs, data' = data
  PROVE  /\ op.pc = from /\ op.kind = "run" /\ op.id \in Runs /\ op.id \notin reported
         /\ op'.pc = to /\ op'.kind = "run" /\ op'.id = op.id
         /\ UNCHANGED <<rows, history>> /\ Tables' = Tables
         /\ TypeInv' /\ TablesInv' /\ ReportedInv' /\ RetainInv' /\ ReconcileInv'
<1> USE DEF IInv
<1>1. up /\ op.kind = "run" /\ op.pc = from /\ op.id \in Runs /\ op.id \notin reported
  BY Running1 DEF RunFile, At
<1>2. op' \in Op /\ op'.pc = to /\ op'.kind = "run" /\ op'.id = op.id
  BY <1>1, GotoOp DEF RunFile, FileSteps, Pcs, RunPcs, TypeInv
<1>3. UNCHANGED <<rows, history>>
  BY DEF RunFile
<1>4. TypeInv'
  BY <1>1, <1>2 DEF TypeInv, RunFile, NoFault, history
<1>5. TablesInv' /\ Tables' = Tables
  BY TablesKept DEF RunFile, history
<1>6. ReportedInv'
  BY <1>5, ReportedKept DEF RunFile, history
<1> QED BY <1>1, <1>2, <1>3, <1>4, <1>5, <1>6, RunKind

LEMMA StepRunVerify ==
  ASSUME IInv, RunVerify \/ RunCheck
  PROVE  IInv'
<1> USE DEF IInv
<1>1. PICK from \in {"verify", "check"}, to \in {"syncfile", "syncdir"} :
        /\ RunFile(from, to) /\ UNCHANGED directory
        /\ (from = "verify" /\ to = "syncfile") \/ (from = "check" /\ to = "syncdir")
  BY DEF RunVerify, RunCheck
<1>2. UNCHANGED <<temp, final, disk, data, synced>>
  BY <1>1 DEF directory
<1>3. /\ op.pc = from /\ op.kind = "run" /\ op.id \in Runs /\ op.id \notin reported
      /\ op'.pc = to /\ op'.kind = "run" /\ op'.id = op.id
      /\ UNCHANGED <<rows, history>> /\ Tables' = Tables
      /\ TypeInv' /\ TablesInv' /\ ReportedInv' /\ RetainInv' /\ ReconcileInv'
  BY <1>1, <1>2, RunFileFrame DEF FileSteps, TypeInv
<1>4. FilesInv'
  BY <1>1, <1>3, FilesKept DEF history
<1>5. RunInv'
  BY <1>1, <1>2, <1>3 DEF RunInv, RunPcs, history
<1> QED BY <1>3, <1>4, <1>5

LEMMA StepRunSyncFile ==
  ASSUME IInv, RunSyncFile
  PROVE  IInv'
<1> USE DEF IInv
<1>1. /\ RunFile("syncfile", "publish") /\ synced' = synced \cup {op.id}
      /\ UNCHANGED <<temp, final, disk, data>> /\ op.id \in Runs
  BY Running1 DEF RunSyncFile, RunFile, At
<1>2. /\ op.pc = "syncfile" /\ op.kind = "run" /\ op.id \in Runs /\ op.id \notin reported
      /\ op'.pc = "publish" /\ op'.kind = "run" /\ op'.id = op.id
      /\ UNCHANGED <<rows, history>> /\ Tables' = Tables
      /\ TypeInv' /\ TablesInv' /\ ReportedInv' /\ RetainInv' /\ ReconcileInv'
  BY <1>1, RunFileFrame DEF FileSteps, TypeInv
<1>3. FilesInv'
  BY <1>1, <1>2 DEF FilesInv, history
<1>4. RunInv'
  BY <1>1, <1>2 DEF RunInv, RunPcs, history
<1> QED BY <1>2, <1>3, <1>4

LEMMA StepRunPublish ==
  ASSUME IInv, RunPublish
  PROVE  IInv'
<1> USE DEF IInv
<1>1. /\ RunFile("publish", "unlink") /\ final' = final \cup {op.id}
      /\ UNCHANGED <<temp, disk, data, synced>>
      /\ op.id \in Runs /\ started[op.id] \in 0..MaxTime
  BY Running1 DEF RunPublish, RunFile, At
<1>2. /\ op.pc = "publish" /\ op.kind = "run" /\ op.id \in Runs /\ op.id \notin reported
      /\ op'.pc = "unlink" /\ op'.kind = "run" /\ op'.id = op.id
      /\ UNCHANGED <<rows, history>> /\ Tables' = Tables
      /\ TypeInv' /\ TablesInv' /\ ReportedInv' /\ RetainInv' /\ ReconcileInv'
  BY <1>1, RunFileFrame DEF FileSteps, TypeInv
<1>3. FilesInv'
  BY <1>1, <1>2 DEF FilesInv, history
<1>4. RunInv'
  BY <1>1, <1>2 DEF RunInv, RunPcs, history
<1> QED BY <1>2, <1>3, <1>4

LEMMA StepRunUnlink ==
  ASSUME IInv, RunUnlink
  PROVE  IInv'
<1> USE DEF IInv
<1>1. /\ RunFile("unlink", "check") /\ temp' = temp \ {op.id}
      /\ UNCHANGED <<final, disk, data, synced>>
  BY DEF RunUnlink
<1>2. /\ op.pc = "unlink" /\ op.kind = "run" /\ op.id \in Runs /\ op.id \notin reported
      /\ op'.pc = "check" /\ op'.kind = "run" /\ op'.id = op.id
      /\ UNCHANGED <<rows, history>> /\ Tables' = Tables
      /\ TypeInv' /\ TablesInv' /\ ReportedInv' /\ RetainInv' /\ ReconcileInv'
  BY <1>1, RunFileFrame DEF FileSteps, TypeInv
<1>3. FilesInv'
  BY <1>1, <1>2 DEF FilesInv, history
<1>4. RunInv'
  BY <1>1, <1>2 DEF RunInv, RunPcs, history
<1> QED BY <1>2, <1>3, <1>4

\* After the sync of the directory the disk holds its names.
LEMMA Synced ==
  ASSUME FilesInv, TypeInv, syncDirectory, UNCHANGED <<temp, final, data, synced, started, reported>>
  PROVE  FilesInv' /\ disk' \in Names /\ disk'.final = final /\ disk'.temp = temp
<1>1. disk' \in Names /\ disk'.final = final /\ disk'.temp = temp
  BY DEF syncDirectory, Names, TypeInv
<1> QED BY <1>1 DEF FilesInv

LEMMA StepRunSyncDirectory ==
  ASSUME IInv, RunSyncDirectory
  PROVE  IInv'
<1> USE DEF IInv
<1>1. /\ RunFile("syncdir", "success") /\ syncDirectory
      /\ UNCHANGED <<temp, final, data, synced, started, reported>>
  BY DEF RunSyncDirectory, RunFile, history
<1>2. FilesInv' /\ disk' \in Names /\ disk'.final = final /\ disk'.temp = temp
  BY <1>1, Synced
<1>3. /\ op.pc = "syncdir" /\ op.kind = "run" /\ op.id \in Runs /\ op.id \notin reported
      /\ op'.pc = "success" /\ op'.kind = "run" /\ op'.id = op.id
      /\ UNCHANGED <<rows, history>> /\ Tables' = Tables
      /\ TypeInv' /\ TablesInv' /\ ReportedInv' /\ RetainInv' /\ ReconcileInv'
  BY <1>1, <1>2, RunFileFrame DEF FileSteps, TypeInv
<1>4. RunInv'
  BY <1>1, <1>2, <1>3 DEF RunInv, RunPcs, history
<1> QED BY <1>2, <1>3, <1>4

LEMMA StepRunFails ==
  ASSUME IInv, RunFails
  PROVE  IInv'
<1> USE DEF IInv
<1>1. PICK pc \in {"undofinal", "recordfailure"} : Goto(pc)
  BY DEF RunFails
<1>2. up /\ op.kind = "run" /\ op.pc \notin {"record", "droptemp"}
  BY DEF RunFails
<1>3. /\ op' \in Op /\ op'.pc = pc /\ op'.kind = "run" /\ op'.id = op.id
  BY <1>1, <1>2, GotoOp DEF TypeInv, Pcs, RunPcs
<1>4. TypeInv'
  BY <1>2, <1>3 DEF RunFails, TypeInv, directory, history, Fault, NoFault
<1>5. FilesInv' /\ TablesInv' /\ Tables' = Tables
  BY FilesKept, TablesKept DEF RunFails, history
<1>6. ReportedInv'
  BY <1>5, ReportedKept DEF RunFails, history, directory
<1>7. RunInv'
  BY <1>2, <1>3, <1>5 DEF RunInv, RunPcs, RunFails, history
<1> QED BY <1>3, <1>4, <1>5, <1>6, <1>7, RunKind

LEMMA StepRunUndoFinal ==
  ASSUME IInv, RunUndoFinal
  PROVE  IInv'
<1> USE DEF IInv
<1>1. up /\ op.kind = "run" /\ op.pc = "undofinal" /\ op.id \notin reported
  BY Running1 DEF RunUndoFinal, At
<1>2. /\ op' \in Op /\ op'.pc = "recordfailure" /\ op'.kind = "run" /\ op'.id = op.id
  BY <1>1, GotoOp DEF RunUndoFinal, TypeInv, Pcs, RunPcs
<1>3. final' \subseteq final /\ final \subseteq final' \cup {op.id}
  BY DEF RunUndoFinal
<1>4. TypeInv'
  BY <1>1, <1>2, <1>3 DEF RunUndoFinal, TypeInv, history, Fault, NoFault
<1>5. TablesInv' /\ Tables' = Tables
  BY TablesKept DEF RunUndoFinal, history
<1>6. FilesInv'
  BY <1>1, <1>3 DEF RunUndoFinal, FilesInv, history
<1>7. ReportedInv'
  BY <1>5, ReportedKept DEF RunUndoFinal, history
<1>8. RunInv'
  BY <1>1, <1>2, <1>5 DEF RunInv, RunPcs, RunUndoFinal, history
<1> QED BY <1>2, <1>4, <1>5, <1>6, <1>7, <1>8, RunKind

LEMMA FailureRow ==
  ASSUME TypeInv, NEW i \in Runs, rows[i].status = "running"
  PROVE  \E row \in Row : row.status = "failed" /\ recordFailure(i) = [rows EXCEPT ![i] = row]
<1>1. PICK row : row = [status |-> "failed", kept |-> FALSE, ver |-> "failed", at |-> now,
                       sum |-> "none"]
  OBVIOUS
<1>2. row \in Row /\ row.status = "failed"
  BY <1>1 DEF Row, Statuses, TypeInv
<1>3. recordFailure(i) = [rows EXCEPT ![i] = row]
  BY <1>1 DEF recordFailure
<1> QED BY <1>2, <1>3

SuccessIs(i, b, t, row) ==
  /\ row.status = "succeeded" /\ row.kept = TRUE
  /\ recordSuccess(i, b, t) = [rows EXCEPT ![i] = row]

LEMMA SuccessRow ==
  ASSUME NEW i \in Runs, NEW b \in Intact, NEW t \in 0..MaxTime
  PROVE  \E row \in Row : SuccessIs(i, b, t, row)
<1>1. PICK row : row = [status |-> "succeeded", kept |-> TRUE, ver |-> "passed", at |-> t,
                       sum |-> b]
  OBVIOUS
<1>2. row \in Row /\ row.status = "succeeded" /\ row.kept = TRUE
  BY <1>1 DEF Row, Statuses, Intact
<1>3. recordSuccess(i, b, t) = [rows EXCEPT ![i] = row]
  BY <1>1 DEF recordSuccess
<1> QED BY <1>2, <1>3 DEF SuccessIs

LEMMA StepRunRecordFailure ==
  ASSUME IInv, RunRecordFailure
  PROVE  IInv'
<1> USE DEF IInv
<1>1. up /\ op.kind = "run" /\ op.pc = "recordfailure"
  BY DEF RunRecordFailure, At
<1>2. PICK i \in Runs : i = op.id /\ i \notin reported /\ started[i] # -1 /\ started[i] \in 0..MaxTime
  BY <1>1, Running1
<1>3. /\ op' \in Op /\ op'.pc = "droptemp" /\ op'.kind = "run" /\ op'.id = i
  BY <1>1, <1>2, GotoOp DEF RunRecordFailure, TypeInv, Pcs, RunPcs
<1>4. rows[i].status = "running"
  BY <1>1, <1>2 DEF RunInv
<1>5. PICK row \in Row : row.status = "failed" /\ recordFailure(i) = [rows EXCEPT ![i] = row]
  BY <1>4, FailureRow
<1>6. FilesInv'
  BY FilesKept DEF RunRecordFailure, history
<1>7. RunInv'
  BY <1>2, <1>3 DEF RunInv, RunPcs, RunRecordFailure, history
<1>8. CASE rows' = rows
  <2>1. TypeInv'
    BY <1>1, <1>3, <1>8 DEF RunRecordFailure, TypeInv, directory, history, Fault, NoFault
  <2>2. TablesInv' /\ Tables' = Tables
    BY <1>8, TablesKept DEF RunRecordFailure, history
  <2>3. ReportedInv'
    BY <2>2, ReportedKept DEF RunRecordFailure, history, directory
  <2> QED BY <1>3, <1>6, <1>7, <2>1, <2>2, <2>3, RunKind
<1>9. CASE rows' = recordFailure(i)
  <2>1. /\ TablesInv' /\ rows' \in Rows /\ Tables' \subseteq Tables \cup {rows'}
        /\ rows'[i] = row /\ \A j \in Runs : j # i => rows'[j] = rows[j]
    BY <1>2, <1>4, <1>5, <1>9, TablesTo DEF RunRecordFailure, history
  <2>2. TypeInv'
    BY <1>1, <1>3, <2>1 DEF RunRecordFailure, TypeInv, directory, history, Fault, NoFault
  <2>3. ReportedInv'
    <3>1. \A j \in reported : rows'[j].status = "failed" => rows[j].status = "failed"
      BY <1>2, <2>1 DEF TypeInv
    <3> QED BY <2>1, <3>1, ReportedKept, TablesType DEF RunRecordFailure, history, directory
  <2> QED BY <1>3, <1>6, <1>7, <2>1, <2>2, <2>3, RunKind
<1> QED BY <1>2, <1>8, <1>9 DEF RunRecordFailure

LEMMA StepRunDropTemp ==
  ASSUME IInv, RunDropTemp
  PROVE  IInv'
<1> USE DEF IInv
<1>1. op' = Idle /\ temp' \subseteq temp
  BY DEF RunDropTemp, Return
<1>2. op' \in Op /\ RunInv' /\ RetainInv' /\ ReconcileInv'
  BY <1>1, IdleOp
<1>3. TypeInv'
  BY <1>1, <1>2 DEF RunDropTemp, TypeInv, history, Fault, NoFault
<1>4. TablesInv' /\ Tables' = Tables
  BY TablesKept DEF RunDropTemp, history
<1>5. FilesInv'
  BY <1>1 DEF RunDropTemp, FilesInv, history
<1>6. ReportedInv'
  BY <1>4, ReportedKept DEF RunDropTemp, history
<1> QED BY <1>2, <1>3, <1>4, <1>5, <1>6

LEMMA StepRunRecordSuccess ==
  ASSUME IInv, RunRecordSuccess
  PROVE  IInv'
<1> USE DEF IInv
<1>1. up /\ op.kind = "run" /\ op.pc = "success"
  BY DEF RunRecordSuccess, At
<1>2. PICK i \in Runs : i = op.id /\ i \notin reported /\ started[i] # -1 /\ started[i] \in 0..MaxTime
  BY <1>1, Running1
<1>3. /\ rows[i].status = "running" /\ data[i] \in Copied /\ i \in synced
      /\ i \in final /\ i \notin temp /\ i \in disk.final /\ i \notin disk.temp
      /\ \A T \in Tables : T[i].status # "failed"
  BY <1>1, <1>2 DEF RunInv
<1>4. CASE Fault /\ Goto("droptemp") /\ UNCHANGED <<rows, reported>>
  <2>1. /\ op' \in Op /\ op'.pc = "droptemp" /\ op'.kind = "run" /\ op'.id = i
    BY <1>1, <1>2, <1>4, GotoOp DEF TypeInv, Pcs, RunPcs
  <2>2. TypeInv'
    BY <1>1, <1>4, <2>1 DEF RunRecordSuccess, TypeInv, directory, Fault
  <2>3. TablesInv' /\ Tables' = Tables /\ FilesInv'
    BY <1>4, TablesKept, FilesKept DEF RunRecordSuccess
  <2>4. ReportedInv'
    BY <1>4, <2>3, ReportedKept DEF RunRecordSuccess, directory
  <2>5. RunInv'
    BY <1>2, <1>4, <2>1 DEF RunInv, RunPcs, RunRecordSuccess
  <2> QED BY <2>1, <2>2, <2>3, <2>4, <2>5, RunKind
<1>5. CASE /\ rows' = recordSuccess(op.id, "whole", now) /\ reported' = reported \cup {op.id}
           /\ Return /\ NoFault
  <2>1. PICK row \in Row : /\ row.status = "succeeded" /\ row.kept = TRUE
                           /\ recordSuccess(i, "whole", now) = [rows EXCEPT ![i] = row]
    <3>1. now \in 0..MaxTime /\ "whole" \in Intact
      BY DEF TypeInv, Intact
    <3>2. \E row \in Row : SuccessIs(i, "whole", now, row)
      BY <3>1, SuccessRow, Zenon
    <3> QED BY <3>2, Zenon DEF SuccessIs
  <2>2. /\ TablesInv' /\ rows' \in Rows /\ Tables' \subseteq Tables \cup {rows'}
        /\ rows'[i] = row /\ \A j \in Runs : j # i => rows'[j] = rows[j]
    <3>1. row.status = "succeeded" => row.kept
      BY <2>1
    <3>2. rows' = [rows EXCEPT ![i] = row] /\ UNCHANGED <<snap, started>>
      BY <1>2, <1>5, <2>1 DEF RunRecordSuccess
    <3> QED BY <1>2, <1>3, <3>1, <3>2, TablesTo
  <2>3. op' \in Op /\ op' = Idle /\ RunInv' /\ RetainInv' /\ ReconcileInv'
    BY <1>5, IdleOp DEF Return
  <2>4. TypeInv'
    BY <1>2, <1>5, <2>2, <2>3 DEF RunRecordSuccess, TypeInv, directory, NoFault
  <2>5. FilesInv'
    BY <1>2, <1>3, <1>5 DEF RunRecordSuccess, FilesInv, directory
  <2>6. ReportedInv'
    <3> SUFFICES ASSUME NEW j \in reported' \ misread', data'[j] \in Intact, NEW T \in Tables'
                 PROVE  T[j].status # "failed"
      BY DEF ReportedInv
    <3>1. j \in Runs /\ data[j] \in Intact /\ j \notin misread /\ (j \in reported \/ j = i)
      BY <1>2, <1>5, <2>4 DEF RunRecordSuccess, TypeInv, directory
    <3>2. \A U \in Tables : U[j].status # "failed"
      BY <1>3, <3>1 DEF ReportedInv
    <3>3. rows'[j].status # "failed"
      BY <2>1, <2>2, <3>1, <3>2, TablesType
    <3> QED BY <2>2, <3>2, <3>3
  <2> QED BY <2>2, <2>3, <2>4, <2>5, <2>6
<1> QED BY <1>4, <1>5 DEF RunRecordSuccess

LEMMA StepRun ==
  ASSUME IInv, RunStep
  PROVE  IInv'
  BY StepRunRecordStart, StepRunCopy, StepRunVerify, StepRunSyncFile, StepRunPublish,
     StepRunUnlink, StepRunSyncDirectory, StepRunFails, StepRunUndoFinal,
     StepRunRecordFailure, StepRunDropTemp, StepRunRecordSuccess DEF RunStep

-----------------------------------------------------------------------------
(***************************************************************************)
(* Reconciliation.                                                         *)
(***************************************************************************)
LEMMA ReconcileKind ==
  ASSUME op'.kind \in {"start", "latest", "list"}
  PROVE  RunInv' /\ RetainInv'
  BY DEF RetainInv, RunInv

LEMMA TurnOK ==
  ASSUME TypeInv, op.todo # {}, NEW i, Turn(i)
  PROVE  i \in op.todo
<1>1. op.todo \subseteq Nat
  BY RunsAssumption DEF TypeInv, Op
<1>2. PICK x \in op.todo : \A y \in op.todo : ~(<<y, x>> \in OpToRel(<, Nat))
  BY <1>1, NatLessThanWellFounded, WFMin
<1>3. \A y \in op.todo : x =< y
  <2> SUFFICES ASSUME NEW y \in op.todo PROVE x =< y
    OBVIOUS
  <2>1. x \in Nat /\ y \in Nat
    BY <1>1
  <2>2. ~(y < x)
    BY <1>2, <2>1 DEF OpToRel
  <2> QED BY <2>1, <2>2
<1> QED BY <1>3 DEF Turn, Min

LEMMA StepBegin ==
  ASSUME IInv, Start \/ LatestBegin \/ ListRuns \/ RetainBegin
  PROVE  IInv'
<1> USE DEF IInv
<1>1. PICK k \in {"start", "latest", "list", "retain"}, pc \in {"running", "verify"}, S \in SUBSET Runs :
        /\ op' = [Idle EXCEPT !.kind = k, !.pc = pc, !.todo = S]
        /\ (k # "retain" => pc = "running" /\ S = Running)
        /\ (k = "retain" => pc = "verify" /\ S = successfulRetained)
  BY DEF Start, LatestBegin, ListRuns, Query, RetainBegin, Running, successfulRetained
<1>2. /\ op' \in Op /\ op'.kind = k /\ op'.pc = pc /\ op'.todo = S /\ op'.passed = {}
  BY <1>1 DEF Idle, Op, Kinds, Pcs, RunPcs
<1>3. up' /\ UNCHANGED <<rows, directory, history, now, faults>>
  BY DEF Start, LatestBegin, ListRuns, Query, RetainBegin, NoFault
<1>4. TypeInv'
  <2>1. up' \in BOOLEAN
    BY DEF Start, LatestBegin, ListRuns, Query, RetainBegin, TypeInv
  <2> QED BY <1>2, <1>3, <2>1 DEF TypeInv, directory, history
<1>5. FilesInv' /\ TablesInv' /\ Tables' = Tables
  BY <1>3, FilesKept, TablesKept DEF history
<1>6. ReportedInv'
  BY <1>3, <1>5, ReportedKept DEF history, directory
<1>7. RunInv'
  BY <1>2 DEF RunInv
<1>8. RetainInv'
  BY <1>1, <1>2, <1>3 DEF RetainInv, successfulRetained
<1>9. ReconcileInv'
  BY <1>1, <1>2, <1>3 DEF ReconcileInv, Reconciles, Running
<1> QED BY <1>4, <1>5, <1>6, <1>7, <1>8, <1>9

\* An operation ends, with nothing else changed but the process.
LEMMA StepEnds ==
  ASSUME IInv, ReconcileError \/ RetainCancelled \/ Crash
  PROVE  IInv'
<1> USE DEF IInv
<1>1. /\ op' = Idle /\ UNCHANGED <<rows, directory, history, now>> /\ faults' = faults + 1
      /\ up' \in BOOLEAN
  BY DEF ReconcileError, RetainCancelled, Crash, Return, Fault, TypeInv
<1>2. op' \in Op /\ RunInv' /\ RetainInv' /\ ReconcileInv'
  BY <1>1, IdleOp
<1>3. TypeInv'
  BY <1>1, <1>2 DEF TypeInv, directory, history
<1>4. FilesInv' /\ TablesInv' /\ Tables' = Tables
  BY <1>1, FilesKept, TablesKept DEF history
<1>5. ReportedInv'
  BY <1>1, <1>4, ReportedKept DEF history, directory
<1> QED BY <1>2, <1>3, <1>4, <1>5

LEMMA StepReconcileDropTemp ==
  ASSUME IInv, NEW i \in Runs, ReconcileDropTemp(i)
  PROVE  IInv'
<1> USE DEF IInv
<1>1. up /\ op.kind \in {"start", "latest", "list"} /\ op.pc = "running"
  BY DEF ReconcileDropTemp, Reconciling
<1>2. PICK pc \in {"running", "syncing"} : Goto(pc)
  BY DEF ReconcileDropTemp
<1>3. /\ op' \in Op /\ op'.pc = pc /\ op'.kind = op.kind /\ op'.todo = op.todo
  BY <1>2, GotoOp DEF TypeInv, Pcs
<1>4. UNCHANGED <<rows, final, disk, data, synced, history, up, now, faults>> /\ temp' \subseteq temp
  BY DEF ReconcileDropTemp, NoFault
<1>5. TypeInv'
  BY <1>1, <1>3, <1>4 DEF TypeInv, history
<1>6. FilesInv'
  BY <1>4 DEF FilesInv, history
<1>7. TablesInv' /\ Tables' = Tables
  BY <1>4, TablesKept DEF history
<1>8. ReportedInv'
  BY <1>4, <1>7, ReportedKept DEF history
<1>9. ReconcileInv'
  BY <1>1, <1>3, <1>4 DEF ReconcileInv, Reconciles, Running
<1> QED BY <1>1, <1>3, <1>5, <1>6, <1>7, <1>8, <1>9, ReconcileKind

LEMMA StepReconcileSync ==
  ASSUME IInv, ReconcileSync
  PROVE  IInv'
<1> USE DEF IInv
<1>1. up /\ op.kind \in {"start", "latest", "list"} /\ op.pc = "syncing"
  BY DEF ReconcileSync, Reconciling
<1>2. /\ op' \in Op /\ op'.pc = "running" /\ op'.kind = op.kind /\ op'.todo = op.todo
  BY GotoOp DEF ReconcileSync, TypeInv, Pcs
<1>3. UNCHANGED <<rows, temp, final, data, synced, history, up, now, faults>> /\ syncDirectory
  BY DEF ReconcileSync, NoFault
<1>4. FilesInv' /\ disk' \in Names
  BY <1>3, Synced DEF history
<1>5. TypeInv'
  BY <1>1, <1>2, <1>3, <1>4 DEF TypeInv, history
<1>6. TablesInv' /\ Tables' = Tables
  BY <1>3, TablesKept DEF history
<1>7. ReportedInv'
  BY <1>3, <1>6, ReportedKept DEF history
<1>8. ReconcileInv'
  BY <1>1, <1>2, <1>3 DEF ReconcileInv, Reconciles, Running
<1> QED BY <1>1, <1>2, <1>4, <1>5, <1>6, <1>7, <1>8, ReconcileKind

\* One row is done.
LEMMA TodoOp ==
  ASSUME op \in Op, NEW S \in SUBSET Runs, op' = [op EXCEPT !.todo = S]
  PROVE  /\ op' \in Op /\ op'.pc = op.pc /\ op'.kind = op.kind /\ op'.id = op.id
         /\ op'.todo = S /\ op'.passed = op.passed /\ op'.decayed = op.decayed
  BY DEF Op

LEMMA StepReconcileRunning ==
  ASSUME IInv, NEW i \in Runs, ReconcileRunning(i)
  PROVE  IInv'
<1> USE DEF IInv
<1>1. up /\ op.kind \in {"start", "latest", "list"} /\ op.pc = "running" /\ op.todo = Running
  BY DEF ReconcileRunning, Reconciling, ReconcileInv, Reconciles
<1>2. i \in op.todo /\ rows[i].status = "running"
  BY <1>1, TurnOK DEF ReconcileRunning, Running
<1>3. /\ op' \in Op /\ op'.pc = "running" /\ op'.kind = op.kind /\ op'.todo = op.todo \ {i}
  <2>1. op' = [op EXCEPT !.todo = op.todo \ {i}]
    BY DEF ReconcileRunning
  <2>2. op.todo \ {i} \in SUBSET Runs
    BY DEF TypeInv, Op
  <2> QED BY <1>1, <2>1, <2>2, TodoOp DEF TypeInv
<1>4. PICK row \in Row :
        /\ row.status \in {"succeeded", "failed"} /\ (row.status = "succeeded" => row.kept)
        /\ rows' = [rows EXCEPT ![i] = row] /\ misread' \in {misread, misread \cup {i}}
        /\ row.status = "failed" => i \in misread' \/ ~Legible(i)
  <2>1. ASSUME Legible(i)
        PROVE  \E s \in Row : /\ s.status = "succeeded" /\ s.kept = TRUE
                              /\ recordSuccess(i, data[i], now) = [rows EXCEPT ![i] = s]
    <3>1. now \in 0..MaxTime /\ data[i] \in Intact
      BY <2>1 DEF TypeInv, Legible, Intact
    <3>2. \E row \in Row : SuccessIs(i, data[i], now, row)
      BY <3>1, SuccessRow, Zenon
    <3> QED BY <3>2, Zenon DEF SuccessIs
  <2>2. PICK f \in Row : f.status = "failed" /\ recordFailure(i) = [rows EXCEPT ![i] = f]
    BY <1>2, FailureRow
  <2>3. CASE Legible(i) /\ rows' = recordSuccess(i, data[i], now) /\ misread' = misread
    BY <2>1, <2>3
  <2>4. CASE ~Legible(i) /\ rows' = recordFailure(i) /\ misread' = misread
    BY <2>2, <2>4
  <2>5. CASE rows' = recordFailure(i) /\ misread' = misread \cup {i}
    BY <2>2, <2>5
  <2> QED BY <2>3, <2>4, <2>5 DEF ReconcileRunning
<1>5. started[i] # -1
  BY <1>2, TablesType DEF TablesInv
<1>6. UNCHANGED <<directory, started, snap, reported, up, now>> /\ faults' \in Nat
  BY DEF ReconcileRunning, Fault, NoFault, TypeInv
<1>7. /\ TablesInv' /\ rows' \in Rows /\ Tables' \subseteq Tables \cup {rows'}
      /\ rows'[i] = row /\ \A j \in Runs : j # i => rows'[j] = rows[j]
  BY <1>2, <1>4, <1>5, <1>6, TablesTo
<1>8. TypeInv'
  BY <1>1, <1>3, <1>4, <1>6, <1>7 DEF TypeInv, directory
<1>9. FilesInv'
  BY <1>6, FilesKept
<1>10. ReportedInv'
  <2>1. ASSUME NEW j \in reported \ misread', data[j] \in Intact, rows'[j].status = "failed"
        PROVE  rows[j].status = "failed"
    <3>1. CASE j = i
      <4>1. Legible(i)
        BY <2>1, <3>1 DEF FilesInv, Legible, Intact
      <4> QED BY <1>4, <1>7, <2>1, <3>1, <4>1
    <3>2. CASE j # i
      BY <1>7, <2>1, <3>2 DEF TypeInv
    <3> QED BY <3>1, <3>2
  <2> QED BY <1>4, <1>6, <1>7, <2>1, ReportedKept, TablesType DEF directory
<1>11. Running' = Running \ {i}
  BY <1>4, <1>7 DEF Running
<1>12. ReconcileInv'
  BY <1>1, <1>3, <1>11 DEF ReconcileInv, Reconciles
<1> QED BY <1>1, <1>3, <1>7, <1>8, <1>9, <1>10, <1>12, ReconcileKind

LEMMA StepReconcileRetiredBegin ==
  ASSUME IInv, ReconcileRetiredBegin \/ ReconcileScanBegin
  PROVE  IInv'
<1> USE DEF IInv
<1>1. up /\ op.kind \in {"start", "latest", "list"} /\ op.todo = {}
  BY DEF ReconcileRetiredBegin, ReconcileScanBegin, Reconciling
<1>2. PICK pc \in {"retired", "scan"}, S \in SUBSET Runs :
        /\ op' = [op EXCEPT !.pc = pc, !.todo = S]
        /\ (pc = "retired" => op.pc = "running" /\ S = Retired)
        /\ (pc = "scan" => op.pc = "retired" /\ S = final)
  BY DEF ReconcileRetiredBegin, ReconcileScanBegin, Reconciling, Retired, TypeInv
<1>3. op' \in Op /\ op'.pc = pc /\ op'.kind = op.kind /\ op'.todo = S
  BY <1>2 DEF TypeInv, Op, Pcs
<1>4. UNCHANGED <<rows, directory, history, up, now, faults>>
  BY DEF ReconcileRetiredBegin, ReconcileScanBegin, NoFault
<1>5. TypeInv'
  BY <1>1, <1>3, <1>4 DEF TypeInv, directory, history
<1>6. FilesInv' /\ TablesInv' /\ Tables' = Tables
  BY <1>4, FilesKept, TablesKept DEF history
<1>7. ReportedInv'
  BY <1>4, <1>6, ReportedKept DEF history, directory
<1>8. Running' = Running /\ Retired' = Retired /\ final' = final
  BY <1>4 DEF Running, Retired, directory
<1>9. Running = {} /\ (pc = "scan" => Retired \cap final = {})
  BY <1>1, <1>2 DEF ReconcileInv, Reconciles
<1>10. ReconcileInv'
  BY <1>2, <1>3, <1>8, <1>9 DEF ReconcileInv, Reconciles
<1> QED BY <1>1, <1>3, <1>5, <1>6, <1>7, <1>10, ReconcileKind

LEMMA StepReconcileEnd ==
  ASSUME IInv, ReconcileEnd
  PROVE  IInv'
<1> USE DEF IInv
<1>1. up /\ op.kind \in {"start", "latest", "list"} /\ op.pc = "scan" /\ op.todo = {}
  BY DEF ReconcileEnd, Reconciling
<1>2. UNCHANGED <<rows, directory, history, up, now, faults>>
  BY DEF ReconcileEnd, NoFault
<1>3. op' \in Op /\ RunInv' /\ RetainInv' /\ ReconcileInv'
  <2>1. CASE op' = Idle
    BY <2>1, IdleOp
  <2>2. CASE op' = [op EXCEPT !.pc = "query"]
    <3>1. op' \in Op /\ op'.pc = "query" /\ op'.kind = op.kind
      BY <2>2 DEF TypeInv, Op, Pcs
    <3>2. ReconcileInv'
      BY <1>1, <3>1 DEF ReconcileInv
    <3> QED BY <1>1, <3>1, <3>2, ReconcileKind
  <2> QED BY <2>1, <2>2 DEF ReconcileEnd
<1>4. TypeInv'
  BY <1>1, <1>2, <1>3 DEF TypeInv, directory, history
<1>5. FilesInv' /\ TablesInv' /\ Tables' = Tables
  BY <1>2, FilesKept, TablesKept DEF history
<1>6. ReportedInv'
  BY <1>2, <1>5, ReportedKept DEF history, directory
<1> QED BY <1>3, <1>4, <1>5, <1>6

\* A change of retained and verification alone.
Marked(i, b, v, row) ==
  /\ row.status = rows[i].status /\ row.at = rows[i].at /\ row.kept = b
  /\ row.ver = v /\ row.sum = rows[i].sum
  /\ [rows EXCEPT ![i].kept = b, ![i].ver = v] = [rows EXCEPT ![i] = row]
  /\ rows[i].kept = b => [rows EXCEPT ![i].ver = v] = [rows EXCEPT ![i] = row]

LEMMA MarkRow ==
  ASSUME TypeInv, NEW i \in Runs, NEW b \in BOOLEAN,
         NEW v \in {"passed", "failed", "retired"}
  PROVE  \E row \in Row : Marked(i, b, v, row)
<1>1. rows[i] \in Row /\ rows \in [Runs -> Row]
  BY RowsType DEF TypeInv
<1>2. PICK row : row = [rows[i] EXCEPT !.kept = b, !.ver = v]
  OBVIOUS
<1>3. /\ row \in Row /\ row.status = rows[i].status /\ row.at = rows[i].at
      /\ row.kept = b /\ row.ver = v /\ row.sum = rows[i].sum
  BY <1>1, <1>2 DEF Row
<1>4. [rows EXCEPT ![i].kept = b, ![i].ver = v] = [rows EXCEPT ![i] = row]
  BY <1>1, <1>2
<1>5. ASSUME rows[i].kept = b PROVE [rows EXCEPT ![i].ver = v] = [rows EXCEPT ![i] = row]
  <2>1. row = [rows[i] EXCEPT !.ver = v]
    BY <1>1, <1>2, <1>5 DEF Row
  <2> QED BY <1>1, <2>1
<1> QED BY <1>3, <1>4, <1>5 DEF Marked

\* Such a change of a row that stays or becomes retained.
LEMMA MarkTables ==
  ASSUME TypeInv, TablesInv, NEW i \in Runs, NEW row \in Row,
         row.status = rows[i].status, row.at = rows[i].at, row.kept = TRUE,
         rows' = [rows EXCEPT ![i] = row], UNCHANGED <<snap, started>>
  PROVE  /\ TablesInv' /\ rows' \in Rows /\ Tables' \subseteq Tables \cup {rows'}
         /\ rows'[i] = row /\ \A j \in Runs : j # i => rows'[j] = rows[j]
         /\ \A j \in Runs : rows'[j].status = rows[j].status /\ rows'[j].at = rows[j].at
<1>1. started[i] = -1 => row.status = "none"
  BY TablesType DEF TablesInv
<1>2. row.status = "succeeded" => row.kept
  OBVIOUS
<1>3. /\ TablesInv' /\ rows' \in Rows /\ Tables' \subseteq Tables \cup {rows'}
      /\ rows'[i] = row /\ \A j \in Runs : j # i => rows'[j] = rows[j]
  BY <1>1, <1>2, TablesTo
<1> QED BY <1>3

LEMMA MarkReported ==
  ASSUME TypeInv, ReportedInv, UNCHANGED <<data, misread>>, reported' \subseteq reported,
         Tables' \subseteq Tables \cup {rows'},
         \A j \in Runs : rows'[j].status = rows[j].status
  PROVE  ReportedInv'
<1>1. \A j \in reported : rows'[j].status = "failed" => rows[j].status = "failed"
  BY DEF TypeInv
<1> QED BY <1>1, ReportedKept, TablesType

LEMMA StepReconcileRetired ==
  ASSUME IInv, NEW i \in Runs, ReconcileRetired(i)
  PROVE  IInv'
<1> USE DEF IInv
<1>1. /\ up /\ op.kind \in {"start", "latest", "list"} /\ op.pc = "retired"
      /\ Running = {} /\ Retired \cap final \subseteq op.todo
  BY DEF ReconcileRetired, Reconciling, ReconcileInv, Reconciles
<1>2. /\ op' \in Op /\ op'.pc = "retired" /\ op'.kind = op.kind /\ op'.todo = op.todo \ {i}
  <2>1. op' = [op EXCEPT !.todo = op.todo \ {i}]
    BY DEF ReconcileRetired
  <2>2. op.todo \ {i} \in SUBSET Runs
    BY DEF TypeInv, Op
  <2> QED BY <1>1, <2>1, <2>2, TodoOp DEF TypeInv
<1>3. UNCHANGED <<directory, history, up, now>> /\ faults' \in Nat
  BY DEF ReconcileRetired, Fault, NoFault, TypeInv
<1>4. FilesInv'
  BY <1>3, FilesKept DEF history
<1>5. CASE i \notin final /\ UNCHANGED rows
  <2>1. TypeInv'
    BY <1>1, <1>2, <1>3, <1>5 DEF TypeInv, directory, history
  <2>2. TablesInv' /\ Tables' = Tables
    BY <1>3, <1>5, TablesKept DEF history
  <2>3. ReportedInv'
    BY <1>3, <2>2, ReportedKept DEF history, directory
  <2>4. Running' = Running /\ Retired' = Retired /\ final' = final
    BY <1>3, <1>5 DEF Running, Retired, directory
  <2>5. ReconcileInv'
    BY <1>1, <1>2, <1>5, <2>4 DEF ReconcileInv, Reconciles
  <2> QED BY <1>1, <1>2, <1>4, <2>1, <2>2, <2>3, <2>5, ReconcileKind
<1>6. ASSUME NEW v \in {"passed", "failed"},
             rows' = [rows EXCEPT ![i].kept = TRUE, ![i].ver = v]
      PROVE  IInv'
  <2>1. PICK row \in Row : /\ row.status = rows[i].status /\ row.at = rows[i].at
                           /\ row.kept = TRUE /\ rows' = [rows EXCEPT ![i] = row]
    <3>1. TRUE \in BOOLEAN /\ v \in {"passed", "failed", "retired"}
      OBVIOUS
    <3>2. \E row \in Row : Marked(i, TRUE, v, row)
      BY <3>1, MarkRow, Zenon
    <3> QED BY <1>6, <3>2, Zenon DEF Marked
  <2>2. /\ TablesInv' /\ rows' \in Rows /\ Tables' \subseteq Tables \cup {rows'}
        /\ rows'[i] = row /\ \A j \in Runs : j # i => rows'[j] = rows[j]
        /\ \A j \in Runs : rows'[j].status = rows[j].status /\ rows'[j].at = rows[j].at
    BY <1>3, <2>1, MarkTables DEF history
  <2>3. TypeInv'
    BY <1>1, <1>2, <1>3, <2>2 DEF TypeInv, directory, history
  <2>4. ReportedInv'
    BY <1>3, <2>2, MarkReported DEF history, directory
  <2>5. Running' = Running
    BY <2>2 DEF Running
  <2>6. Retired' \subseteq Retired \ {i}
    BY <2>1, <2>2 DEF Retired
  <2>7. final' = final
    BY <1>3 DEF directory
  <2>8. ReconcileInv'
    BY <1>1, <1>2, <2>5, <2>6, <2>7 DEF ReconcileInv, Reconciles
  <2> QED BY <1>1, <1>2, <1>4, <2>2, <2>3, <2>4, <2>8, ReconcileKind
<1> QED BY <1>5, <1>6 DEF ReconcileRetired

LEMMA StepReconcileScan ==
  ASSUME IInv, NEW i \in Runs, ReconcileScan(i)
  PROVE  IInv'
<1> USE DEF IInv
<1>1. /\ up /\ op.kind \in {"start", "latest", "list"} /\ op.pc = "scan"
      /\ Running = {} /\ Retired \cap final = {}
      /\ \A j \in final \ (misread \cup op.todo) : SettledRow(j)
  BY DEF ReconcileScan, Reconciling, ReconcileInv, Reconciles
<1>2. /\ op' \in Op /\ op'.pc = "scan" /\ op'.kind = op.kind /\ op'.todo = op.todo \ {i}
  <2>1. op' = [op EXCEPT !.todo = op.todo \ {i}]
    BY DEF ReconcileScan
  <2>2. op.todo \ {i} \in SUBSET Runs
    BY DEF TypeInv, Op
  <2> QED BY <1>1, <2>1, <2>2, TodoOp DEF TypeInv
<1>3. UNCHANGED <<directory, started, snap, reported, up, now>> /\ faults' \in Nat
  BY DEF ReconcileScan, Fault, NoFault, TypeInv
<1>4. FilesInv' /\ UNCHANGED <<temp, final, data>>
  BY <1>3, FilesKept DEF directory
<1>5. CASE UNCHANGED rows /\ misread' \in {misread, misread \cup {i}}
           /\ (i \notin misread' /\ Legible(i) => rows[i].status \notin {"none", "running"})
  <2>1. TypeInv'
    BY <1>1, <1>2, <1>3, <1>5 DEF TypeInv, directory
  <2>2. TablesInv' /\ Tables' = Tables
    BY <1>3, <1>5, TablesKept
  <2>3. ReportedInv'
    BY <1>3, <1>5, <2>2, ReportedKept DEF directory
  <2>4. Running' = Running /\ Retired' = Retired
    BY <1>5 DEF Running, Retired
  <2>5. \A j : SettledRow(j)' <=> SettledRow(j)
    BY <1>3, <1>4, <1>5 DEF SettledRow, Legible, successfulRetained
  <2>6. ASSUME i \in final, i \notin misread' PROVE SettledRow(i)
    <3> SUFFICES ASSUME Legible(i)
                 PROVE  /\ i \in successfulRetained \/ rows[i].status = "failed"
                        /\ i \in reported => i \in successfulRetained
      BY DEF SettledRow
    <3>1. i \notin misread /\ data[i] \in Intact
      BY <1>5, <2>6 DEF Legible, Intact
    <3>2. rows[i].status \in {"succeeded", "failed"}
      BY <1>5, <2>6, RowType DEF TypeInv, Row, Statuses
    <3>3. rows[i].status = "succeeded" => i \in successfulRetained
      <4> SUFFICES ASSUME rows[i].status = "succeeded" PROVE rows[i].kept
        BY DEF successfulRetained
      <4>1. rows[i].kept \/ rows[i].ver = "retired"
        BY TablesType DEF TablesInv, TableOK, SucceededIn
      <4>2. i \notin Retired
        BY <1>1, <2>6
      <4> QED BY <4>1, <4>2 DEF Retired
    <3>4. i \in reported => rows[i].status # "failed"
      BY <3>1, TablesType DEF ReportedInv
    <3> QED BY <3>2, <3>3, <3>4
  <2>7. \A j \in final \ (misread' \cup op'.todo) : SettledRow(j)
    BY <1>1, <1>2, <1>5, <2>6
  <2>8. ReconcileInv'
    BY <1>1, <1>2, <1>4, <2>4, <2>5, <2>7 DEF ReconcileInv, Reconciles
  <2> QED BY <1>1, <1>2, <1>4, <2>1, <2>2, <2>3, <2>8, ReconcileKind
<1>6. CASE /\ rows[i].status \in {"none", "running"} /\ Legible(i) /\ misread' = misread
           /\ rows' = recordSuccess(i, data[i], started[i])
  <2>1. started[i] \in 0..MaxTime /\ started[i] # -1
    BY <1>6, RunsAssumption DEF FilesInv, Legible
  <2>2. PICK row \in Row : /\ row.status = "succeeded" /\ row.kept = TRUE
                           /\ rows' = [rows EXCEPT ![i] = row]
    <3>1. PICK t \in 0..MaxTime, b \in Intact : t = started[i] /\ b = data[i]
      BY <1>6, <2>1 DEF Legible, Intact
    <3>2. PICK row \in Row : /\ row.status = "succeeded" /\ row.kept = TRUE
                             /\ recordSuccess(i, b, t) = [rows EXCEPT ![i] = row]
      <4>1. \E row \in Row : SuccessIs(i, b, t, row)
        BY <3>1, SuccessRow, Zenon
      <4> QED BY <4>1, Zenon DEF SuccessIs
    <3> QED BY <1>6, <3>1, <3>2
  <2>3. /\ TablesInv' /\ rows' \in Rows /\ Tables' \subseteq Tables \cup {rows'}
        /\ rows'[i] = row /\ \A j \in Runs : j # i => rows'[j] = rows[j]
    <3>1. row.status = "succeeded" => row.kept
      BY <2>2
    <3> QED BY <1>3, <1>6, <2>1, <2>2, <3>1, TablesTo
  <2>4. TypeInv'
    BY <1>1, <1>2, <1>3, <1>6, <2>3 DEF TypeInv, directory
  <2>5. ReportedInv'
    <3>1. \A j \in reported : rows'[j].status = "failed" => rows[j].status = "failed"
      BY <2>2, <2>3 DEF TypeInv
    <3> QED BY <1>3, <1>6, <2>3, <3>1, ReportedKept, TablesType DEF directory
  <2>6. Running' = {}
    BY <1>1, <2>2, <2>3 DEF Running
  <2>7. Retired' \subseteq Retired
    BY <2>2, <2>3 DEF Retired
  <2>8. i \in successfulRetained'
    BY <2>2, <2>3 DEF successfulRetained
  <2>9. ASSUME NEW j \in final \ (misread' \cup op'.todo) PROVE SettledRow(j)'
    <3>1. CASE j = i
      BY <2>8, <3>1 DEF SettledRow
    <3>2. CASE j # i
      <4>1. SettledRow(j) /\ j \in Runs
        BY <1>1, <1>2, <1>6, <2>9, <3>2 DEF TypeInv
      <4>2. rows'[j] = rows[j]
        BY <2>3, <3>2, <4>1
      <4> QED BY <1>3, <1>4, <4>1, <4>2 DEF SettledRow, Legible, successfulRetained
    <3> QED BY <3>1, <3>2
  <2>10. ReconcileInv'
    BY <1>1, <1>2, <1>4, <2>6, <2>7, <2>9 DEF ReconcileInv, Reconciles
  <2> QED BY <1>1, <1>2, <1>4, <2>3, <2>4, <2>5, <2>10, ReconcileKind
<1>7. \/ /\ rows[i].status \notin {"none", "running"} \/ ~Legible(i)
         /\ UNCHANGED <<rows, misread>>
      \/ /\ rows[i].status \in {"none", "running"} /\ Legible(i) /\ misread' = misread
         /\ rows' = recordSuccess(i, data[i], started[i])
      \/ UNCHANGED rows /\ misread' = misread \cup {i}
  BY DEF ReconcileScan
<1> QED BY <1>5, <1>6, <1>7

LEMMA VerRow ==
  ASSUME TypeInv, NEW i \in Runs, rows[i].kept, NEW v \in {"passed", "failed"},
         rows' = [rows EXCEPT ![i].ver = v]
  PROVE  \E row \in Row : /\ row.status = rows[i].status /\ row.at = rows[i].at
                          /\ row.sum = rows[i].sum
                          /\ row.kept = TRUE /\ rows' = [rows EXCEPT ![i] = row]
<1>1. TRUE \in BOOLEAN /\ v \in {"passed", "failed", "retired"}
  OBVIOUS
<1>2. \E row \in Row : Marked(i, TRUE, v, row)
  BY <1>1, MarkRow, Zenon
<1>3. rows[i].kept \in BOOLEAN
  BY RowType DEF TypeInv
<1>4. rows[i].kept = TRUE
  BY <1>3, Zenon
<1> QED BY <1>2, <1>4, Zenon DEF Marked

LEMMA StepLatestVerify ==
  ASSUME IInv, LatestVerify
  PROVE  IInv'
<1> USE DEF IInv
<1>1. op' = Idle /\ UNCHANGED <<directory, history, up, now>> /\ faults' \in Nat
  BY DEF LatestVerify, Return, Fault, NoFault, TypeInv
<1>2. op' \in Op /\ RunInv' /\ RetainInv' /\ ReconcileInv'
  BY <1>1, IdleOp
<1>3. FilesInv'
  BY <1>1, FilesKept DEF history
<1>4. CASE UNCHANGED rows
  <2>1. TypeInv'
    BY <1>1, <1>2, <1>4 DEF TypeInv, directory, history
  <2>2. TablesInv' /\ Tables' = Tables
    BY <1>1, <1>4, TablesKept DEF history
  <2>3. ReportedInv'
    BY <1>1, <2>2, ReportedKept DEF history, directory
  <2> QED BY <1>2, <1>3, <2>1, <2>2, <2>3
<1>5. ASSUME NEW v \in {"passed", "failed"}, successfulRetained # {},
             rows' = [rows EXCEPT ![Newest(successfulRetained)].ver = v]
      PROVE  IInv'
  <2>1. PICK i \in Runs : i = Newest(successfulRetained) /\ rows[i].kept
    BY <1>5, NewestOK DEF successfulRetained
  <2>2. PICK row \in Row : /\ row.status = rows[i].status /\ row.at = rows[i].at
                           /\ row.kept = TRUE /\ rows' = [rows EXCEPT ![i] = row]
    BY <1>5, <2>1, VerRow
  <2>3. /\ TablesInv' /\ rows' \in Rows /\ Tables' \subseteq Tables \cup {rows'}
        /\ \A j \in Runs : rows'[j].status = rows[j].status /\ rows'[j].at = rows[j].at
    BY <1>1, <2>2, MarkTables DEF history
  <2>4. TypeInv'
    BY <1>1, <1>2, <2>3 DEF TypeInv, directory, history
  <2>5. ReportedInv'
    BY <1>1, <2>3, MarkReported DEF history, directory
  <2> QED BY <1>2, <1>3, <2>3, <2>4, <2>5
<1> QED BY <1>4, <1>5 DEF LatestVerify

LEMMA StepReconcile ==
  ASSUME IInv, ReconcileStep
  PROVE  IInv'
  BY StepReconcileDropTemp, StepReconcileRunning, StepReconcileRetired, StepReconcileScan,
     StepReconcileSync, StepReconcileRetiredBegin, StepReconcileEnd, StepEnds,
     StepLatestVerify DEF ReconcileStep

-----------------------------------------------------------------------------
(***************************************************************************)
(* Retention.                                                              *)
(***************************************************************************)
LEMMA RetainKind ==
  ASSUME op'.kind = "retain"
  PROVE  RunInv' /\ ReconcileInv'
  BY DEF RunInv, ReconcileInv, Reconciles

\* Windows and order look at the times of the rows.
LEMMA SameTimes ==
  ASSUME \A j \in Runs : rows'[j].status = rows[j].status /\ rows'[j].at = rows[j].at
  PROVE  /\ SucceededIn(rows') = SucceededIn(rows)
         /\ \A i \in Runs, j \in Runs : Newer(i, j)' <=> Newer(i, j)
         /\ \A R \in SUBSET Runs, i \in Runs, w \in Windows :
              KeptBy(rows', R, w, i) <=> KeptBy(rows, R, w, i)
<1>1. SucceededIn(rows') = SucceededIn(rows)
  BY DEF SucceededIn
<1>2. \A i \in Runs, j \in Runs : Newer(i, j)' <=> Newer(i, j)
  BY DEF Newer
<1>3. ASSUME NEW R \in SUBSET Runs, NEW i \in Runs, NEW w \in Windows
      PROVE  KeptBy(rows', R, w, i) <=> KeptBy(rows, R, w, i)
  <2>1. SeenIn(rows', R, w, i) = SeenIn(rows, R, w, i)
    BY DEF SeenIn, NewerIn
  <2> QED BY <2>1 DEF KeptBy
<1> QED BY <1>1, <1>2, <1>3

\* A step of the pass that changes at most the marks of one row, and op.
LEMMA RetainFrame ==
  ASSUME IInv, UNCHANGED <<directory, history, up, now>>, up, faults' \in Nat,
         op' \in Op, op'.kind = "retain", RetainInv',
         \/ UNCHANGED rows
         \/ \E i \in Runs, row \in Row :
              /\ row.status = rows[i].status /\ row.at = rows[i].at
              /\ row.kept = TRUE /\ rows' = [rows EXCEPT ![i] = row]
  PROVE  IInv'
<1> USE DEF IInv
<1>1. FilesInv'
  BY FilesKept DEF history
<1>2. CASE UNCHANGED rows
  <2>1. TypeInv'
    BY <1>2 DEF TypeInv, directory, history
  <2>2. TablesInv' /\ Tables' = Tables
    BY <1>2, TablesKept DEF history
  <2>3. ReportedInv'
    BY <2>2, ReportedKept DEF history, directory
  <2> QED BY <1>1, <2>1, <2>2, <2>3, RetainKind
<1>3. ASSUME NEW i \in Runs, NEW row \in Row, row.status = rows[i].status,
             row.at = rows[i].at, row.kept = TRUE, rows' = [rows EXCEPT ![i] = row]
      PROVE  IInv'
  <2>1. /\ TablesInv' /\ rows' \in Rows /\ Tables' \subseteq Tables \cup {rows'}
        /\ \A j \in Runs : rows'[j].status = rows[j].status /\ rows'[j].at = rows[j].at
    BY <1>3, MarkTables DEF history
  <2>2. TypeInv'
    BY <2>1 DEF TypeInv, directory, history
  <2>3. ReportedInv'
    BY <2>1, MarkReported DEF history, directory
  <2> QED BY <1>1, <2>1, <2>2, <2>3, RetainKind
<1> QED BY <1>2, <1>3

\* The marks of a row, with what it leaves alone.
LEMMA MarkedRows ==
  ASSUME TypeInv, NEW i \in Runs, NEW row \in Row, row.status = rows[i].status,
         row.at = rows[i].at, row.sum = rows[i].sum, row.kept = TRUE,
         rows' = [rows EXCEPT ![i] = row]
  PROVE  /\ \A j \in Runs : rows'[j].sum = rows[j].sum
         /\ \A j \in Runs : rows'[j].status = rows[j].status /\ rows'[j].at = rows[j].at
         /\ \A j \in Runs : rows[j].kept => rows'[j].kept
         /\ rows'[i].kept
<1>1. rows'[i] = row /\ \A j \in Runs : j # i => rows'[j] = rows[j]
  BY RowsType DEF TypeInv
<1> QED BY <1>1

LEMMA StepRetainVerify ==
  ASSUME IInv, RetainVerify
  PROVE  IInv'
<1> USE DEF IInv
<1>1. /\ up /\ op.kind = "retain" /\ op.pc = "verify" /\ op.todo # {}
      /\ op.todo \in SUBSET Runs /\ op.passed \in SUBSET Runs
  BY DEF RetainVerify, At, TypeInv, Op
<1>2. /\ op.todo \subseteq successfulRetained /\ op.passed \subseteq SucceededIn(rows)
      /\ \A j \in op.passed : Anchor(j)
  BY <1>1 DEF RetainInv
<1>3. PICK i \in op.todo : i = Newest(op.todo)
  BY <1>1, NewestOK
<1>4. i \in Runs /\ rows[i].kept /\ rows[i].status = "succeeded"
  BY <1>2, <1>3 DEF successfulRetained
<1>5. PICK p \in SUBSET {i} :
        /\ op' = [op EXCEPT !.todo = op.todo \ {i}, !.passed = op.passed \cup p]
        /\ (p # {} => Sound(i))
        /\ UNCHANGED rows \/ \E v \in {"passed", "failed"} : rows' = [rows EXCEPT ![i].ver = v]
  <2> DEFINE N(p) == op' = [op EXCEPT !.todo = op.todo \ {i}, !.passed = op.passed \cup p]
             M(v) == rows' = [rows EXCEPT ![i].ver = v]
  <2>1. \/ Sound(i) /\ M("passed") /\ N({i})
        \/ M("failed") /\ N({})
        \/ UNCHANGED rows /\ N({})
    BY <1>3 DEF RetainVerify
  <2>2. CASE N({i}) /\ Sound(i) /\ M("passed")
    <3> WITNESS {i} \in SUBSET {i}
    <3> QED BY <2>2
  <2>3. CASE N({}) /\ (M("failed") \/ UNCHANGED rows)
    <3> WITNESS {} \in SUBSET {i}
    <3> QED BY <2>3
  <2> QED BY <2>1, <2>2, <2>3
<1>6. UNCHANGED <<directory, history, up, now>> /\ faults' \in Nat
  BY DEF RetainVerify, Fault, NoFault, TypeInv
<1>7. /\ op' \in Op /\ op'.kind = "retain" /\ op'.pc = "verify" /\ op'.id = op.id
      /\ op'.todo = op.todo \ {i} /\ op'.passed = op.passed \cup p
      /\ op'.decayed = op.decayed
  BY <1>1, <1>4, <1>5 DEF TypeInv, Op
<1>8. \/ UNCHANGED rows
      \/ \E row \in Row :
           /\ row.status = rows[i].status /\ row.at = rows[i].at
           /\ row.sum = rows[i].sum
           /\ row.kept = TRUE /\ rows' = [rows EXCEPT ![i] = row]
  BY <1>4, <1>5, VerRow
<1>9. /\ \A j \in Runs : rows'[j].status = rows[j].status /\ rows'[j].at = rows[j].at
      /\ \A j \in Runs : rows[j].kept => rows'[j].kept
      /\ \A j \in Runs : rows'[j].sum = rows[j].sum
  BY <1>4, <1>8, MarkedRows
<1>10. UNCHANGED <<temp, final, data>>
  BY <1>6 DEF directory
<1>11. op'.passed \subseteq SucceededIn(rows')
  BY <1>2, <1>4, <1>7, <1>9 DEF SucceededIn
<1>12. op'.todo \subseteq successfulRetained'
  BY <1>2, <1>7, <1>9 DEF successfulRetained
<1>13. ASSUME NEW j \in op'.passed PROVE Anchor(j)'
  <2>1. CASE j \in op.passed
    BY <1>1, <1>2, <1>7, <1>9, <1>10, <2>1 DEF Anchor
  <2>2. CASE j \in p
    BY <1>4, <1>5, <1>9, <1>10, <2>2 DEF Anchor, Sound, Legible
  <2> QED BY <1>7, <1>13, <2>1, <2>2
<1>14. RetainInv'
  BY <1>7, <1>11, <1>12, <1>13 DEF RetainInv
<1> QED BY <1>1, <1>4, <1>6, <1>7, <1>8, <1>14, RetainFrame

LEMMA StepRetainSelect ==
  ASSUME IInv, RetainSelect
  PROVE  IInv'
<1> USE DEF IInv
<1>1. /\ up /\ op.kind = "retain" /\ op.pc = "verify"
      /\ op.passed \in SUBSET Runs
  BY DEF RetainSelect, At, TypeInv, Op
<1>2. op.passed \subseteq SucceededIn(rows) /\ \A j \in op.passed : Anchor(j)
  BY <1>1 DEF RetainInv
<1>3. PICK S \in SUBSET Runs : /\ S = op.passed \ retentionSet(op.passed)
                              /\ op' = [op EXCEPT !.pc = "retire", !.todo = S]
  BY <1>1 DEF RetainSelect
<1>4. /\ op' \in Op /\ op'.kind = "retain" /\ op'.pc = "retire"
      /\ op'.todo = S /\ op'.passed = op.passed /\ op'.decayed = op.decayed
  BY <1>1, <1>3 DEF TypeInv, Op, Pcs
<1>5. UNCHANGED <<rows, directory, history, up, now, faults>>
  BY DEF RetainSelect, NoFault
<1>6. \A i \in S, w \in Windows : ~KeptBy(rows, op.passed, w, i)
  BY <1>1, <1>3, RetentionSet
<1>7. Doomed' = S
  BY <1>4 DEF Doomed
<1>8. ASSUME NEW i \in S PROVE \E k \in op.passed \ S : Anchor(k) /\ Newer(k, i)
  <2>1. PICK k : k = Newest(op.passed)
    OBVIOUS
  <2>2. k \in op.passed /\ k \in retentionSet(op.passed)
    BY <1>1, <1>3, <1>8, <2>1, NewestOK, NewestIsKept
  <2>3. Newer(k, i)
    BY <1>1, <1>3, <1>8, <2>1, <2>2, NewestOK
  <2> QED BY <1>2, <1>3, <2>2, <2>3
<1>9. \A k : Anchor(k)' <=> Anchor(k)
  BY <1>4, <1>5 DEF Anchor, directory
<1>10. \A k, i : Newer(k, i)' <=> Newer(k, i)
  BY <1>5 DEF Newer
<1>11. RetainInv'
  BY <1>2, <1>3, <1>4, <1>5, <1>6, <1>7, <1>8, <1>9, <1>10 DEF RetainInv
<1> QED BY <1>1, <1>4, <1>5, <1>11, RetainFrame DEF TypeInv

\* Retiring a row that no window of the pass keeps leaves a table that is OK.
LEMMA RetireTable ==
  ASSUME NEW T \in Rows, TableOK(T), NEW i \in Runs, NEW R \in SUBSET SucceededIn(T), i \in R,
         \A w \in Windows : ~KeptBy(T, R, w, i),
         NEW U \in Rows, U[i].ver = "retired", \A j \in Runs : j # i => U[j] = T[j],
         \A j \in Runs : U[j].status = T[j].status /\ U[j].at = T[j].at
  PROVE  TableOK(U)
<1>1. U \in Rows /\ U[i].ver = "retired" /\ \A j \in Runs : j # i => U[j] = T[j]
  OBVIOUS
<1>2. \A j \in Runs : U[j].status = T[j].status /\ U[j].at = T[j].at
  BY <1>1
<1>3. SucceededIn(U) = SucceededIn(T) /\ SucceededIn(T) \in SUBSET Runs
  BY <1>2 DEF SucceededIn
<1>4. ASSUME NEW w \in Windows, KeptBy(U, SucceededIn(U), w, i) PROVE FALSE
  <2>1. PICK S \in SUBSET Runs : S = SucceededIn(U) /\ R \in SUBSET S
    BY <1>3
  <2>2. \A j \in R \cup {i} : U[j].at = T[j].at
    BY <1>2, <1>3
  <2>3. KeptBy(T, R, w, i)
    BY <1>1, <1>4, <2>1, <2>2, KeptByFewer
  <2> QED BY <2>3
<1>5. \A j \in RetiredIn(U) : j # i => j \in RetiredIn(T)
  BY <1>1, <1>3 DEF RetiredIn, SucceededIn
<1>6. \A j \in SucceededIn(U) : U[j].kept \/ U[j].ver = "retired"
  BY <1>1, <1>3 DEF TableOK, SucceededIn
<1>7. \A j \in SucceededIn(T) : j \in SucceededIn(U) /\ U[j].at = T[j].at
  BY <1>2, <1>3 DEF SucceededIn
<1>8. \A j \in RetiredIn(U) :
        \/ j \in RetiredIn(T)
        \/ \A w \in Windows : ~KeptBy(U, SucceededIn(U), w, j)
  BY <1>4, <1>5
<1> QED BY <1>6, <1>7, <1>8, TableStep

LEMMA RowPut ==
  \A T \in Rows, i \in Runs, row \in Row : LET U == [T EXCEPT ![i] = row] IN
    U \in Rows /\ U[i] = row /\ \A j \in Runs : j # i => U[j] = T[j]
  BY RowsType

LEMMA RetireRow ==
  ASSUME TypeInv, TablesInv, NEW i \in Runs, NEW R \in SUBSET SucceededIn(rows),
         \A w \in Windows : ~KeptBy(rows, R, w, i), i \in R,
         rows' = [rows EXCEPT ![i].kept = FALSE, ![i].ver = "retired"],
         UNCHANGED <<snap, started>>
  PROVE  /\ TablesInv' /\ rows' \in Rows /\ Tables' \subseteq Tables \cup {rows'}
         /\ \A j \in Runs : rows'[j].status = rows[j].status /\ rows'[j].at = rows[j].at
         /\ \A j \in Runs : j # i => rows'[j] = rows[j]
<1>1. PICK row \in Row :
        /\ row.status = rows[i].status /\ row.at = rows[i].at
        /\ row.ver = "retired" /\ rows' = [rows EXCEPT ![i] = row]
  <2>1. \E row \in Row : Marked(i, FALSE, "retired", row)
    <3>1. FALSE \in BOOLEAN /\ "retired" \in {"passed", "failed", "retired"}
      OBVIOUS
    <3> QED BY <3>1, MarkRow, Zenon
  <2> QED BY <2>1, Zenon DEF Marked
<1>2. TableOK(rows) /\ rows \in Rows
  BY TablesType DEF TablesInv, TypeInv
<1>3. /\ rows' \in Rows /\ TableOK(rows') /\ \A j \in Runs : j # i => rows'[j] = rows[j]
      /\ \A j \in Runs : rows'[j].status = rows[j].status /\ rows'[j].at = rows[j].at
  <2>1. PICK T, U : T = rows /\ U = rows'
    OBVIOUS
  <2>2. /\ T \in Rows /\ TableOK(T) /\ R \in SUBSET SucceededIn(T)
        /\ \A w \in Windows : ~KeptBy(T, R, w, i)
        /\ U = [T EXCEPT ![i] = row] /\ T[i].status = row.status /\ T[i].at = row.at
    BY <1>1, <1>2, <2>1, Zenon
  <2>3. /\ U \in Rows /\ U[i] = row /\ \A j \in Runs : j # i => U[j] = T[j]
    BY <2>2, RowsType, RowPut, Zenon
  <2>4. \A j \in Runs : U[j].status = T[j].status /\ U[j].at = T[j].at
    BY <2>2, <2>3, Zenon
  <2>5. U[i].ver = "retired"
    BY <1>1, <2>3, Zenon
  <2>6. TableOK(U)
    BY <2>2, <2>3, <2>4, <2>5, RetireTable, Zenon
  <2> QED BY <2>1, <2>3, <2>4, <2>6, Zenon
<1>4. Tables' \subseteq Tables \cup {rows'}
  BY DEF Tables
<1>5. \A j \in Runs : started[j] = -1 => rows'[j].status = "none"
  <2>1. \A j \in Runs : started[j] = -1 => rows[j].status = "none"
    BY TablesType DEF TablesInv
  <2> QED BY <1>3, <2>1, Zenon
<1>6. ASSUME NEW T \in Tables'
      PROVE  TableOK(T) /\ \A j \in Runs : started'[j] = -1 => T[j].status = "none"
  <2>1. CASE T = rows'
    BY <1>3, <1>5, <2>1, Zenon
  <2>2. CASE T \in Tables
    BY <2>2 DEF TablesInv
  <2> QED BY <1>4, <2>1, <2>2
<1>7. TablesInv'
  BY <1>6 DEF TablesInv
<1> QED BY <1>3, <1>4, <1>7

LEMMA StepRetainRow ==
  ASSUME IInv, RetainRow
  PROVE  IInv'
<1> USE DEF IInv
<1>1. /\ up /\ op.kind = "retain" /\ op.pc = "retire" /\ op.todo # {}
      /\ op.todo \in SUBSET Runs /\ op.passed \in SUBSET Runs
  BY DEF RetainRow, At, TypeInv, Op
<1>2. /\ op.passed \subseteq SucceededIn(rows) /\ op.todo \subseteq op.passed
      /\ \A j \in op.todo, w \in Windows : ~KeptBy(rows, op.passed, w, j)
      /\ \A j \in op.todo : \E k \in op.passed \ op.todo : Anchor(k) /\ Newer(k, j)
  BY <1>1 DEF RetainInv, Doomed
<1>3. PICK i \in op.todo : i = Newest(op.todo)
  BY <1>1, NewestOK
<1>4. UNCHANGED <<directory, history, up, now>> /\ faults' \in Nat
  BY DEF RetainRow, Fault, NoFault, TypeInv
<1>5. CASE UNCHANGED rows /\ op' = [op EXCEPT !.todo = op.todo \ {i}]
  <2>1. op.todo \ {i} \in SUBSET Runs
    BY <1>1
  <2>2. /\ op' \in Op /\ op'.kind = "retain" /\ op'.pc = "retire" /\ op'.todo = op.todo \ {i}
        /\ op'.passed = op.passed /\ op'.decayed = op.decayed
    BY <1>1, <1>5, <2>1, TodoOp DEF TypeInv
  <2>3. Doomed' = op.todo \ {i}
    BY <2>2 DEF Doomed
  <2>4. \A k : Anchor(k)' <=> Anchor(k)
    BY <1>4, <1>5, <2>2 DEF Anchor, directory
  <2>5. \A k, j : Newer(k, j)' <=> Newer(k, j)
    BY <1>5 DEF Newer
  <2>6. RetainInv'
    BY <1>2, <1>5, <2>2, <2>3, <2>4, <2>5 DEF RetainInv
  <2> QED BY <1>1, <1>4, <1>5, <2>2, <2>6, RetainFrame
<1>6. CASE /\ rows' = [rows EXCEPT ![i].kept = FALSE, ![i].ver = "retired"]
           /\ op' = [op EXCEPT !.pc = "remove", !.id = i, !.todo = op.todo \ {i}]
  <2>1. /\ op' \in Op /\ op'.kind = "retain" /\ op'.pc = "remove" /\ op'.id = i
        /\ op'.todo = op.todo \ {i}
        /\ op'.passed = op.passed /\ op'.decayed = op.decayed
    BY <1>1, <1>3, <1>6 DEF TypeInv, Op, Pcs
  <2>2. /\ TablesInv' /\ rows' \in Rows /\ Tables' \subseteq Tables \cup {rows'}
        /\ \A j \in Runs : rows'[j].status = rows[j].status /\ rows'[j].at = rows[j].at
        /\ \A j \in Runs : j # i => rows'[j] = rows[j]
    BY <1>1, <1>2, <1>3, <1>4, <1>6, RetireRow DEF history
  <2>3. /\ SucceededIn(rows') = SucceededIn(rows)
        /\ \A k \in Runs, j \in Runs : Newer(k, j)' <=> Newer(k, j)
        /\ \A R \in SUBSET Runs, j \in Runs, w \in Windows :
             KeptBy(rows', R, w, j) <=> KeptBy(rows, R, w, j)
    BY <2>2, SameTimes
  <2>4. Doomed' = op.todo
    BY <1>3, <2>1 DEF Doomed
  <2>5. \A k \in Runs : k # i => (Anchor(k)' <=> Anchor(k))
    BY <1>4, <2>1, <2>2 DEF Anchor, directory
  <2>6. ASSUME NEW j \in Doomed' PROVE \E k \in op.passed \ op.todo : (Anchor(k) /\ Newer(k, j))'
    <3>1. PICK k \in op.passed \ op.todo : Anchor(k) /\ Newer(k, j)
      BY <1>2, <2>4, <2>6
    <3>2. k # i /\ k \in Runs /\ j \in Runs
      BY <1>1, <1>3, <2>4, <2>6
    <3> QED BY <2>3, <2>5, <3>1, <3>2
  <2>7. \A j \in op'.todo, w \in Windows : ~KeptBy(rows', op'.passed, w, j)
    BY <1>1, <1>2, <2>1, <2>3
  <2>8. RetainInv'
    BY <1>1, <1>2, <1>3, <2>1, <2>3, <2>4, <2>6, <2>7 DEF RetainInv
  <2>9. FilesInv'
    BY <1>4, FilesKept DEF history
  <2>10. TypeInv'
    BY <1>1, <1>4, <2>1, <2>2 DEF TypeInv, directory, history
  <2>11. ReportedInv'
    BY <1>4, <2>2, MarkReported DEF history, directory
  <2> QED BY <2>1, <2>2, <2>8, <2>9, <2>10, <2>11, RetainKind
<1> QED BY <1>3, <1>5, <1>6 DEF RetainRow

LEMMA StepRetainRemove ==
  ASSUME IInv, RetainRemove
  PROVE  IInv'
<1> USE DEF IInv
<1>1. /\ up /\ op.kind = "retain" /\ op.pc = "remove" /\ op.id \in Runs
      /\ op.todo \in SUBSET Runs /\ op.passed \in SUBSET Runs
  BY DEF RetainRemove, At, RetainInv, TypeInv, Op
<1>2. /\ op.passed \subseteq SucceededIn(rows) /\ op.todo \subseteq op.passed
      /\ \A j \in op.todo, w \in Windows : ~KeptBy(rows, op.passed, w, j)
      /\ \A j \in op.todo : \E k \in op.passed \ op.todo :
           k # op.id /\ Anchor(k) /\ Newer(k, j)
  BY <1>1 DEF RetainInv, Doomed
<1>3. PICK pc \in {"retire", "unretire"} : Goto(pc)
  BY DEF RetainRemove
<1>4. /\ op' \in Op /\ op'.kind = "retain" /\ op'.pc = pc /\ op'.id = op.id
      /\ op'.todo = op.todo /\ op'.passed = op.passed /\ op'.decayed = op.decayed
  BY <1>1, <1>3, GotoOp DEF TypeInv, Pcs
<1>5. /\ UNCHANGED <<rows, temp, disk, data, synced, started, snap, misread, up, now>>
      /\ final \ {op.id} \subseteq final' /\ final' \subseteq final
      /\ reported' \subseteq reported /\ faults' \in Nat
      /\ op.id \in reported' => op.id \in final'
  <2>1. CASE final' = final \ {op.id} /\ reported' = reported \ {op.id}
    BY <2>1 DEF RetainRemove, Fault, NoFault, TypeInv
  <2>2. CASE UNCHANGED <<final, reported>>
    BY <2>2 DEF RetainRemove, Fault, NoFault, TypeInv, FilesInv
  <2> QED BY <2>1, <2>2 DEF RetainRemove
<1>6. TypeInv'
  BY <1>1, <1>4, <1>5 DEF TypeInv
<1>7. FilesInv'
  BY <1>5 DEF FilesInv
<1>8. TablesInv' /\ Tables' = Tables
  BY <1>5, TablesKept
<1>9. ReportedInv'
  BY <1>5, <1>8, ReportedKept
<1>10. Doomed' = op.todo
  BY <1>3, <1>4 DEF Doomed
<1>11. \A k : k # op.id /\ Anchor(k) => Anchor(k)'
  BY <1>4, <1>5 DEF Anchor
<1>12. \A k, j : Newer(k, j)' <=> Newer(k, j)
  BY <1>5 DEF Newer
<1>13. RetainInv'
  BY <1>1, <1>2, <1>3, <1>4, <1>5, <1>10, <1>11, <1>12 DEF RetainInv
<1> QED BY <1>4, <1>6, <1>7, <1>8, <1>9, <1>13, RetainKind

LEMMA StepRetainUnretire ==
  ASSUME IInv, RetainUnretire
  PROVE  IInv'
<1> USE DEF IInv
<1>1. /\ up /\ op.kind = "retain" /\ op.pc = "unretire" /\ op.id \in Runs
      /\ op.todo \in SUBSET Runs /\ op.passed \in SUBSET Runs
  BY DEF RetainUnretire, At, RetainInv, TypeInv, Op
<1>2. /\ op.passed \subseteq SucceededIn(rows) /\ op.todo \subseteq op.passed
      /\ \A j \in op.todo, w \in Windows : ~KeptBy(rows, op.passed, w, j)
      /\ \A j \in op.todo : \E k \in op.passed \ op.todo : Anchor(k) /\ Newer(k, j)
  BY <1>1 DEF RetainInv, Doomed
<1>3. /\ op' \in Op /\ op'.kind = "retain" /\ op'.pc = "retire"
      /\ op'.todo = op.todo /\ op'.passed = op.passed /\ op'.decayed = op.decayed
  <2>1. Goto("retire") /\ "retire" \in Pcs
    BY DEF RetainUnretire, Pcs
  <2> QED BY <1>1, <2>1, GotoOp DEF TypeInv
<1>4. UNCHANGED <<directory, history, up, now>> /\ faults' \in Nat
  BY DEF RetainUnretire, Fault, NoFault, TypeInv
<1>5. PICK i \in Runs : i = op.id
  BY <1>1
<1>6. \/ UNCHANGED rows
      \/ \E row \in Row :
           /\ row.status = rows[i].status /\ row.at = rows[i].at
           /\ row.sum = rows[i].sum
           /\ row.kept = TRUE /\ rows' = [rows EXCEPT ![i] = row]
  <2>1. TRUE \in BOOLEAN /\ "passed" \in {"passed", "failed", "retired"}
    OBVIOUS
  <2>2. \E row \in Row : Marked(i, TRUE, "passed", row)
    BY <2>1, MarkRow, Zenon
  <2>3. \/ rows' = [rows EXCEPT ![i].kept = TRUE, ![i].ver = "passed"]
        \/ UNCHANGED rows
    BY <1>5 DEF RetainUnretire
  <2> QED BY <2>2, <2>3, Zenon DEF Marked
<1>7. /\ \A j \in Runs : rows'[j].status = rows[j].status /\ rows'[j].at = rows[j].at
      /\ \A j \in Runs : rows[j].kept => rows'[j].kept
      /\ \A j \in Runs : rows'[j].sum = rows[j].sum
  BY <1>6, MarkedRows
<1>8. /\ SucceededIn(rows') = SucceededIn(rows)
      /\ \A k \in Runs, j \in Runs : Newer(k, j)' <=> Newer(k, j)
      /\ \A R \in SUBSET Runs, j \in Runs, w \in Windows :
           KeptBy(rows', R, w, j) <=> KeptBy(rows, R, w, j)
  BY <1>7, SameTimes
<1>9. \A k \in Runs : Anchor(k) => Anchor(k)'
  BY <1>3, <1>4, <1>7 DEF Anchor, directory
<1>10. Doomed' = op.todo
  BY <1>3 DEF Doomed
<1>11. \A j \in op.todo : \E k \in op.passed \ op.todo : (Anchor(k) /\ Newer(k, j))'
  BY <1>1, <1>2, <1>8, <1>9
<1>12. \A j \in op'.todo, w \in Windows : ~KeptBy(rows', op'.passed, w, j)
  BY <1>1, <1>2, <1>3, <1>8
<1>13. RetainInv'
  BY <1>2, <1>3, <1>8, <1>10, <1>11, <1>12 DEF RetainInv
<1> QED BY <1>1, <1>3, <1>4, <1>6, <1>13, RetainFrame

LEMMA StepRetainSync ==
  ASSUME IInv, RetainSync
  PROVE  IInv'
<1> USE DEF IInv
<1>1. op' = Idle /\ UNCHANGED <<rows, temp, final, data, synced, history, up, now>>
      /\ faults' \in Nat
  BY DEF RetainSync, Return, Fault, NoFault, TypeInv
<1>2. op' \in Op /\ RunInv' /\ RetainInv' /\ ReconcileInv'
  BY <1>1, IdleOp
<1>3. disk' \in Names /\ FilesInv'
  <2>1. CASE syncDirectory
    BY <1>1, <2>1, Synced DEF history
  <2>2. CASE UNCHANGED disk
    BY <1>1, <2>2, FilesKept DEF history, directory, TypeInv
  <2> QED BY <2>1, <2>2 DEF RetainSync
<1>4. TypeInv'
  BY <1>1, <1>2, <1>3 DEF TypeInv, history
<1>5. TablesInv' /\ Tables' = Tables
  BY <1>1, TablesKept DEF history
<1>6. ReportedInv'
  BY <1>1, <1>5, ReportedKept DEF history
<1> QED BY <1>2, <1>3, <1>4, <1>5, <1>6

LEMMA StepRetain ==
  ASSUME IInv, RetainStep
  PROVE  IInv'
  BY StepRetainVerify, StepRetainSelect, StepRetainRow, StepRetainRemove,
     StepRetainUnretire, StepRetainSync, StepEnds DEF RetainStep

-----------------------------------------------------------------------------
(***************************************************************************)
(* The environment.                                                        *)
(***************************************************************************)
LEMMA StepTick ==
  ASSUME IInv, Tick
  PROVE  IInv'
<1> USE DEF IInv
<1>1. UNCHANGED <<rows, directory, history, op, up, faults>> /\ now' \in 0..MaxTime
  BY RunsAssumption DEF Tick, TypeInv
<1>2. UNCHANGED <<rows, temp, final, disk, data, synced, started, snap, misread,
                  reported, op, up, faults>>
  BY <1>1 DEF directory, history
<1>3. TypeInv'
  BY <1>1, <1>2 DEF TypeInv
<1>4. FilesInv' /\ TablesInv' /\ Tables' = Tables
  BY <1>1, FilesKept, TablesKept DEF history
<1>5. ReportedInv'
  BY <1>2, <1>4, ReportedKept
<1>6. RunInv'
  BY <1>2, <1>4 DEF RunInv
<1>7. RetainInv'
  <2>1. /\ Doomed' = Doomed /\ successfulRetained' = successfulRetained
        /\ \A k : Anchor(k)' <=> Anchor(k)
        /\ \A k, j : Newer(k, j)' <=> Newer(k, j)
    BY <1>2 DEF Doomed, Anchor, Newer, successfulRetained
  <2> QED BY <1>2, <2>1 DEF RetainInv
<1>8. ReconcileInv'
  BY <1>2 DEF ReconcileInv, Reconciles, SettledRow, Legible, Running, Retired,
              successfulRetained
<1> QED BY <1>3, <1>4, <1>5, <1>6, <1>7, <1>8

LEMMA StepPowerLoss ==
  ASSUME IInv, PowerLoss
  PROVE  IInv'
<1> USE DEF IInv
<1>1. /\ op' = Idle /\ up' = FALSE /\ UNCHANGED <<rows, synced, history, now>>
      /\ faults' \in Nat
  BY DEF PowerLoss, Return, Fault, TypeInv
<1>2. op' \in Op /\ RunInv' /\ RetainInv' /\ ReconcileInv'
  BY <1>1, IdleOp
<1>3. PICK t \in SUBSET (temp \cup disk.temp), f \in SUBSET (final \cup disk.final) :
        /\ final \cap disk.final \subseteq f
        /\ temp' = t /\ final' = f /\ disk' = [temp |-> t, final |-> f]
  BY DEF PowerLoss
<1>4. t \in SUBSET Runs /\ f \in SUBSET Runs
  BY DEF TypeInv, Names
<1>5. disk' \in Names /\ disk'.temp = t /\ disk'.final = f
  BY <1>3, <1>4 DEF Names
<1>6. PICK cut \in SUBSET (Runs \ synced) :
        data' = [i \in Runs |-> IF i \in cut THEN "part" ELSE data[i]]
  BY DEF PowerLoss
<1>7. data' \in [Runs -> Contents]
  BY <1>6 DEF TypeInv, Contents
<1>8. \A i \in reported : data'[i] = data[i]
  BY <1>6 DEF FilesInv, TypeInv
<1>9. TypeInv'
  BY <1>1, <1>2, <1>3, <1>4, <1>5, <1>7 DEF TypeInv, history
<1>10. FilesInv'
  BY <1>1, <1>3, <1>5, <1>8 DEF FilesInv, history
<1>11. TablesInv' /\ Tables' = Tables
  BY <1>1, TablesKept DEF history
<1>12. ReportedInv'
  BY <1>1, <1>8, <1>11, ReportedKept DEF history
<1> QED BY <1>2, <1>9, <1>10, <1>11, <1>12

LEMMA StepRot ==
  ASSUME IInv, NEW i \in Runs, Rot(i)
  PROVE  IInv'
<1> USE DEF IInv
<1>1. /\ UNCHANGED <<rows, temp, final, disk, synced, started, snap, misread, reported,
                     up, now>> /\ faults' \in Nat
      /\ data[i] \in Intact
      /\ \E b \in {"altered", "rot"} : data' = [data EXCEPT ![i] = b]
  BY DEF Rot, Fault, TypeInv, history, Intact
<1>2. /\ data' \in [Runs -> Contents] /\ data'[i] \in Copied
      /\ \A j \in Runs : j # i => data'[j] = data[j]
  BY <1>1 DEF TypeInv, Contents, Copied, Intact
<1>3. /\ op' \in Op /\ op'.kind = op.kind /\ op'.pc = op.pc /\ op'.id = op.id
      /\ op'.todo = op.todo /\ op'.passed = op.passed
      /\ op.kind = "retain" => op'.decayed = op.decayed \cup {i}
      /\ op.kind = "idle" => op' = op
  <2>1. CASE op.kind = "retain" /\ op' = [op EXCEPT !.decayed = op.decayed \cup {i}]
    BY <2>1 DEF TypeInv, Op
  <2>2. CASE op.kind # "retain" /\ op' = op
    BY <2>2 DEF TypeInv
  <2> QED BY <2>1, <2>2 DEF Rot
<1>4. TypeInv'
  <2>1. ~up => op' = Idle
    BY <1>3 DEF TypeInv, Idle
  <2> QED BY <1>1, <1>2, <1>3, <2>1 DEF TypeInv
<1>5. \A j \in Runs : /\ data[j] \in Copied => data'[j] \in Copied
                      /\ data'[j] \in Intact => data[j] \in Intact
  BY <1>1, <1>2
<1>6. FilesInv'
  BY <1>1, <1>5 DEF FilesInv, TypeInv
<1>7. TablesInv' /\ Tables' = Tables
  BY <1>1, TablesKept
<1>8. ReportedInv'
  BY <1>1, <1>5, <1>7, ReportedKept DEF TypeInv
<1>9. RunInv'
  BY <1>1, <1>3, <1>5, <1>7 DEF RunInv
<1>10. RetainInv'
  <2> SUFFICES ASSUME op.kind = "retain" PROVE RetainInv'
    BY <1>3 DEF RetainInv
  <2>1. \A k \in Runs : Anchor(k) => Anchor(k)'
    BY <1>1, <1>2, <1>3 DEF Anchor
  <2>2. /\ Doomed' = Doomed /\ successfulRetained' = successfulRetained
        /\ \A k, j : Newer(k, j)' <=> Newer(k, j)
    BY <1>1, <1>3 DEF Doomed, Newer, successfulRetained
  <2>3. op.passed \subseteq Runs
    BY DEF TypeInv, Op
  <2> QED BY <1>1, <1>3, <2>1, <2>2, <2>3 DEF RetainInv
<1>11. ReconcileInv'
  <2>1. /\ Running' = Running /\ Retired' = Retired
        /\ \A j \in Runs : SettledRow(j) => SettledRow(j)'
    BY <1>1, <1>5 DEF Running, Retired, SettledRow, Legible, Intact, successfulRetained
  <2> QED BY <1>1, <1>3, <2>1 DEF ReconcileInv, Reconciles, TypeInv
<1> QED BY <1>4, <1>6, <1>7, <1>8, <1>9, <1>10, <1>11

LEMMA StepRestore ==
  ASSUME IInv, NEW i \in Runs, Restore(i)
  PROVE  IInv'
<1> USE DEF IInv
<1>1. /\ ~up /\ UNCHANGED <<data, synced, started, snap, misread, op, up, now>>
      /\ faults' \in Nat /\ rows' \in snap[i]
  BY DEF Restore, Fault, TypeInv
<1>2. op' = Idle
  BY <1>1 DEF TypeInv
<1>3. op' \in Op /\ RunInv' /\ RetainInv' /\ ReconcileInv'
  BY <1>2, IdleOp
<1>4. rows' \in Rows
  BY <1>1 DEF TypeInv
<1>5. /\ temp' \in SUBSET Runs /\ final' \in SUBSET Runs /\ disk' \in Names
      /\ reported' \subseteq reported /\ FilesInv'
  <2>1. CASE UNCHANGED <<temp, final, disk, reported>>
    BY <1>1, <2>1, FilesKept DEF TypeInv, directory
  <2>2. CASE /\ temp' = {} /\ final' = {} /\ disk' = [temp |-> {}, final |-> {}]
             /\ reported' = {}
    <3>1. disk' \in Names /\ disk'.final = {}
      BY <2>2 DEF Names
    <3> QED BY <2>2, <3>1 DEF FilesInv
  <2> QED BY <2>1, <2>2 DEF Restore
<1>6. TypeInv'
  BY <1>1, <1>2, <1>3, <1>4, <1>5 DEF TypeInv
<1>7. Tables' \subseteq Tables
  BY <1>1 DEF Tables
<1>8. TablesInv'
  BY <1>1, <1>7 DEF TablesInv
<1>9. ReportedInv'
  BY <1>1, <1>5, <1>7, ReportedKept
<1> QED BY <1>3, <1>5, <1>6, <1>8, <1>9

-----------------------------------------------------------------------------
LEMMA InitIInv == Init => IInv
<1> SUFFICES ASSUME Init PROVE IInv
  OBVIOUS
<1>1. Idle \in Op /\ Idle.kind = "idle"
  BY DEF Idle, Op, Kinds, Pcs
<1>2. NoRow \in Row /\ NoRow.status = "none"
  BY RunsAssumption DEF NoRow, Row, Statuses
<1>3. rows \in Rows /\ \A i \in Runs : rows[i].status = "none"
  BY <1>2, RowsType DEF Init
<1>4. disk \in Names /\ disk.final = {}
  BY DEF Init, Names
<1>5. TypeInv
  BY <1>1, <1>3, <1>4, RunsAssumption DEF Init, TypeInv, Contents
<1>6. Tables = {rows}
  BY DEF Tables, Init
<1>7. SucceededIn(rows) = {}
  BY <1>3 DEF SucceededIn
<1>8. TablesInv
  BY <1>3, <1>6, <1>7 DEF TablesInv, TableOK, RetiredIn
<1>9. FilesInv /\ ReportedInv
  BY <1>4 DEF Init, FilesInv, ReportedInv
<1>10. RunInv /\ RetainInv /\ ReconcileInv
  BY <1>1 DEF Init, RunInv, RetainInv, ReconcileInv, Reconciles
<1> QED BY <1>5, <1>8, <1>9, <1>10 DEF IInv

LEMMA StepStutter ==
  ASSUME IInv, UNCHANGED vars
  PROVE  IInv'
<1> USE DEF IInv
<1>1. UNCHANGED <<rows, temp, final, disk, data, synced, started, snap, op, up, now,
                  faults, misread, reported>>
  BY DEF vars
<1>2. TypeInv' /\ FilesInv'
  BY <1>1 DEF TypeInv, FilesInv
<1>3. TablesInv' /\ Tables' = Tables
  BY <1>1, TablesKept
<1>4. ReportedInv' /\ RunInv'
  BY <1>1, <1>3 DEF ReportedInv, RunInv
<1>5. RetainInv'
  <2>1. /\ Doomed' = Doomed /\ successfulRetained' = successfulRetained
        /\ \A k : Anchor(k)' <=> Anchor(k)
        /\ \A k, j : Newer(k, j)' <=> Newer(k, j)
    BY <1>1 DEF Doomed, Anchor, Newer, successfulRetained
  <2> QED BY <1>1, <2>1 DEF RetainInv
<1>6. ReconcileInv'
  BY <1>1 DEF ReconcileInv, Reconciles, SettledRow, Legible, Running, Retired,
              successfulRetained
<1> QED BY <1>2, <1>3, <1>4, <1>5, <1>6

LEMMA StepIInv ==
  ASSUME IInv, [Next]_vars
  PROVE  IInv'
<1>1. CASE \E i \in Runs : RunBegin(i)
  BY <1>1, StepRunBegin
<1>2. CASE Start \/ LatestBegin \/ ListRuns \/ RetainBegin
  BY <1>2, StepBegin
<1>3. CASE Service
  BY <1>3, StepRun, StepReconcile, StepRetain DEF Service
<1>4. CASE Environment
  BY <1>4, StepTick, StepEnds, StepPowerLoss, StepRot, StepRestore DEF Environment
<1>5. CASE UNCHANGED vars
  BY <1>5, StepStutter
<1> QED BY <1>1, <1>2, <1>3, <1>4, <1>5 DEF Next

LEMMA Inductive == Spec => []IInv
  BY InitIInv, StepIInv, PTL DEF Spec

-----------------------------------------------------------------------------
(***************************************************************************)
(* The theorems.                                                           *)
(***************************************************************************)

\* A path that Run returned names a complete copy until retention removes the
\* file: no crash, power loss, restore or failed step after it takes the name
\* or cuts the bytes, because publication syncs the bytes before it links the
\* name and the directory before it records the success.
THEOREM ReportedBackupsSurvive == Spec => []ReportedSurvives
<1>1. IInv => ReportedSurvives
  BY DEF IInv, FilesInv, ReportedSurvives, Copied, Intact
<1> QED BY <1>1, Inductive, PTL

\* Windows applied pass by pass, over the records each pass could verify, lose
\* nothing: no file that ApplyRetention removed is one that the windows keep
\* when they are applied to all backups that the table says succeeded.
THEOREM RetentionIsIncremental == Spec => []IncrementalRetention
<1>1. ASSUME IInv PROVE IncrementalRetention
  <2> SUFFICES ASSUME NEW i \in Retired \ final,
                      i \in retentionSet({j \in Runs : rows[j].status = "succeeded"})
               PROVE  FALSE
    BY DEF IncrementalRetention
  <2>1. PICK S \in SUBSET Runs : S = SucceededIn(rows)
    BY DEF SucceededIn
  <2>2. i \in S /\ i \in RetiredIn(rows) /\ i \in retentionSet(S)
    BY <2>1 DEF Retired, RetiredIn, SucceededIn
  <2>3. PICK w \in Windows : KeptBy(rows, S, w, i)
    BY <2>2, RetentionSet
  <2>4. TableOK(rows)
    BY <1>1, TablesType DEF IInv, TablesInv
  <2> QED BY <2>1, <2>2, <2>3, <2>4 DEF TableOK
<1> QED BY <1>1, Inductive, PTL

\* Only its removal step takes a pass from the removal of a file on.
LEMMA OnlyRemoveRemoves ==
  ASSUME IInv, [Next]_vars, At("retain", "remove"), op'.pc = "retire"
  PROVE  RetainRemove
<1>1. up /\ op.kind = "retain" /\ op.pc = "remove" /\ op # Idle
  BY DEF At, Idle
<1>2. CASE \E i \in Runs : RunBegin(i)
  BY <1>1, <1>2 DEF RunBegin
<1>3. CASE Start \/ LatestBegin \/ ListRuns \/ RetainBegin
  BY <1>1, <1>3 DEF Start, LatestBegin, ListRuns, Query, RetainBegin
<1>4. CASE RunStep
  BY <1>1, <1>4 DEF RunStep, RunRecordStart, RunCopy, RunVerify, RunSyncFile, RunPublish,
    RunUnlink, RunCheck, RunSyncDirectory, RunFails, RunUndoFinal, RunRecordFailure,
    RunDropTemp, RunRecordSuccess, RunFile, At
<1>5. CASE ReconcileStep
  BY <1>1, <1>5 DEF ReconcileStep, ReconcileDropTemp, ReconcileRunning, ReconcileRetired,
    ReconcileScan, ReconcileSync, ReconcileRetiredBegin, ReconcileScanBegin, ReconcileEnd,
    ReconcileError, LatestVerify, Reconciling, At
<1>6. CASE RetainStep
  BY <1>1, <1>6 DEF RetainStep, RetainVerify, RetainSelect, RetainRow, RetainUnretire,
    RetainSync, RetainCancelled, At
<1>7. CASE Tick \/ Crash \/ PowerLoss
  <2>1. op' = op \/ op' = Idle
    BY <1>7 DEF Tick, Crash, PowerLoss, Return
  <2> QED BY <1>1, <2>1 DEF Idle
<1>8. ASSUME NEW i \in Runs, Rot(i) \/ Restore(i) PROVE FALSE
  <2>1. op'.pc = op.pc
    BY <1>1, <1>8 DEF Rot, Restore, IInv, TypeInv, Op
  <2> QED BY <1>1, <2>1
<1>9. CASE UNCHANGED vars
  BY <1>1, <1>9 DEF vars
<1> QED BY <1>2, <1>3, <1>4, <1>5, <1>6, <1>7, <1>8, <1>9 DEF Next, Service, Environment

\* ApplyRetention removes a file only while a newer retained backup which
\* passed verification in this pass is in the directory: it has the bytes whose
\* checksum its row holds, unless it decayed under the pass.  The windows keep
\* the newest record that passed.  That the bytes are those the run copied is
\* not claimed of a file whose row reconciliation wrote: it may have been
\* altered before, and only the checksum that was lost would have told.
THEOREM RetentionKeepsOne == Spec => RetentionKeepsSoundBackup
<1> DEFINE Kept == At("retain", "remove") /\ op'.pc = "retire" =>
             \E j \in final' \ temp' :
               /\ rows[j].kept /\ Newer(j, op.id)
               /\ data[j] = rows[j].sum \/ j \in op.decayed
<1>1. ASSUME IInv, [Next]_vars, At("retain", "remove"), op'.pc = "retire"
      PROVE  \E j \in final' \ temp' :
               /\ rows[j].kept /\ Newer(j, op.id)
               /\ data[j] = rows[j].sum \/ j \in op.decayed
  <2>1. RetainRemove
    BY <1>1, OnlyRemoveRemoves
  <2>2. op \in Op
    BY <1>1 DEF IInv, TypeInv
  <2>3. ~Goto("unretire")
    BY <1>1, <2>2 DEF Goto, Op
  <2>4. final' = final \ {op.id} /\ temp' = temp
    BY <2>1, <2>3 DEF RetainRemove
  <2>5. op.kind = "retain" /\ op.pc = "remove" /\ op.id \in Doomed
    BY <1>1 DEF At, Doomed
  <2>6. PICK k \in op.passed \ Doomed : Anchor(k) /\ Newer(k, op.id)
    BY <1>1, <2>5 DEF IInv, RetainInv
  <2>7. k \in final' \ temp'
    BY <2>4, <2>5, <2>6 DEF Anchor
  <2> QED BY <2>6, <2>7 DEF Anchor
<1>2. IInv /\ [Next]_vars => [Kept]_vars
  BY <1>1
<1> QED BY <1>2, Inductive, PTL DEF Spec, RetentionKeepsSoundBackup

\* Only its end takes a reconciliation from an empty scan on without a fault.
LEMMA OnlyEndEnds ==
  ASSUME IInv, [Next]_vars, Reconciling("scan"), op.todo = {},
         op'.pc \in {"idle", "query"}, up', faults' = faults
  PROVE  ReconcileEnd
<1>1. up /\ op.kind \in {"start", "latest", "list"} /\ op.pc = "scan" /\ op # Idle
  BY DEF Reconciling, Idle
<1>2. CASE \E i \in Runs : RunBegin(i)
  BY <1>1, <1>2 DEF RunBegin
<1>3. CASE Start \/ LatestBegin \/ ListRuns \/ RetainBegin
  BY <1>1, <1>3 DEF Start, LatestBegin, ListRuns, Query, RetainBegin
<1>4. CASE RunStep
  BY <1>1, <1>4 DEF RunStep, RunRecordStart, RunCopy, RunVerify, RunSyncFile, RunPublish,
    RunUnlink, RunCheck, RunSyncDirectory, RunFails, RunUndoFinal, RunRecordFailure,
    RunDropTemp, RunRecordSuccess, RunFile, At
<1>5. faults \in Nat /\ ~Fault
  BY DEF IInv, TypeInv, Fault
<1>6. CASE ReconcileStep
  BY <1>1, <1>5, <1>6 DEF ReconcileStep, ReconcileDropTemp, ReconcileRunning,
    ReconcileRetired, ReconcileScan, ReconcileSync, ReconcileRetiredBegin,
    ReconcileScanBegin, ReconcileError, LatestVerify, Reconciling, At
<1>7. CASE RetainStep
  BY <1>1, <1>7 DEF RetainStep, RetainVerify, RetainSelect, RetainRow, RetainRemove,
    RetainUnretire, RetainSync, RetainCancelled, At
<1>8. CASE Environment
  BY <1>1, <1>5, <1>8 DEF Environment, Tick, Crash, PowerLoss, Rot, Restore
<1>9. CASE UNCHANGED vars
  BY <1>1, <1>9 DEF vars
<1> QED BY <1>2, <1>3, <1>4, <1>6, <1>7, <1>8, <1>9 DEF Next, Service

\* When a reconciliation ends without an error, table and directory agree: no
\* run is left running, what retention could not remove is retained again, and
\* a legible file that no read error hid is a retained success unless its own
\* run was recorded failed, which no run that was reported is.
THEOREM ReconciliationRestoresAgreement == Spec => ReconciliationAgrees
<1> DEFINE Agrees == (Reconciling("scan") /\ op.todo = {} /\ op'.pc \in {"idle", "query"}
                      /\ up' /\ faults' = faults) => Reconciled'
<1>1. ASSUME IInv, [Next]_vars, Reconciling("scan"), op.todo = {},
             op'.pc \in {"idle", "query"}, up', faults' = faults
      PROVE  Reconciled'
  <2>1. ReconcileEnd
    BY <1>1, OnlyEndEnds
  <2>2. UNCHANGED <<rows, temp, final, data, misread, reported>>
    BY <2>1 DEF ReconcileEnd, directory, history
  <2>3. /\ Running = {} /\ Retired \cap final = {}
        /\ \A i \in final \ misread : SettledRow(i)
    BY <1>1 DEF IInv, ReconcileInv, Reconciles, Reconciling
  <2>4. Reconciled
    BY <2>3 DEF Reconciled, SettledRow
  <2> QED BY <2>2, <2>4 DEF Reconciled, Running, Retired, Legible, successfulRetained
<1>2. IInv /\ [Next]_vars => [Agrees]_vars
  BY <1>1
<1> QED BY <1>2, Inductive, PTL DEF Spec, ReconciliationAgrees

=============================================================================
