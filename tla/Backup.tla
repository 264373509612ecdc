------------------------------- MODULE Backup -------------------------------
(***************************************************************************)
(* The backup service: Run, ApplyRetention, LatestSuccessful, ListRuns and *)
(* the reconciliation that NewService and the two queries perform, over    *)
(* the table backup_runs, the backup directory and the disk below it.  One *)
(* operation holds runMu at a time; a step is one statement on the         *)
(* database or one call on the directory, so that a fault can fall between *)
(* any two of them.  Names live in the directory and become durable only   *)
(* when the directory is synced; the bytes of a file when it is synced.    *)
(***************************************************************************)
EXTENDS Integers, FiniteSets, FiniteSetsExt

CONSTANTS
  Runs,       \* identifiers of backup runs: naturals, for `id` breaks ties
  Windows,    \* retention windows: [limit, span], a bucket is `span` ticks
  MaxTime,    \* bound of the clock
  MaxFaults   \* bound of errors, crashes, power losses, rot and restores

ASSUME RunsAssumption ==
  /\ Runs \subseteq Nat \ {0} /\ IsFiniteSet(Runs) /\ MaxTime \in Nat
  /\ Windows # {} /\ \A w \in Windows : w.limit \in Nat \ {0} /\ w.span \in Nat \ {0}

VARIABLES
  rows,       \* backup_runs by id
  temp,       \* ids whose ".<name>.partial" is in the directory
  final,      \* ids whose canonical name is in the directory
  disk,       \* [temp, final] as of the last sync of the directory
  data,       \* bytes of the file of each id: both names link one inode
  synced,     \* ids whose bytes are on the disk
  started,    \* time in the name of the file of each id, -1: never drawn
  snap,       \* rows as the copy of each id holds them
  op,         \* the operation that holds runMu
  up,         \* the process serves
  now, faults,
  misread,    \* runs whose legible file a read error hid from reconciliation
  reported    \* runs whose path was returned and retention has not removed

vars == <<rows, temp, final, disk, data, synced, started, snap, op, up, now,
          faults, misread, reported>>
directory == <<temp, final, disk, data, synced>>
history == <<started, snap, misread, reported>>

\* sum: the bytes whose checksum the row holds.
NoRow == [status |-> "none", kept |-> FALSE, ver |-> "unknown", at |-> 0,
          sum |-> "none"]

\* kind: who holds runMu; pc: its next step; todo: rows of its loop;
\* passed: records this retention pass verified; decayed: files that rotted
\* under the pass.
Idle == [kind |-> "idle", pc |-> "idle", id |-> 0, todo |-> {}, passed |-> {},
         decayed |-> {}]

Statuses == {"none", "running", "succeeded", "failed"}
Rows == [Runs -> [status : Statuses, kept : BOOLEAN,
                  ver : {"unknown", "passed", "failed", "retired"},
                  at : 0..MaxTime, sum : {"none", "whole", "altered"}]]

Init ==
  /\ rows = [i \in Runs |-> NoRow]
  /\ temp = {} /\ final = {} /\ disk = [temp |-> {}, final |-> {}]
  /\ data = [i \in Runs |-> "empty"] /\ synced = {}
  /\ started = [i \in Runs |-> -1] /\ snap = [i \in Runs |-> {}]
  /\ op = Idle /\ up = TRUE /\ now = 0 /\ faults = 0
  /\ misread = {} /\ reported = {}

(***************************************************************************)
(* Rows and retention windows.                                             *)
(***************************************************************************)
Running == {i \in Runs : rows[i].status = "running"}
Retired == {i \in Runs : rows[i].status = "succeeded" /\ ~rows[i].kept
                           /\ rows[i].ver = "retired"}
successfulRetained == {i \in Runs : rows[i].status = "succeeded" /\ rows[i].kept}

\* ORDER BY completed_at DESC, id DESC.
Newer(i, j) == rows[i].at > rows[j].at \/ (rows[i].at = rows[j].at /\ i > j)
Newest(S) == CHOOSE i \in S : \A j \in S \ {i} : Newer(i, j)

Bucket(w, i) == rows[i].at \div w.span
selectBuckets(R, w) ==
  {i \in R : LET newer == {j \in R : Newer(j, i)}
                 seen == {Bucket(w, j) : j \in newer}
             IN  Bucket(w, i) \notin seen /\ Cardinality(seen) < w.limit}
retentionSet(R) == UNION {selectBuckets(R, w) : w \in Windows}

recordSuccess(i, sum, t) ==
  [rows EXCEPT ![i] = [status |-> "succeeded", kept |-> TRUE,
                       ver |-> "passed", at |-> t, sum |-> sum]]
recordFailure(i) ==
  IF rows[i].status = "running"
  THEN [rows EXCEPT ![i] = [status |-> "failed", kept |-> FALSE,
                            ver |-> "failed", at |-> now, sum |-> "none"]]
  ELSE rows

\* verifyRelative without a checksum to expect: a single link to a readable
\* file which passes integrity_check.  That check does not see content which
\* was altered but is still a well-formed database.
Legible(i) == i \in final /\ i \notin temp /\ data[i] \in {"whole", "altered"}
\* verifyRelative with the checksum of the row.
Sound(i) == Legible(i) /\ data[i] = rows[i].sum

(***************************************************************************)
(* Faults.  A step that fails counts as one; Fault charges it.             *)
(***************************************************************************)
Fault == faults < MaxFaults /\ faults' = faults + 1
NoFault == UNCHANGED faults
syncDirectory == disk' = [temp |-> temp, final |-> final]

At(kind, pc) == up /\ op.kind = kind /\ op.pc = pc
Goto(pc) == op' = [op EXCEPT !.pc = pc]
Return == op' = Idle

(***************************************************************************)
(* Run.  TryLock: an operation in progress refuses it without a trace.     *)
(***************************************************************************)
\* Identifiers are random in the code; they only break ties, so they are drawn
\* in order here.
RunBegin(i) ==
  /\ up /\ op = Idle
  /\ started[i] = -1 /\ \A j \in Runs : started[j] = -1 => i <= j
  /\ started' = [started EXCEPT ![i] = now]
  /\ temp' = temp \cup {i}                            \* reserveTemp
  /\ op' = [Idle EXCEPT !.kind = "run", !.pc = "record", !.id = i]
  /\ NoFault
  /\ UNCHANGED <<rows, final, disk, data, synced, snap, up, now, misread,
                 reported>>

\* A step of Run that does not touch the database.
RunFile(from, to) ==
  /\ At("run", from) /\ Goto(to) /\ NoFault
  /\ UNCHANGED <<rows, history, up, now>>

RunRecordStart ==
  /\ At("run", "record")
  /\ \/ /\ rows' = [rows EXCEPT ![op.id] =
                      [NoRow EXCEPT !.status = "running", !.kept = TRUE]]
        /\ Goto("copy") /\ NoFault
     \/ Fault /\ Goto("droptemp") /\ UNCHANGED rows
  /\ UNCHANGED <<directory, history, up, now>>

\* The copy is one transaction of the database; an error leaves part of it.
RunCopy ==
  /\ At("run", "copy")
  /\ \/ /\ data' = [data EXCEPT ![op.id] = "whole"]
        /\ snap' = [snap EXCEPT ![op.id] = {rows}]
        /\ Goto("verify") /\ NoFault
     \/ /\ Fault /\ data' = [data EXCEPT ![op.id] = "part"]
        /\ Goto("recordfailure") /\ UNCHANGED snap
  /\ UNCHANGED <<rows, temp, final, disk, synced, started, misread, up, now,
                 reported>>

\* chmodFile and the first verifyRelative: of a file only this run knows.
RunVerify == RunFile("verify", "syncfile") /\ UNCHANGED directory
RunSyncFile ==
  /\ RunFile("syncfile", "publish")
  /\ synced' = synced \cup {op.id} /\ UNCHANGED <<temp, final, disk, data>>
RunPublish ==
  /\ RunFile("publish", "unlink")
  /\ final' = final \cup {op.id} /\ UNCHANGED <<temp, disk, data, synced>>
RunUnlink ==
  /\ RunFile("unlink", "check")
  /\ temp' = temp \ {op.id} /\ UNCHANGED <<final, disk, data, synced>>
\* The second verifyRelative, with the checksum of the first.
Published == Legible(op.id) /\ data[op.id] = "whole"
RunCheck == RunFile("check", "syncdir") /\ Published /\ UNCHANGED directory
RunSyncDirectory_Skipped == RunFile("syncdir", "success") /\ UNCHANGED directory
RunSyncDirectory ==
  /\ RunFile("syncdir", "success")
  /\ syncDirectory /\ UNCHANGED <<temp, final, data, synced>>

\* The error paths: the published name is removed only after its link.
RunFails ==
  /\ up /\ op.kind = "run"
  /\ op.pc \in {"verify", "syncfile", "publish", "unlink", "check", "syncdir"}
  /\ IF op.pc = "check" /\ ~Published THEN NoFault ELSE Fault
  /\ Goto(IF op.pc \in {"unlink", "check", "syncdir"}
          THEN "undofinal" ELSE "recordfailure")
  /\ UNCHANGED <<rows, directory, history, up, now>>

\* Best effort: the result of each of these calls is ignored.
RunUndoFinal ==
  /\ At("run", "undofinal") /\ Goto("recordfailure")
  /\ \/ final' = final \ {op.id} /\ NoFault
     \/ UNCHANGED final /\ Fault
  /\ UNCHANGED <<rows, temp, disk, data, synced, history, up, now>>
RunRecordFailure ==
  /\ At("run", "recordfailure") /\ Goto("droptemp")
  /\ \/ rows' = recordFailure(op.id) /\ NoFault
     \/ UNCHANGED rows /\ Fault
  /\ UNCHANGED <<directory, history, up, now>>
RunDropTemp ==
  /\ At("run", "droptemp") /\ Return
  /\ \/ temp' = temp \ {op.id} /\ NoFault
     \/ op.id \in temp /\ UNCHANGED temp /\ Fault
  /\ UNCHANGED <<rows, final, disk, data, synced, history, up, now>>

\* When the record fails the published file stays, for reconciliation.
RunRecordSuccess ==
  /\ At("run", "success")
  /\ \/ /\ rows' = recordSuccess(op.id, "whole", now)
        /\ reported' = reported \cup {op.id} /\ Return /\ NoFault
     \/ Fault /\ Goto("droptemp") /\ UNCHANGED <<rows, reported>>
  /\ UNCHANGED <<directory, started, snap, misread, up, now>>

(***************************************************************************)
(* Reconciliation, by NewService at a start, by LatestSuccessful and by    *)
(* ListRuns.  An error of any kind ends it: the start fails, the query is  *)
(* refused.  A file without a success is taken over on the integrity check *)
(* alone, with the checksum of the bytes that are found.                   *)
(***************************************************************************)
Reconciling(pc) == up /\ op.kind \in {"start", "latest", "list"} /\ op.pc = pc

Start ==
  /\ ~up /\ up' = TRUE
  /\ op' = [Idle EXCEPT !.kind = "start", !.pc = "running", !.todo = Running]
  /\ NoFault /\ UNCHANGED <<rows, directory, history, now>>
Query(kind) ==
  /\ up /\ op = Idle
  /\ op' = [Idle EXCEPT !.kind = kind, !.pc = "running", !.todo = Running]
  /\ NoFault /\ UNCHANGED <<rows, directory, history, up, now>>
LatestBegin == Query("latest")
ListRuns == Query("list")

ReconcileError ==
  /\ up /\ op.kind \in {"start", "latest", "list"} /\ Fault
  /\ up' = (op.kind # "start") /\ Return
  /\ UNCHANGED <<rows, directory, history, now>>

\* One row at a time; what happens to a row does not depend on the others.
Turn(i) == i = Min(op.todo)

\* A partial file is removed first; beside a published one, durably.
ReconcileDropTemp(i) ==
  /\ Reconciling("running") /\ op.todo # {} /\ Turn(i)
  /\ i \in temp /\ temp' = temp \ {i}
  /\ Goto(IF i \in final THEN "syncing" ELSE "running")
  /\ NoFault /\ UNCHANGED <<rows, final, disk, data, synced, history, up, now>>
ReconcileSync ==
  /\ Reconciling("syncing") /\ syncDirectory /\ Goto("running")
  /\ NoFault
  /\ UNCHANGED <<rows, temp, final, data, synced, history, up, now>>
\* Mutant: a row without a published file is left to the next start.
ReconcileRunning_PublishedOnly(i) ==
  /\ Reconciling("running") /\ op.todo # {} /\ Turn(i) /\ i \notin temp
  /\ rows' = IF i \notin final THEN rows
             ELSE IF Legible(i) THEN recordSuccess(i, data[i], now)
             ELSE recordFailure(i)
  /\ op' = [op EXCEPT !.todo = @ \ {i}]
  /\ NoFault /\ UNCHANGED <<directory, history, up, now>>
ReconcileRunning(i) ==
  /\ Reconciling("running") /\ op.todo # {} /\ Turn(i) /\ i \notin temp
  /\ \/ /\ rows' = IF Legible(i) THEN recordSuccess(i, data[i], now)
                   ELSE recordFailure(i)
        /\ NoFault /\ UNCHANGED misread
     \/ /\ Legible(i) /\ rows' = recordFailure(i) /\ Fault    \* a read error
        /\ misread' = misread \cup {i}
  /\ op' = [op EXCEPT !.todo = @ \ {i}]
  /\ UNCHANGED <<directory, started, snap, reported, up, now>>

ReconcileRetiredBegin ==
  /\ Reconciling("running") /\ op.todo = {}
  /\ op' = [op EXCEPT !.pc = "retired", !.todo = Retired]
  /\ NoFault /\ UNCHANGED <<rows, directory, history, up, now>>
\* Mutant: a file that retention failed to remove stays retired.
ReconcileRetired_Forgotten(i) ==
  /\ Reconciling("retired") /\ op.todo # {} /\ Turn(i)
  /\ op' = [op EXCEPT !.todo = @ \ {i}]
  /\ NoFault /\ UNCHANGED <<rows, directory, history, up, now>>
ReconcileRetired(i) ==
  /\ Reconciling("retired") /\ op.todo # {} /\ Turn(i)
  /\ op' = [op EXCEPT !.todo = @ \ {i}]
  /\ LET back(v) == [rows EXCEPT ![i].kept = TRUE, ![i].ver = v]
     IN  \/ i \notin final /\ UNCHANGED rows /\ NoFault
         \/ Sound(i) /\ rows' = back("passed") /\ NoFault
         \/ i \in final /\ ~Sound(i) /\ rows' = back("failed") /\ NoFault
         \/ Sound(i) /\ rows' = back("failed") /\ Fault
  /\ UNCHANGED <<directory, history, up, now>>

\* The directory scan: canonical names that the table does not know.
ReconcileScanBegin ==
  /\ Reconciling("retired") /\ op.todo = {}
  /\ op' = [op EXCEPT !.pc = "scan", !.todo = final]
  /\ NoFault /\ UNCHANGED <<rows, directory, history, up, now>>
ReconcileScan(i) ==
  /\ Reconciling("scan") /\ op.todo # {} /\ Turn(i)
  /\ LET known == rows[i].status \notin {"none", "running"}
     IN  \/ (known \/ ~Legible(i)) /\ NoFault /\ UNCHANGED <<rows, misread>>
         \/ /\ ~known /\ Legible(i) /\ NoFault /\ UNCHANGED misread
            /\ rows' = recordSuccess(i, data[i], started[i])
         \/ /\ ~known /\ Legible(i) /\ Fault /\ UNCHANGED rows
            /\ misread' = misread \cup {i}
  /\ op' = [op EXCEPT !.todo = @ \ {i}]
  /\ UNCHANGED <<directory, started, snap, reported, up, now>>
ReconcileEnd ==
  /\ Reconciling("scan") /\ op.todo = {}
  /\ op' = IF op.kind = "latest" THEN [op EXCEPT !.pc = "query"] ELSE Idle
  /\ NoFault /\ UNCHANGED <<rows, directory, history, up, now>>

\* persistVerification of the newest retained run; its failure changes nothing.
LatestVerify ==
  /\ At("latest", "query") /\ Return
  /\ LET i == Newest(successfulRetained)
         mark(v) == rows' = [rows EXCEPT ![i].ver = v]
     IN  \/ successfulRetained = {} /\ UNCHANGED rows /\ NoFault
         \/ /\ successfulRetained # {} /\ NoFault
            /\ mark(IF Sound(i) THEN "passed" ELSE "failed")
         \/ successfulRetained # {} /\ mark("failed") /\ Fault
         \/ successfulRetained # {} /\ UNCHANGED rows /\ Fault
  /\ UNCHANGED <<directory, history, up, now>>

(***************************************************************************)
(* ApplyRetention: verify every candidate, then retire what is outside of  *)
(* every window: first the row, then the file.                             *)
(***************************************************************************)
RetainBegin ==
  /\ up /\ op = Idle
  /\ op' = [Idle EXCEPT !.kind = "retain", !.pc = "verify",
                        !.todo = successfulRetained]
  /\ NoFault /\ UNCHANGED <<rows, directory, history, up, now>>

\* Mutant: the verification recorded earlier is taken for one of this pass.
RetainVerify_Trusting ==
  /\ At("retain", "verify") /\ op.todo # {}
  /\ LET i == Newest(op.todo)
         passed == IF rows[i].ver = "passed" THEN {i} ELSE {}
     IN  op' = [op EXCEPT !.todo = @ \ {i}, !.passed = @ \cup passed]
  /\ NoFault /\ UNCHANGED <<rows, directory, history, up, now>>

RetainVerify ==
  /\ At("retain", "verify") /\ op.todo # {}
  /\ LET i == Newest(op.todo)
         mark(v) == rows' = [rows EXCEPT ![i].ver = v]
         next(p) == op' = [op EXCEPT !.todo = @ \ {i}, !.passed = @ \cup p]
     IN  \/ Sound(i) /\ mark("passed") /\ next({i}) /\ NoFault
         \/ ~Sound(i) /\ mark("failed") /\ next({}) /\ NoFault
         \/ Sound(i) /\ mark("failed") /\ next({}) /\ Fault
         \/ UNCHANGED rows /\ next({}) /\ Fault
  /\ UNCHANGED <<directory, history, up, now>>

\* Mutant: only what every window keeps is kept.
RetainSelect_EveryWindow ==
  /\ At("retain", "verify") /\ op.todo = {}
  /\ op' = [op EXCEPT !.pc = "retire", !.todo =
              {i \in op.passed : \E w \in Windows : i \notin selectBuckets(op.passed, w)}]
  /\ NoFault /\ UNCHANGED <<rows, directory, history, up, now>>
RetainSelect ==
  /\ At("retain", "verify") /\ op.todo = {}
  /\ op' = [op EXCEPT !.pc = "retire",
                      !.todo = op.passed \ retentionSet(op.passed)]
  /\ NoFault /\ UNCHANGED <<rows, directory, history, up, now>>

\* A file that is gone, is linked twice or whose row cannot be written stays.
RetainRow ==
  /\ At("retain", "retire") /\ op.todo # {}
  /\ LET i == Newest(op.todo)
     IN  \/ /\ i \in final \ temp /\ NoFault
            /\ rows' = [rows EXCEPT ![i].kept = FALSE, ![i].ver = "retired"]
            /\ op' = [op EXCEPT !.pc = "remove", !.id = i, !.todo = @ \ {i}]
         \/ /\ IF i \in final \ temp THEN Fault ELSE NoFault
            /\ UNCHANGED rows /\ op' = [op EXCEPT !.todo = @ \ {i}]
  /\ UNCHANGED <<directory, history, up, now>>
RetainRemove ==
  /\ At("retain", "remove")
  /\ \/ /\ final' = final \ {op.id} /\ reported' = reported \ {op.id}
        /\ Goto("retire") /\ NoFault
     \/ Fault /\ Goto("unretire") /\ UNCHANGED <<final, reported>>
  /\ UNCHANGED <<rows, temp, disk, data, synced, started, snap, misread, up,
                 now>>
RetainUnretire ==
  /\ At("retain", "unretire") /\ Goto("retire")
  /\ \/ /\ rows' = [rows EXCEPT ![op.id].kept = TRUE, ![op.id].ver = "passed"]
        /\ NoFault
     \/ UNCHANGED rows /\ Fault
  /\ UNCHANGED <<directory, history, up, now>>
RetainSync ==
  /\ At("retain", "retire") /\ op.todo = {} /\ Return
  /\ \/ syncDirectory /\ NoFault
     \/ UNCHANGED disk /\ Fault
  /\ UNCHANGED <<rows, temp, final, data, synced, history, up, now>>

\* A context that ends while records are verified ends the pass.
RetainCancelled ==
  /\ At("retain", "verify") /\ Fault /\ Return
  /\ UNCHANGED <<rows, directory, history, up, now>>

(***************************************************************************)
(* The environment.                                                        *)
(***************************************************************************)
Tick ==
  /\ now < MaxTime /\ now' = now + 1
  /\ UNCHANGED <<rows, directory, history, op, up, faults>>

Crash ==
  /\ up /\ Fault /\ up' = FALSE /\ Return
  /\ UNCHANGED <<rows, directory, history, now>>

\* Every name that is not synced may or may not have reached the disk, and
\* bytes that are not synced may be cut.  Commits of the database are durable.
PowerLoss ==
  /\ Fault /\ up' = FALSE /\ Return
  /\ \E t \in SUBSET (temp \cup disk.temp), f \in SUBSET (final \cup disk.final) :
       /\ temp \cap disk.temp \subseteq t /\ final \cap disk.final \subseteq f
       /\ temp' = t /\ final' = f /\ disk' = [temp |-> t, final |-> f]
  /\ \E cut \in SUBSET {i \in Runs \ synced : data[i] = "whole"} :
       data' = [i \in Runs |-> IF i \in cut THEN "part" ELSE data[i]]
  /\ UNCHANGED <<rows, synced, history, now>>

\* A published file decays: it is no database any more, or it is one with
\* other content, which only the checksum tells from the copy.  What alters an
\* altered file again is like damage to whoever knows its checksum.
Rot(i) ==
  /\ i \in final /\ Fault
  /\ \/ data[i] \in {"whole", "altered"} /\ data' = [data EXCEPT ![i] = "rot"]
     \/ data[i] = "whole" /\ data' = [data EXCEPT ![i] = "altered"]
  /\ op' = IF op.kind = "retain" THEN [op EXCEPT !.decayed = @ \cup {i}] ELSE op
  /\ UNCHANGED <<rows, temp, final, disk, synced, history, up, now>>

\* The operator replaces the database by an intact backup, beside the old directory
\* or a new and empty one.
Restore(i) ==
  /\ ~up /\ i \in final /\ data[i] = "whole" /\ Fault
  /\ rows' \in snap[i]
  /\ \/ UNCHANGED <<temp, final, disk, reported>>
     \/ /\ temp' = {} /\ final' = {} /\ disk' = [temp |-> {}, final |-> {}]
        /\ reported' = {}
  /\ UNCHANGED <<data, synced, started, snap, misread, op, up, now>>

RunStep ==
  RunRecordStart \/ RunCopy \/ RunVerify \/ RunSyncFile \/ RunPublish
  \/ RunUnlink \/ RunCheck \/ RunSyncDirectory \/ RunFails \/ RunUndoFinal
  \/ RunRecordFailure \/ RunDropTemp \/ RunRecordSuccess
ReconcileStep ==
  \/ \E i \in Runs : ReconcileDropTemp(i) \/ ReconcileRunning(i)
                       \/ ReconcileRetired(i) \/ ReconcileScan(i)
  \/ ReconcileSync \/ ReconcileRetiredBegin \/ ReconcileScanBegin
  \/ ReconcileEnd \/ ReconcileError \/ LatestVerify
RetainStep ==
  RetainVerify \/ RetainSelect \/ RetainRow \/ RetainRemove \/ RetainUnretire
  \/ RetainSync \/ RetainCancelled
Service == RunStep \/ ReconcileStep \/ RetainStep
Environment ==
  \/ Tick \/ Crash \/ PowerLoss
  \/ \E i \in Runs : Rot(i) \/ Restore(i)

Next ==
  \/ \E i \in Runs : RunBegin(i)
  \/ Start \/ LatestBegin \/ ListRuns \/ RetainBegin \/ Service \/ Environment

Spec == Init /\ [][Next]_vars

(***************************************************************************)
(* Fairness: a thread that holds runMu goes on, the supervisor restarts    *)
(* the process, and a health query that waits for runMu gets it in turn.   *)
(***************************************************************************)
FairSpec ==
  Spec /\ WF_vars(Service) /\ WF_vars(Start) /\ SF_vars(LatestBegin)

(***************************************************************************)
(* Properties.                                                             *)
(***************************************************************************)

\* A path that Run returned names a complete copy until retention removes it,
\* whatever crash or power loss follows, decay apart: publication syncs the
\* bytes before the link and the directory before the success is recorded.
ReportedSurvives ==
  \A i \in reported : i \in final /\ data[i] \in {"whole", "altered", "rot"}

\* ApplyRetention removes a file only while a newer retained backup is in the
\* directory which passed verification in this very pass: it has, or had until
\* it decayed under the pass, the bytes whose checksum its row holds.  These
\* are the bytes the run copied unless reconciliation wrote the row: it takes
\* a file over without a checksum to expect, one that was altered included.
RetentionKeepsSoundBackup ==
  [][(At("retain", "remove") /\ op'.pc = "retire") =>
       \E j \in final' \ temp' :
         /\ rows[j].kept /\ Newer(j, op.id)
         /\ data[j] = rows[j].sum \/ j \in op.decayed]_vars

\* Windows applied pass by pass lose nothing: no backup that was removed is
\* one that the windows keep when applied to all backups ever completed.
IncrementalRetention ==
  \A i \in Retired \ final :
    i \notin retentionSet({j \in Runs : rows[j].status = "succeeded"})

\* When a reconciliation ends, table and directory agree: no run is left
\* running, a file that retention failed to remove is retained again, and a
\* legible file is a retained success unless its own run was recorded failed.
Reconciled ==
  /\ Running = {} /\ Retired \cap final = {}
  /\ \A i \in final \ misread : Legible(i) =>
       /\ i \in successfulRetained \/ rows[i].status = "failed"
       /\ i \in reported => i \in successfulRetained
ReconciliationAgrees ==
  [][(Reconciling("scan") /\ op.todo = {} /\ op'.pc \in {"idle", "query"}
      /\ up' /\ faults' = faults) => Reconciled']_vars

\* A run that an error or a crash left running is settled: the next start or
\* health query records what became of it.
RunningSettles ==
  \A i \in Runs : rows[i].status = "running" ~> rows[i].status # "running"
=============================================================================
