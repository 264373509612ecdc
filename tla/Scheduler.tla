------------------------------ MODULE Scheduler ------------------------------
(***************************************************************************)
(* The maintenance scheduler: callers Start and Stop it, each Start makes  *)
(* a goroutine `loop`, and the loop or a caller executes RunOnce.  The     *)
(* jobs of a run are taken in order; the first two need the lock of the    *)
(* backup service, which a health query may hold (TryLock refuses them).   *)
(***************************************************************************)
EXTENDS Integers, Sequences, FiniteSets

CONSTANTS
  Callers,    \* goroutines that call Start, Stop and RunOnce
  MaxStarts,  \* bound of the calls of Start that succeed
  MaxTicks    \* bound of the ticks of all tickers together

ASSUME BoundsAssumption == MaxStarts \in Nat /\ MaxTicks \in Nat
ASSUME CallersAssumption == \A c \in Callers : c \notin 0..MaxStarts

Loops == 1..MaxStarts
Threads == Loops \cup Callers
Jobs == <<"Run", "ApplyRetention", "PurgeExpired", "PurgeBefore", "Cleanup">>

VARIABLES
  started,    \* s.started; the loop it stands for is `current`
  current,    \* loop whose cancel and done the scheduler holds, 0: none
  starts,     \* loops made so far
  cancelled,  \* loops whose context is done
  pc,         \* of each thread
  target,     \* loop whose done channel a caller in Stop waits for
  ticks,
  runMu,      \* thread that executes RunOnce, 0: free
  job,        \* index of the job of the run in progress
  codes,      \* error codes of the run in progress: the jobs that failed
  done,       \* jobs of the run in progress that succeeded
  health,     \* a health query holds the lock of the backup service
  status      \* Running, ErrorCodes, whether NextRunAt is set, and how
              \* often LastSuccessAt was set

vars == <<started, current, starts, cancelled, pc, target, ticks, runMu, job,
          codes, done, health, status>>
lifecycle == <<started, current, starts, cancelled, target>>
run == <<runMu, job, codes, done>>

LoopPcs == {"none", "select", "begin", "jobs", "finish", "next", "ended"}
CallerPcs == {"idle", "begin", "jobs", "finish", "cancel", "wait", "clear"}

TypeOK ==
  /\ started \in BOOLEAN /\ current \in 0..MaxStarts /\ starts \in 0..MaxStarts
  /\ cancelled \subseteq 0..MaxStarts
  /\ pc \in [Threads -> LoopPcs \cup CallerPcs]
  /\ \A l \in Loops : pc[l] \in LoopPcs
  /\ \A c \in Callers : pc[c] \in CallerPcs
  /\ target \in [Callers -> 0..MaxStarts]
  /\ ticks \in 0..MaxTicks /\ runMu \in Threads \cup {0}
  /\ job \in 0..Len(Jobs) + 1
  /\ codes \subseteq 1..Len(Jobs) /\ done \subseteq 1..Len(Jobs)
  /\ health \in BOOLEAN
  /\ status \in [running : BOOLEAN, codes : SUBSET (1..Len(Jobs)),
                 next : BOOLEAN, success : Nat]

Init ==
  /\ started = FALSE /\ current = 0 /\ starts = 0 /\ cancelled = {}
  /\ pc = [t \in Threads |-> IF t \in Loops THEN "none" ELSE "idle"]
  /\ target = [c \in Callers |-> 0] /\ ticks = 0
  /\ runMu = 0 /\ job = 0 /\ codes = {} /\ done = {}
  /\ health = FALSE
  /\ status = [running |-> FALSE, codes |-> {}, next |-> FALSE,
               success |-> 0]

Goto(t, to) == pc' = [pc EXCEPT ![t] = to]

(***************************************************************************)
(* Start and Stop.  Start holds lifecycleMu throughout; Stop gives it up   *)
(* before it cancels and waits.  A Start of a started scheduler and a Stop *)
(* of a stopped one return at once and change nothing.                     *)
(***************************************************************************)
Start(c) ==
  /\ pc[c] = "idle" /\ ~started /\ starts < MaxStarts
  /\ started' = TRUE /\ starts' = starts + 1 /\ current' = starts + 1
  /\ pc' = [pc EXCEPT ![starts + 1] = "select"]
  /\ status' = [status EXCEPT !.next = TRUE]
  /\ UNCHANGED <<cancelled, target, ticks, run, health>>

Stop(c) ==
  /\ pc[c] = "idle" /\ started
  /\ started' = FALSE /\ current' = 0
  /\ target' = [target EXCEPT ![c] = current] /\ Goto(c, "cancel")
  /\ UNCHANGED <<starts, cancelled, ticks, run, health, status>>
StopCancel(c) ==
  /\ pc[c] = "cancel" /\ cancelled' = cancelled \cup {target[c]}
  /\ Goto(c, "wait")
  /\ UNCHANGED <<started, current, starts, target, ticks, run, health, status>>
StopWait_Impatient(c) ==
  /\ pc[c] = "wait" /\ Goto(c, "clear")
  /\ UNCHANGED <<lifecycle, ticks, run, health, status>>
StopWait(c) ==
  /\ pc[c] = "wait" /\ pc[target[c]] = "ended" /\ Goto(c, "clear")
  /\ UNCHANGED <<lifecycle, ticks, run, health, status>>
StopClear(c) ==
  /\ pc[c] = "clear" /\ status' = [status EXCEPT !.next = FALSE]
  /\ target' = [target EXCEPT ![c] = 0] /\ Goto(c, "idle")
  /\ UNCHANGED <<started, current, starts, cancelled, ticks, run, health>>

(***************************************************************************)
(* The loop: a tick and the end of its context compete in its select.      *)
(***************************************************************************)
LoopExit_BeforeFirstTick(l) ==
  /\ pc[l] = "select" /\ l \in cancelled /\ ticks = 0 /\ Goto(l, "ended")
  /\ UNCHANGED <<lifecycle, ticks, run, health, status>>
LoopExit(l) ==
  /\ pc[l] = "select" /\ l \in cancelled /\ Goto(l, "ended")
  /\ UNCHANGED <<lifecycle, ticks, run, health, status>>
LoopTick(l) ==
  /\ pc[l] = "select" /\ ticks < MaxTicks /\ ticks' = ticks + 1
  /\ Goto(l, "begin") /\ UNCHANGED <<lifecycle, run, health, status>>
LoopNext(l) ==
  /\ pc[l] = "next" /\ status' = [status EXCEPT !.next = TRUE]
  /\ Goto(l, "select") /\ UNCHANGED <<lifecycle, ticks, run, health>>

(***************************************************************************)
(* RunOnce, of a loop or of a caller.                                      *)
(***************************************************************************)
After(t) == IF t \in Loops THEN "next" ELSE "idle"

Call(c) ==
  /\ pc[c] = "idle" /\ ticks < MaxTicks /\ ticks' = ticks + 1
  /\ Goto(c, "begin") /\ UNCHANGED <<lifecycle, run, health, status>>

RunOnceBegin_NoLock(t) ==
  /\ pc[t] = "begin" /\ runMu' = t /\ job' = 1 /\ codes' = {} /\ done' = {}
  /\ Goto(t, "jobs")
  /\ status' = [status EXCEPT !.running = TRUE, !.codes = {}]
  /\ UNCHANGED <<lifecycle, ticks, health>>
RunOnceBegin(t) ==
  /\ pc[t] = "begin" /\ runMu = 0
  /\ runMu' = t /\ job' = 1 /\ codes' = {} /\ done' = {}
  /\ Goto(t, "jobs")
  /\ status' = [status EXCEPT !.running = TRUE, !.codes = {}]
  /\ UNCHANGED <<lifecycle, ticks, health>>
RunOnceRefused(t) ==
  /\ pc[t] = "begin" /\ runMu # 0 /\ Goto(t, After(t))
  /\ UNCHANGED <<lifecycle, ticks, run, health, status>>

\* A job fails on an error, when its context is done, or when a health query
\* has the backup service; the run goes on with the next one.  The purge of
\* the audit trail succeeds at once when its retention is switched off.
JobOk == ~(job \in {1, 2} /\ health)
\* Mutant: a backup service that is busy counts as nothing to do.
RunOnceJob_BusyIgnored(t, ok) ==
  /\ pc[t] = "jobs" /\ (ok => JobOk)
  /\ done' = IF ok THEN done \cup {job} ELSE done
  /\ codes' = IF ok \/ ~JobOk THEN codes ELSE codes \cup {job}
  /\ job' = job + 1 /\ Goto(t, IF job = Len(Jobs) THEN "finish" ELSE "jobs")
  /\ UNCHANGED <<lifecycle, ticks, runMu, health, status>>
RunOnceJob(t, ok) ==
  /\ pc[t] = "jobs" /\ (ok => JobOk)
  /\ done' = IF ok THEN done \cup {job} ELSE done
  /\ codes' = IF ok THEN codes ELSE codes \cup {job}
  /\ job' = job + 1 /\ Goto(t, IF job = Len(Jobs) THEN "finish" ELSE "jobs")
  /\ UNCHANGED <<lifecycle, ticks, runMu, health, status>>
RunOnceFinish(t) ==
  /\ pc[t] = "finish"
  /\ status' = [status EXCEPT !.running = FALSE, !.codes = codes,
                              !.success = IF codes = {} THEN @ + 1 ELSE @]
  /\ runMu' = 0 /\ job' = 0 /\ codes' = {} /\ done' = {}
  /\ Goto(t, After(t))
  /\ UNCHANGED <<lifecycle, ticks, health>>

\* LatestSuccessful, as a detailed health query calls it: it waits for a backup
\* or a retention in progress, which one step of RunOnceJob stands for.
HealthQuery ==
  /\ health' = ~health
  /\ UNCHANGED <<lifecycle, pc, ticks, run, status>>

LoopStep(l) == LoopExit(l) \/ LoopTick(l) \/ LoopNext(l)
StopStep(c) == StopCancel(c) \/ StopWait(c) \/ StopClear(c)
RunOnceStep(t) ==
  \/ RunOnceBegin(t) \/ RunOnceRefused(t) \/ RunOnceFinish(t)
  \/ \E ok \in BOOLEAN : RunOnceJob(t, ok)

Next ==
  \/ \E c \in Callers : Start(c) \/ Stop(c) \/ Call(c) \/ StopStep(c)
  \/ \E l \in Loops : LoopStep(l)
  \/ \E t \in Threads : RunOnceStep(t)
  \/ HealthQuery

Spec == Init /\ [][Next]_vars

\* Goroutines that can go on do; every job ends, with or without an error.  No
\* fairness is put on the callers that may start or stop.
FairSpec ==
  /\ Spec
  /\ \A c \in Callers : WF_vars(StopStep(c))
  /\ \A l \in Loops : WF_vars(LoopStep(l))
  /\ \A t \in Threads : WF_vars(RunOnceStep(t))

(***************************************************************************)
(* Properties.                                                             *)
(***************************************************************************)
Executing == {t \in Threads : pc[t] \in {"jobs", "finish"}}

\* The published status tells the truth, though loops of two starts and a
\* caller of RunOnce may overlap: Running exactly while one thread, and no other,
\* executes the jobs; and a run is about to publish a success only if all of its
\* jobs succeeded: a backup that was refused because a health query held the
\* service is an error.
StatusTruthful ==
  /\ \A t, u \in Executing : t = u
  /\ status.running <=> Executing # {}
  /\ \A t \in Threads :
       pc[t] = "finish" /\ codes = {} => done = 1..Len(Jobs)

\* However Start and Stop overlap, a loop that has not ended is the one that the
\* scheduler holds, or a Stop under way waits for it; and a scheduler that is
\* stopped, with no Stop under way, announces no next run: the loop may announce
\* one after Stop began, never after Stop returned.
StopLeavesNothing ==
  /\ \A l \in Loops : pc[l] \notin {"none", "ended"} =>
       l = current \/ \E c \in Callers : target[c] = l
  /\ (~started /\ \A c \in Callers : target[c] = 0) => ~status.next

\* A call of Stop returns, whatever the run in progress does.
StopReturns == \A c \in Callers : target[c] # 0 ~> target[c] = 0
=============================================================================
