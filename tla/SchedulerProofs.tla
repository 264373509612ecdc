--------------------------- MODULE SchedulerProofs ---------------------------
(***************************************************************************)
(* Proofs about the maintenance scheduler, for any number of callers,      *)
(* starts and ticks.                                                       *)
(***************************************************************************)
EXTENDS Scheduler, TLAPS

LEMMA JobsLen == Len(Jobs) = 5
  BY DEF Jobs

(***************************************************************************)
(* RunInv: runMu names the thread that executes the jobs, and the jobs     *)
(* before the current one have each succeeded or left a code.              *)
(***************************************************************************)
RunInv ==
  /\ \A t \in Threads : pc[t] \in {"jobs", "finish"} <=> runMu = t
  /\ status.running <=> runMu # 0
  /\ \A t \in Threads : pc[t] = "jobs" => job \in 1..Len(Jobs)
  /\ \A t \in Threads : pc[t] = "finish" => job = Len(Jobs) + 1
  /\ runMu # 0 => done \cup codes = 1..(job - 1)

(***************************************************************************)
(* StopInv: the loops made are the first ones; the scheduler holds a loop  *)
(* exactly while it is started; a caller has a target exactly while it is  *)
(* in Stop, and about to clear NextRunAt only when that loop has ended.    *)
(***************************************************************************)
StopInv ==
  /\ \A l \in Loops : l > starts => pc[l] = "none"
  /\ started <=> current # 0
  /\ \A c \in Callers : target[c] # 0 <=> pc[c] \in {"cancel", "wait", "clear"}
  /\ \A c \in Callers : pc[c] = "clear" => pc[target[c]] = "ended"
  /\ StopLeavesNothing

LEMMA ThreadsApart ==
  /\ \A l \in Loops : l \in Nat \ {0} /\ l \notin Callers
  /\ \A c \in Callers : c \notin Loops /\ c # 0
  /\ 0 \notin Threads /\ Loops \subseteq Threads /\ Callers \subseteq Threads
  BY BoundsAssumption, CallersAssumption DEF Loops, Threads

LEMMA InitInv == Init => TypeOK /\ RunInv /\ StopInv
  <1> SUFFICES ASSUME Init PROVE TypeOK /\ RunInv /\ StopInv
    OBVIOUS
  <1>1. TypeOK
    <2>1. /\ pc \in [Threads -> LoopPcs \cup CallerPcs]
          /\ \A l \in Loops : pc[l] \in LoopPcs
          /\ \A c \in Callers : pc[c] \in CallerPcs
      BY ThreadsApart DEF Init, LoopPcs, CallerPcs
    <2>2. status \in [running : BOOLEAN, codes : SUBSET (1..Len(Jobs)),
                     next : BOOLEAN, success : Nat]
      BY DEF Init
    <2>3. /\ target \in [Callers -> 0..MaxStarts]
          /\ job \in 0..Len(Jobs) + 1
      BY BoundsAssumption, JobsLen DEF Init
    <2>4. /\ current \in 0..MaxStarts /\ starts \in 0..MaxStarts
          /\ cancelled \subseteq 0..MaxStarts /\ ticks \in 0..MaxTicks
          /\ runMu \in Threads \cup {0}
          /\ codes \subseteq 1..Len(Jobs) /\ done \subseteq 1..Len(Jobs)
      BY BoundsAssumption DEF Init
    <2>5. started \in BOOLEAN /\ health \in BOOLEAN
      BY Zenon DEF Init
    <2> QED BY <2>1, <2>2, <2>3, <2>4, <2>5 DEF TypeOK
  <1>2. RunInv
    BY ThreadsApart, JobsLen DEF Init, RunInv, Threads
  <1>3. StopInv
    BY ThreadsApart DEF Init, StopInv, StopLeavesNothing, Threads
  <1> QED BY <1>1, <1>2, <1>3
LEMMA TypeStep == TypeOK /\ RunInv /\ [Next]_vars => TypeOK'
  <1> SUFFICES ASSUME TypeOK /\ RunInv, [Next]_vars PROVE TypeOK'
    OBVIOUS
  <1>1. ASSUME NEW c \in Callers, Start(c)
        PROVE  TypeOK'
    <2>0. starts + 1 \in Loops
      BY <1>1, BoundsAssumption DEF Start, TypeOK, Loops
    <2>1. /\ pc' \in [Threads -> LoopPcs \cup CallerPcs]
          /\ \A u \in Loops : pc'[u] \in LoopPcs
          /\ \A u \in Callers : pc'[u] \in CallerPcs
      BY <1>1, <2>0, ThreadsApart, JobsLen
      DEF Start, TypeOK, LoopPcs, CallerPcs, Goto
    <2>2. status' \in [running : BOOLEAN, codes : SUBSET (1..Len(Jobs)),
                      next : BOOLEAN, success : Nat]
      BY <1>1 DEF Start, TypeOK
    <2>3. started' \in BOOLEAN /\ health' \in BOOLEAN
      BY <1>1, Zenon DEF Start, TypeOK, lifecycle
    <2>4. /\ current' \in 0..MaxStarts /\ starts' \in 0..MaxStarts
          /\ cancelled' \subseteq 0..MaxStarts
          /\ target' \in [Callers -> 0..MaxStarts]
      BY <1>1, <2>0, BoundsAssumption DEF Start, TypeOK, lifecycle, Loops
    <2>5. /\ ticks' \in 0..MaxTicks /\ runMu' \in Threads \cup {0}
          /\ job' \in 0..Len(Jobs) + 1
          /\ codes' \subseteq 1..Len(Jobs) /\ done' \subseteq 1..Len(Jobs)
      BY <1>1, JobsLen DEF Start, TypeOK, run
    <2> QED BY <2>1, <2>2, <2>3, <2>4, <2>5 DEF TypeOK
  <1>2. ASSUME NEW c \in Callers, Stop(c)
        PROVE  TypeOK'
    <2>1. /\ pc' \in [Threads -> LoopPcs \cup CallerPcs]
          /\ \A u \in Loops : pc'[u] \in LoopPcs
          /\ \A u \in Callers : pc'[u] \in CallerPcs
      BY <1>2, ThreadsApart, JobsLen
      DEF Stop, TypeOK, LoopPcs, CallerPcs, Goto
    <2>2. status' \in [running : BOOLEAN, codes : SUBSET (1..Len(Jobs)),
                      next : BOOLEAN, success : Nat]
      BY <1>2 DEF Stop, TypeOK
    <2>3. started' \in BOOLEAN /\ health' \in BOOLEAN
      BY <1>2, Zenon DEF Stop, TypeOK, lifecycle
    <2>4. /\ current' \in 0..MaxStarts /\ starts' \in 0..MaxStarts
          /\ cancelled' \subseteq 0..MaxStarts
          /\ target' \in [Callers -> 0..MaxStarts]
      BY <1>2, BoundsAssumption DEF Stop, TypeOK, lifecycle, Loops
    <2>5. /\ ticks' \in 0..MaxTicks /\ runMu' \in Threads \cup {0}
          /\ job' \in 0..Len(Jobs) + 1
          /\ codes' \subseteq 1..Len(Jobs) /\ done' \subseteq 1..Len(Jobs)
      BY <1>2, JobsLen DEF Stop, TypeOK, run
    <2> QED BY <2>1, <2>2, <2>3, <2>4, <2>5 DEF TypeOK
  <1>3. ASSUME NEW c \in Callers, Call(c)
        PROVE  TypeOK'
    BY <1>3, BoundsAssumption, ThreadsApart, JobsLen
    DEF Call, TypeOK, LoopPcs, CallerPcs, lifecycle, run, Goto
  <1>4. ASSUME NEW c \in Callers, StopCancel(c)
        PROVE  TypeOK'
    <2>1. /\ pc' \in [Threads -> LoopPcs \cup CallerPcs]
          /\ \A u \in Loops : pc'[u] \in LoopPcs
          /\ \A u \in Callers : pc'[u] \in CallerPcs
      BY <1>4, ThreadsApart, JobsLen
      DEF StopCancel, TypeOK, LoopPcs, CallerPcs, Goto
    <2>2. status' \in [running : BOOLEAN, codes : SUBSET (1..Len(Jobs)),
                      next : BOOLEAN, success : Nat]
      BY <1>4 DEF StopCancel, TypeOK
    <2>3. started' \in BOOLEAN /\ health' \in BOOLEAN
      BY <1>4, Zenon DEF StopCancel, TypeOK, lifecycle
    <2>4. /\ current' \in 0..MaxStarts /\ starts' \in 0..MaxStarts
          /\ cancelled' \subseteq 0..MaxStarts
          /\ target' \in [Callers -> 0..MaxStarts]
      BY <1>4, BoundsAssumption DEF StopCancel, TypeOK, lifecycle, Loops
    <2>5. /\ ticks' \in 0..MaxTicks /\ runMu' \in Threads \cup {0}
          /\ job' \in 0..Len(Jobs) + 1
          /\ codes' \subseteq 1..Len(Jobs) /\ done' \subseteq 1..Len(Jobs)
      BY <1>4, JobsLen DEF StopCancel, TypeOK, run
    <2> QED BY <2>1, <2>2, <2>3, <2>4, <2>5 DEF TypeOK
  <1>5. ASSUME NEW c \in Callers, StopWait(c)
        PROVE  TypeOK'
    BY <1>5, BoundsAssumption, ThreadsApart, JobsLen
    DEF StopWait, TypeOK, LoopPcs, CallerPcs, lifecycle, run, Goto
  <1>6. ASSUME NEW c \in Callers, StopClear(c)
        PROVE  TypeOK'
    <2>1. /\ pc' \in [Threads -> LoopPcs \cup CallerPcs]
          /\ \A u \in Loops : pc'[u] \in LoopPcs
          /\ \A u \in Callers : pc'[u] \in CallerPcs
      BY <1>6, ThreadsApart, JobsLen
      DEF StopClear, TypeOK, LoopPcs, CallerPcs, Goto
    <2>2. status' \in [running : BOOLEAN, codes : SUBSET (1..Len(Jobs)),
                      next : BOOLEAN, success : Nat]
      BY <1>6 DEF StopClear, TypeOK
    <2>3. started' \in BOOLEAN /\ health' \in BOOLEAN
      BY <1>6, Zenon DEF StopClear, TypeOK, lifecycle
    <2>4. /\ current' \in 0..MaxStarts /\ starts' \in 0..MaxStarts
          /\ cancelled' \subseteq 0..MaxStarts
          /\ target' \in [Callers -> 0..MaxStarts]
      BY <1>6, BoundsAssumption DEF StopClear, TypeOK, lifecycle, Loops
    <2>5. /\ ticks' \in 0..MaxTicks /\ runMu' \in Threads \cup {0}
          /\ job' \in 0..Len(Jobs) + 1
          /\ codes' \subseteq 1..Len(Jobs) /\ done' \subseteq 1..Len(Jobs)
      BY <1>6, JobsLen DEF StopClear, TypeOK, run
    <2> QED BY <2>1, <2>2, <2>3, <2>4, <2>5 DEF TypeOK
  <1>7. ASSUME NEW l \in Loops, LoopExit(l)
        PROVE  TypeOK'
    BY <1>7, BoundsAssumption, ThreadsApart, JobsLen
    DEF LoopExit, TypeOK, LoopPcs, CallerPcs, lifecycle, run, Goto
  <1>8. ASSUME NEW l \in Loops, LoopTick(l)
        PROVE  TypeOK'
    BY <1>8, BoundsAssumption, ThreadsApart, JobsLen
    DEF LoopTick, TypeOK, LoopPcs, CallerPcs, lifecycle, run, Goto
  <1>9. ASSUME NEW l \in Loops, LoopNext(l)
        PROVE  TypeOK'
    BY <1>9, BoundsAssumption, ThreadsApart, JobsLen
    DEF LoopNext, TypeOK, LoopPcs, CallerPcs, lifecycle, run, Goto
  <1>10. ASSUME NEW t \in Threads, RunOnceBegin(t)
        PROVE  TypeOK'
    <2>1. /\ pc' \in [Threads -> LoopPcs \cup CallerPcs]
          /\ \A u \in Loops : pc'[u] \in LoopPcs
          /\ \A u \in Callers : pc'[u] \in CallerPcs
      BY <1>10, ThreadsApart, JobsLen
      DEF RunOnceBegin, TypeOK, LoopPcs, CallerPcs, Goto
    <2>2. status' \in [running : BOOLEAN, codes : SUBSET (1..Len(Jobs)),
                      next : BOOLEAN, success : Nat]
      BY <1>10 DEF RunOnceBegin, TypeOK
    <2>3. started' \in BOOLEAN /\ health' \in BOOLEAN
      BY <1>10, Zenon DEF RunOnceBegin, TypeOK, lifecycle
    <2>4. /\ current' \in 0..MaxStarts /\ starts' \in 0..MaxStarts
          /\ cancelled' \subseteq 0..MaxStarts
          /\ target' \in [Callers -> 0..MaxStarts]
      BY <1>10, BoundsAssumption DEF RunOnceBegin, TypeOK, lifecycle, Loops
    <2>5. /\ ticks' \in 0..MaxTicks /\ runMu' \in Threads \cup {0}
          /\ job' \in 0..Len(Jobs) + 1
          /\ codes' \subseteq 1..Len(Jobs) /\ done' \subseteq 1..Len(Jobs)
      BY <1>10, JobsLen DEF RunOnceBegin, TypeOK, run
    <2> QED BY <2>1, <2>2, <2>3, <2>4, <2>5 DEF TypeOK
  <1>11. ASSUME NEW t \in Threads, RunOnceRefused(t)
        PROVE  TypeOK'
    BY <1>11, BoundsAssumption, ThreadsApart, JobsLen
    DEF RunOnceRefused, TypeOK, LoopPcs, CallerPcs, lifecycle, run, Goto,
        After
  <1>12. ASSUME NEW t \in Threads, RunOnceFinish(t)
        PROVE  TypeOK'
    <2>1. /\ pc' \in [Threads -> LoopPcs \cup CallerPcs]
          /\ \A u \in Loops : pc'[u] \in LoopPcs
          /\ \A u \in Callers : pc'[u] \in CallerPcs
      BY <1>12, ThreadsApart, JobsLen
      DEF RunOnceFinish, TypeOK, LoopPcs, CallerPcs, Goto, After
    <2>2. status' \in [running : BOOLEAN, codes : SUBSET (1..Len(Jobs)),
                      next : BOOLEAN, success : Nat]
      <3>1. status' = [status EXCEPT !.running = FALSE, !.codes = codes,
                                     !.success = status.success + 1]
            \/ status' = [status EXCEPT !.running = FALSE, !.codes = codes]
        BY <1>12 DEF RunOnceFinish, TypeOK
      <3>2. /\ status \in [running : BOOLEAN, codes : SUBSET (1..Len(Jobs)),
                          next : BOOLEAN, success : Nat]
            /\ codes \in SUBSET (1..Len(Jobs))
        BY DEF TypeOK
      <3>3. status.success + 1 \in Nat
        BY <3>2
      <3> QED BY <3>1, <3>2, <3>3
    <2>3. started' \in BOOLEAN /\ health' \in BOOLEAN
      BY <1>12, Zenon DEF RunOnceFinish, TypeOK, lifecycle
    <2>4. /\ current' \in 0..MaxStarts /\ starts' \in 0..MaxStarts
          /\ cancelled' \subseteq 0..MaxStarts
          /\ target' \in [Callers -> 0..MaxStarts]
      BY <1>12, BoundsAssumption DEF RunOnceFinish, TypeOK, lifecycle, Loops
    <2>5. /\ ticks' \in 0..MaxTicks /\ runMu' \in Threads \cup {0}
          /\ job' \in 0..Len(Jobs) + 1
          /\ codes' \subseteq 1..Len(Jobs) /\ done' \subseteq 1..Len(Jobs)
      BY <1>12, JobsLen DEF RunOnceFinish, TypeOK, run
    <2> QED BY <2>1, <2>2, <2>3, <2>4, <2>5 DEF TypeOK
  <1>13. ASSUME NEW t \in Threads, NEW ok \in BOOLEAN, RunOnceJob(t, ok)
        PROVE  TypeOK'
    <2>1. /\ pc' \in [Threads -> LoopPcs \cup CallerPcs]
          /\ \A u \in Loops : pc'[u] \in LoopPcs
          /\ \A u \in Callers : pc'[u] \in CallerPcs
      BY <1>13, ThreadsApart, JobsLen
      DEF RunOnceJob, TypeOK, LoopPcs, CallerPcs, Goto
    <2>2. status' \in [running : BOOLEAN, codes : SUBSET (1..Len(Jobs)),
                      next : BOOLEAN, success : Nat]
      BY <1>13 DEF RunOnceJob, TypeOK
    <2>3. started' \in BOOLEAN /\ health' \in BOOLEAN
      BY <1>13, Zenon DEF RunOnceJob, TypeOK, lifecycle
    <2>4. /\ current' \in 0..MaxStarts /\ starts' \in 0..MaxStarts
          /\ cancelled' \subseteq 0..MaxStarts
          /\ target' \in [Callers -> 0..MaxStarts]
      BY <1>13, BoundsAssumption DEF RunOnceJob, TypeOK, lifecycle, Loops
    <2>5. /\ ticks' \in 0..MaxTicks /\ runMu' \in Threads \cup {0}
          /\ job' \in 0..Len(Jobs) + 1
          /\ codes' \subseteq 1..Len(Jobs) /\ done' \subseteq 1..Len(Jobs)
      BY <1>13, JobsLen DEF RunOnceJob, TypeOK, run, RunInv
    <2> QED BY <2>1, <2>2, <2>3, <2>4, <2>5 DEF TypeOK
  <1>14. ASSUME HealthQuery
        PROVE  TypeOK'
    BY <1>14, BoundsAssumption, ThreadsApart, JobsLen
    DEF HealthQuery, TypeOK, LoopPcs, CallerPcs, lifecycle, run, Goto
  <1>15. CASE UNCHANGED vars
    BY <1>15 DEF vars, TypeOK, LoopPcs, CallerPcs
  <1> QED
    BY <1>1, <1>2, <1>3, <1>4, <1>5, <1>6, <1>7, <1>8, <1>9, <1>10, <1>11, <1>12, <1>13, <1>14, <1>15
    DEF Next, LoopStep, StopStep, RunOnceStep

LEMMA RunStep == TypeOK /\ StopInv /\ RunInv /\ [Next]_vars => RunInv'
  <1> SUFFICES ASSUME TypeOK /\ StopInv /\ RunInv, [Next]_vars PROVE RunInv'
    OBVIOUS
  <1>1. ASSUME NEW c \in Callers, Start(c)
        PROVE  RunInv'
    <2>1. starts + 1 \in Loops /\ pc[starts + 1] = "none"
      BY <1>1, BoundsAssumption DEF Start, TypeOK, StopInv, Loops
    <2> QED
      BY <1>1, <2>1, ThreadsApart, JobsLen DEF Start, TypeOK, RunInv, run
  <1>2. ASSUME NEW c \in Callers, Stop(c)
        PROVE  RunInv'
    BY <1>2, ThreadsApart, JobsLen
    DEF Stop, TypeOK, RunInv, lifecycle, run, Goto
  <1>3. ASSUME NEW c \in Callers, Call(c)
        PROVE  RunInv'
    BY <1>3, ThreadsApart, JobsLen
    DEF Call, TypeOK, RunInv, lifecycle, run, Goto
  <1>4. ASSUME NEW c \in Callers, StopCancel(c)
        PROVE  RunInv'
    BY <1>4, ThreadsApart, JobsLen
    DEF StopCancel, TypeOK, RunInv, lifecycle, run, Goto
  <1>5. ASSUME NEW c \in Callers, StopWait(c)
        PROVE  RunInv'
    BY <1>5, ThreadsApart, JobsLen
    DEF StopWait, TypeOK, RunInv, lifecycle, run, Goto
  <1>6. ASSUME NEW c \in Callers, StopClear(c)
        PROVE  RunInv'
    BY <1>6, ThreadsApart, JobsLen
    DEF StopClear, TypeOK, RunInv, lifecycle, run, Goto
  <1>7. ASSUME NEW l \in Loops, LoopExit(l)
        PROVE  RunInv'
    BY <1>7, ThreadsApart, JobsLen
    DEF LoopExit, TypeOK, RunInv, lifecycle, run, Goto
  <1>8. ASSUME NEW l \in Loops, LoopTick(l)
        PROVE  RunInv'
    BY <1>8, ThreadsApart, JobsLen
    DEF LoopTick, TypeOK, RunInv, lifecycle, run, Goto
  <1>9. ASSUME NEW l \in Loops, LoopNext(l)
        PROVE  RunInv'
    BY <1>9, ThreadsApart, JobsLen
    DEF LoopNext, TypeOK, RunInv, lifecycle, run, Goto
  <1>10. ASSUME NEW t \in Threads, RunOnceBegin(t)
        PROVE  RunInv'
    BY <1>10, ThreadsApart, JobsLen
    DEF RunOnceBegin, TypeOK, RunInv, lifecycle, run, Goto
  <1>11. ASSUME NEW t \in Threads, RunOnceRefused(t)
        PROVE  RunInv'
    BY <1>11, ThreadsApart, JobsLen
    DEF RunOnceRefused, TypeOK, RunInv, lifecycle, run, Goto, After
  <1>12. ASSUME NEW t \in Threads, RunOnceFinish(t)
        PROVE  RunInv'
    BY <1>12, ThreadsApart, JobsLen
    DEF RunOnceFinish, TypeOK, RunInv, lifecycle, run, Goto, After
  <1>13. ASSUME NEW t \in Threads, NEW ok \in BOOLEAN, RunOnceJob(t, ok)
        PROVE  RunInv'
    BY <1>13, ThreadsApart, JobsLen
    DEF RunOnceJob, TypeOK, RunInv, lifecycle, run, Goto
  <1>14. ASSUME HealthQuery
        PROVE  RunInv'
    BY <1>14, ThreadsApart, JobsLen
    DEF HealthQuery, TypeOK, RunInv, lifecycle, run, Goto
  <1>15. CASE UNCHANGED vars
    BY <1>15 DEF vars, TypeOK, RunInv
  <1> QED
    BY <1>1, <1>2, <1>3, <1>4, <1>5, <1>6, <1>7, <1>8, <1>9, <1>10, <1>11, <1>12, <1>13, <1>14, <1>15
    DEF Next, LoopStep, StopStep, RunOnceStep

LEMMA StopStepInv == TypeOK /\ StopInv /\ [Next]_vars => StopInv'
  <1> SUFFICES ASSUME TypeOK /\ StopInv, [Next]_vars PROVE StopInv'
    OBVIOUS
  <1>1. ASSUME NEW c \in Callers, Start(c)
        PROVE  StopInv'
    <2>1. starts + 1 \in Loops /\ starts + 1 \notin Callers
      BY <1>1, BoundsAssumption, ThreadsApart DEF Start, TypeOK, Loops
    <2>2. \A c1 \in Callers : pc'[c1] = pc[c1] /\ target'[c1] = target[c1]
      BY <1>1, <2>1, ThreadsApart DEF Start, TypeOK
    <2>3. \A l \in Loops : pc'[l] = IF l = starts + 1 THEN "select" ELSE pc[l]
      BY <1>1, <2>1, ThreadsApart DEF Start, TypeOK
    <2>4. current' = starts + 1 /\ starts' = starts + 1 /\ started' /\ current = 0
      BY <1>1 DEF Start, StopInv
    <2>5. \A c1 \in Callers : pc[c1] = "clear" => target[c1] \in Loops \ {starts + 1}
      BY <2>1, BoundsAssumption DEF TypeOK, StopInv, Loops
    <2> QED
      BY <2>1, <2>2, <2>3, <2>4, <2>5, BoundsAssumption, ThreadsApart
      DEF TypeOK, StopInv, StopLeavesNothing, Loops
  <1>2. ASSUME NEW c \in Callers, Stop(c)
        PROVE  StopInv'
    BY <1>2, BoundsAssumption, ThreadsApart
    DEF Stop, TypeOK, StopInv, StopLeavesNothing, lifecycle, run, Goto
  <1>3. ASSUME NEW c \in Callers, Call(c)
        PROVE  StopInv'
    BY <1>3, BoundsAssumption, ThreadsApart
    DEF Call, TypeOK, StopInv, StopLeavesNothing, lifecycle, run, Goto
  <1>4. ASSUME NEW c \in Callers, StopCancel(c)
        PROVE  StopInv'
    BY <1>4, BoundsAssumption, ThreadsApart
    DEF StopCancel, TypeOK, StopInv, StopLeavesNothing, lifecycle, run, Goto
  <1>5. ASSUME NEW c \in Callers, StopWait(c)
        PROVE  StopInv'
    BY <1>5, BoundsAssumption, ThreadsApart
    DEF StopWait, TypeOK, StopInv, StopLeavesNothing, lifecycle, run, Goto
  <1>6. ASSUME NEW c \in Callers, StopClear(c)
        PROVE  StopInv'
    BY <1>6, BoundsAssumption, ThreadsApart
    DEF StopClear, TypeOK, StopInv, StopLeavesNothing, lifecycle, run, Goto
  <1>7. ASSUME NEW l \in Loops, LoopExit(l)
        PROVE  StopInv'
    BY <1>7, BoundsAssumption, ThreadsApart
    DEF LoopExit, TypeOK, StopInv, StopLeavesNothing, lifecycle, run, Goto
  <1>8. ASSUME NEW l \in Loops, LoopTick(l)
        PROVE  StopInv'
    BY <1>8, BoundsAssumption, ThreadsApart
    DEF LoopTick, TypeOK, StopInv, StopLeavesNothing, lifecycle, run, Goto
  <1>9. ASSUME NEW l \in Loops, LoopNext(l)
        PROVE  StopInv'
    BY <1>9, BoundsAssumption, ThreadsApart
    DEF LoopNext, TypeOK, StopInv, StopLeavesNothing, lifecycle, run, Goto
  <1>10. ASSUME NEW t \in Threads, RunOnceBegin(t)
        PROVE  StopInv'
    BY <1>10, BoundsAssumption, ThreadsApart
    DEF RunOnceBegin, TypeOK, StopInv, StopLeavesNothing, lifecycle, run,
        Goto
  <1>11. ASSUME NEW t \in Threads, RunOnceRefused(t)
        PROVE  StopInv'
    BY <1>11, BoundsAssumption, ThreadsApart
    DEF RunOnceRefused, TypeOK, StopInv, StopLeavesNothing, lifecycle, run,
        Goto, After
  <1>12. ASSUME NEW t \in Threads, RunOnceFinish(t)
        PROVE  StopInv'
    BY <1>12, BoundsAssumption, ThreadsApart
    DEF RunOnceFinish, TypeOK, StopInv, StopLeavesNothing, lifecycle, run,
        Goto, After
  <1>13. ASSUME NEW t \in Threads, NEW ok \in BOOLEAN, RunOnceJob(t, ok)
        PROVE  StopInv'
    BY <1>13, BoundsAssumption, ThreadsApart
    DEF RunOnceJob, TypeOK, StopInv, StopLeavesNothing, lifecycle, run, Goto
  <1>14. ASSUME HealthQuery
        PROVE  StopInv'
    BY <1>14, BoundsAssumption, ThreadsApart
    DEF HealthQuery, TypeOK, StopInv, StopLeavesNothing, lifecycle, run,
        Goto
  <1>15. CASE UNCHANGED vars
    BY <1>15 DEF vars, TypeOK, StopInv, StopLeavesNothing
  <1> QED
    BY <1>1, <1>2, <1>3, <1>4, <1>5, <1>6, <1>7, <1>8, <1>9, <1>10, <1>11, <1>12, <1>13, <1>14, <1>15
    DEF Next, LoopStep, StopStep, RunOnceStep

-----------------------------------------------------------------------------

\* The inductive invariant: the lifecycle is independent of the runs, the runs
\* rest on the lifecycle only where a new loop begins.
LEMMA Invariance == Spec => [](TypeOK /\ StopInv /\ RunInv)
  BY InitInv, TypeStep, StopStepInv, RunStep, PTL DEF Spec

\* Every variable of the scheduler keeps its type, and every thread is at a step
\* of its own code.
THEOREM TypeCorrect == Spec => []TypeOK
  BY Invariance, PTL

\* Loops of any number of starts and any number of callers of Start, Stop and
\* RunOnce overlap: no loop is left behind, and none announces a run after the
\* Stop that ended it returned (StopLeavesNothing).
THEOREM NothingLeftBehind == Spec => []StopLeavesNothing
  <1>1. StopInv => StopLeavesNothing
    BY DEF StopInv
  <1> QED BY <1>1, Invariance, PTL

\* Whoever reads the status of the scheduler is told the truth (StatusTruthful),
\* because RunOnce is entered under TryLock alone and each job either succeeds
\* or leaves its code.
THEOREM StatusIsTruthful == Spec => []StatusTruthful
  <1>1. TypeOK /\ RunInv => StatusTruthful
    BY ThreadsApart, JobsLen DEF TypeOK, RunInv, StatusTruthful, Executing
  <1> QED BY <1>1, Invariance, PTL
=============================================================================
