-------------------------- MODULE LibcoreAccessProofs --------------------------
(***************************************************************************)
(* Theorems of LibcoreAccess, for any finite set of calls.                 *)
(***************************************************************************)
EXTENDS LibcoreAccess, FiniteSetTheorems, TLAPS

USE TasksAssumption, BoundAssumption
USE DEF loading, flushes, gcjobs, Counted, Uncounted, Postponed, FlushIsOver, LastOne, Rearmed

Enqueued ==
    /\ \A f \in Flushes : flush[f] = "draining" => item[f] \in GCJobs
    /\ \A f \in Flushes : flush[f] # "none" => f <= lastFlush

IInv ==
    /\ TypeOK
    /\ Enqueued
    /\ CounterIsExact
    /\ TimerOnlyWhenIdle
    /\ JobsFollowLastFlush

LEMMA InitInv == Init => IInv
<1> SUFFICES ASSUME Init PROVE IInv
    OBVIOUS
<1>1. TypeOK /\ Enqueued /\ JobsFollowLastFlush
    BY DEF Init, TypeOK, Enqueued, JobsFollowLastFlush, Flushes, NoJob
<1>2. Active = {}
    BY DEF Init, Active
<1>3. CounterIsExact /\ TimerOnlyWhenIdle
    BY <1>2, FS_EmptySet DEF Init, CounterIsExact, TimerOnlyWhenIdle
<1>4. QED
    BY <1>1, <1>3 DEF IInv

LEMMA ActiveFinite == IsFiniteSet(Active) /\ Cardinality(Active) \in Nat
BY FS_Subset, FS_CardinalityType DEF Active

(* The type of every variable is kept by each kind of step. *)
LEMMA TypeStep == IInv /\ [Next]_vars => TypeOK'
<1> SUFFICES ASSUME IInv, [Next]_vars PROVE TypeOK'
    OBVIOUS
<1>0. TypeOK /\ Enqueued
    BY DEF IInv
<1>1. ASSUME NEW t \in Tasks, StartTask(t) \/ AwaitFlush(t) \/ RunTask(t) PROVE TypeOK'
  <2>1. CASE StartTask(t)
    <3>1. libcoreJobsCounter' \in Nat /\ timers' \in Nat
        BY <1>0, <2>1 DEF TypeOK, StartTask
    <3>2. stage' \in [Tasks -> {"none", "loading", "loaded", "awaiting", "running", "done"}]
          /\ corePromise' \in {"none", "pending", "loaded", "failed"}
        BY <1>0, <2>1 DEF TypeOK, StartTask
    <3>3. QED
        BY <1>0, <2>1, <3>1, <3>2 DEF TypeOK, StartTask
  <2>2. CASE AwaitFlush(t)
    BY <1>0, <2>2 DEF TypeOK, AwaitFlush
  <2>3. CASE RunTask(t)
    BY <1>0, <2>3 DEF TypeOK, RunTask
  <2>4. QED
    BY <1>1, <2>1, <2>2, <2>3
<1>2. ASSUME NEW t \in Tasks, LoadFails(t) \/ EndTask(t) PROVE TypeOK'
  <2>1. t \in Active
    BY <1>2 DEF Active, LoadFails, EndTask
  <2>2. libcoreJobsCounter > 0
    BY <2>1, ActiveFinite, FS_EmptySet DEF IInv, CounterIsExact
  <2>3. QED
    BY <1>0, <1>2, <2>2, SMTT(60) DEF TypeOK, LoadFails, EndTask
<1>3. CASE LoadSettles \/ Flush \/ ResetStep
  <2>1. CASE LoadSettles \/ ResetStep
    BY <1>0, <2>1 DEF TypeOK, LoadSettles, ResetStep, StartReset, EndReset, ResetFails
  <2>2. CASE Flush
    <3>1. lastFlush' \in 0..MaxFlushes /\ timers' \in Nat
        BY <1>0, <2>2 DEF TypeOK, Flush
    <3>2. flush' \in [Flushes -> {"none", "collecting", "draining", "ended", "aborted"}]
        BY <1>0, <2>2 DEF TypeOK, Flush
    <3>3. QED
        BY <1>0, <2>2, <3>1, <3>2 DEF TypeOK, Flush
  <2>3. QED
    BY <1>3, <2>1, <2>2
<1>4. ASSUME NEW g \in GCJobs, AfterGCWithoutCore(g) \/ AfterGC(g) PROVE TypeOK'
  <2>1. CASE AfterGCWithoutCore(g)
    BY <1>0, <2>1 DEF TypeOK, AfterGCWithoutCore
  <2>2. CASE AfterGC(g)
    <3>1. timers' \in Nat
        BY <1>0, <2>2 DEF TypeOK, AfterGC
    <3>2. afterLibcoreFlushes' \in Seq(GCJobs)
        BY <1>0, <2>2 DEF TypeOK, AfterGC
    <3>3. QED
        BY <1>0, <2>2, <3>1, <3>2 DEF TypeOK, AfterGC
  <2>3. QED
    BY <1>4, <2>1, <2>2
<1>5. ASSUME NEW f \in Flushes, Shift(f)
      PROVE  /\ flush' \in [Flushes -> {"none", "collecting", "draining", "ended", "aborted"}]
             /\ item' \in [Flushes -> GCJobs \cup {NoJob}]
             /\ afterLibcoreFlushes' \in Seq(GCJobs)
  <2>1. CASE afterLibcoreFlushes = <<>>
    BY <1>0, <1>5, <2>1 DEF TypeOK, Shift
  <2>2. CASE afterLibcoreFlushes # <<>>
    <3>1. Head(afterLibcoreFlushes) \in GCJobs /\ Tail(afterLibcoreFlushes) \in Seq(GCJobs)
        BY <1>0, <2>2 DEF TypeOK
    <3>2. QED
        BY <1>0, <1>5, <2>2, <3>1 DEF TypeOK, Shift
  <2>3. QED
    BY <2>1, <2>2
<1>6. ASSUME NEW f \in Flushes, CollectSettles(f) \/ ItemResolves(f) PROVE TypeOK'
    BY <1>0, <1>5, <1>6 DEF TypeOK, Enqueued, CollectSettles, ItemResolves
<1>7. ASSUME NEW f \in Flushes, Abort(f) PROVE TypeOK'
    BY <1>0, <1>7 DEF TypeOK, Enqueued, Abort
<1>8. CASE UNCHANGED vars
    BY <1>0, <1>8 DEF TypeOK, vars
<1>9. QED
    BY <1>1, <1>2, <1>3, <1>4, <1>6, <1>7, <1>8 DEF Next, TaskStep, FlushStep
(* How a step changes the set of jobs in progress. *)
LEMMA ActiveGrows ==
    ASSUME TypeOK, NEW t \in Tasks, stage[t] = "none", NEW s \in {"loading", "loaded"},
           stage' = [stage EXCEPT ![t] = s]
    PROVE  Active' = Active \cup {t} /\ Cardinality(Active') = Cardinality(Active) + 1
<1>1. Active' = Active \cup {t} /\ t \notin Active
    BY DEF TypeOK, Active
<1>2. QED
    BY <1>1, ActiveFinite, FS_AddElement

LEMMA ActiveShrinks ==
    ASSUME TypeOK, NEW t \in Tasks, t \in Active, stage' = [stage EXCEPT ![t] = "done"]
    PROVE  Active' = Active \ {t} /\ Cardinality(Active') = Cardinality(Active) - 1
<1>1. Active' = Active \ {t}
    BY DEF TypeOK, Active
<1>2. QED
    BY <1>1, ActiveFinite, FS_RemoveElement

LEMMA ActiveStays ==
    ASSUME TypeOK, NEW t \in Tasks, t \in Active, NEW s \in {"awaiting", "running"},
           stage' = [stage EXCEPT ![t] = s]
    PROVE  Active' = Active
BY DEF TypeOK, Active

(* The counter follows the jobs in progress, and the timer the counter. *)
Idle == libcoreJobsCounter = Cardinality(Active) /\ (libcoreJobsCounter = 0 <=> Active = {})

LEMMA IdleLemma == TypeOK /\ CounterIsExact => Idle
BY ActiveFinite, FS_EmptySet DEF CounterIsExact, Idle

LEMMA CounterStep == IInv /\ [Next]_vars => CounterIsExact' /\ TimerOnlyWhenIdle'
<1> SUFFICES ASSUME IInv, [Next]_vars PROVE CounterIsExact' /\ TimerOnlyWhenIdle'
    OBVIOUS
<1>0. TypeOK /\ CounterIsExact /\ TimerOnlyWhenIdle /\ Idle
    BY IdleLemma DEF IInv
<1>1. ASSUME NEW t \in Tasks, StartTask(t) PROVE CounterIsExact' /\ TimerOnlyWhenIdle'
  <2>1. Cardinality(Active') = Cardinality(Active) + 1
    BY <1>0, <1>1, ActiveGrows DEF StartTask
  <2>2. CounterIsExact'
    BY <1>0, <1>1, <2>1 DEF StartTask, CounterIsExact
  <2>3. timers' = 0
    BY <1>0, <1>1 DEF StartTask, TimerOnlyWhenIdle, TypeOK
  <2>4. QED
    BY <2>2, <2>3 DEF TimerOnlyWhenIdle
<1>2. ASSUME NEW t \in Tasks, LoadFails(t) \/ EndTask(t)
      PROVE  CounterIsExact' /\ TimerOnlyWhenIdle'
  <2>1. t \in Active /\ stage' = [stage EXCEPT ![t] = "done"]
        /\ libcoreJobsCounter' = libcoreJobsCounter - 1
    BY <1>2 DEF Active, LoadFails, EndTask
  <2>2. Active' = Active \ {t} /\ Cardinality(Active') = Cardinality(Active) - 1
    BY <1>0, <2>1, ActiveShrinks
  <2>3. CounterIsExact'
    BY <1>0, <2>1, <2>2 DEF CounterIsExact
  <2>4. IsFiniteSet(Active')
    BY <2>2, ActiveFinite, FS_Subset
  <2>5. libcoreJobsCounter' = 0 <=> Active' = {}
    BY <2>3, <2>4, FS_EmptySet DEF CounterIsExact
  <2>6. timers = 0 /\ (timers' = 0 \/ (timers' = 1 /\ libcoreJobsCounter' = 0))
    BY <1>0, <1>2, <2>1 DEF LoadFails, EndTask, TimerOnlyWhenIdle
  <2>7. QED
    BY <2>3, <2>5, <2>6 DEF TimerOnlyWhenIdle
<1>3. ASSUME NEW t \in Tasks, AwaitFlush(t) \/ RunTask(t)
      PROVE  CounterIsExact' /\ TimerOnlyWhenIdle'
  <2>1. t \in Active /\ UNCHANGED <<libcoreJobsCounter, timers>>
        /\ \E s \in {"awaiting", "running"} : stage' = [stage EXCEPT ![t] = s]
    BY <1>3 DEF Active, AwaitFlush, RunTask
  <2>2. Active' = Active
    BY <1>0, <2>1, ActiveStays
  <2>3. QED
    BY <1>0, <2>1, <2>2 DEF CounterIsExact, TimerOnlyWhenIdle
<1>4. ASSUME UNCHANGED <<stage, libcoreJobsCounter>>, timers' = timers \/ timers' = timers - 1
             \/ (libcoreJobsCounter = 0 /\ timers' \in {timers, 1}), timers' \in Nat
      PROVE  CounterIsExact' /\ TimerOnlyWhenIdle'
  <2>1. Active' = Active
    BY <1>4 DEF Active
  <2>2. QED
    BY <1>0, <1>4, <2>1 DEF CounterIsExact, TimerOnlyWhenIdle, Idle, TypeOK
<1>5. timers' \in Nat
    BY TypeStep DEF TypeOK
<1>6. CASE LoadSettles \/ Flush \/ ResetStep
    BY <1>4, <1>5, <1>6 DEF LoadSettles, Flush, ResetStep, StartReset, EndReset, ResetFails
<1>7. ASSUME NEW g \in GCJobs, AfterGCWithoutCore(g) \/ AfterGC(g)
      PROVE  CounterIsExact' /\ TimerOnlyWhenIdle'
    BY <1>4, <1>5, <1>7 DEF AfterGCWithoutCore, AfterGC
<1>8. ASSUME NEW f \in Flushes, FlushStep(f) PROVE CounterIsExact' /\ TimerOnlyWhenIdle'
    BY <1>4, <1>5, <1>8 DEF FlushStep, CollectSettles, ItemResolves, Abort
<1>9. CASE UNCHANGED vars
    BY <1>4, <1>5, <1>9 DEF vars
<1>10. QED
    BY <1>1, <1>2, <1>3, <1>6, <1>7, <1>8, <1>9 DEF Next, TaskStep

LEMMA JobsStep == IInv /\ [Next]_vars => JobsFollowLastFlush' /\ Enqueued'
<1> SUFFICES ASSUME IInv, [Next]_vars PROVE JobsFollowLastFlush' /\ Enqueued'
    OBVIOUS
<1>0. TypeOK /\ Enqueued /\ TimerOnlyWhenIdle /\ JobsFollowLastFlush /\ TypeOK'
    BY TypeStep DEF IInv
<1>1. ASSUME NEW t \in Tasks, StartTask(t) \/ TaskStep(t)
      PROVE  JobsFollowLastFlush' /\ Enqueued'
  <2>1. UNCHANGED <<flush, item, lastFlush>>
    BY <1>1 DEF StartTask, TaskStep, AwaitFlush, LoadFails, RunTask, EndTask
  <2>2. Enqueued' /\ InProgress' = InProgress
    BY <1>0, <2>1 DEF Enqueued, InProgress
  <2>3. \A u \in Tasks \ {t} : stage'[u] = stage[u] /\ awaited'[u] = awaited[u]
    BY <1>0, <1>1 DEF TypeOK, StartTask, TaskStep, AwaitFlush, LoadFails, RunTask, EndTask
  <2>4. stage'[t] \in {"awaiting", "running"} => awaited'[t] = lastFlush
    BY <1>0, <1>1 DEF TypeOK, JobsFollowLastFlush, StartTask, TaskStep, AwaitFlush, LoadFails,
                      RunTask, EndTask
  <2>5. stage'[t] = "running" => lastFlush \notin InProgress
    BY <1>0, <1>1 DEF TypeOK, JobsFollowLastFlush, StartTask, TaskStep, AwaitFlush, LoadFails,
                      RunTask, EndTask
  <2>6. QED
    BY <1>0, <2>1, <2>2, <2>3, <2>4, <2>5 DEF JobsFollowLastFlush
<1>2. CASE LoadSettles \/ ResetStep \/ UNCHANGED vars
           \/ \E g \in GCJobs : AfterGCWithoutCore(g) \/ AfterGC(g)
  <2>1. UNCHANGED <<stage, awaited, flush, item, lastFlush>>
    BY <1>2 DEF LoadSettles, ResetStep, StartReset, EndReset, ResetFails, vars, AfterGCWithoutCore, AfterGC
  <2>2. QED
    BY <1>0, <2>1 DEF Enqueued, JobsFollowLastFlush, InProgress
<1>3. CASE Flush
  <2>1. \A t \in Tasks : stage'[t] \notin {"awaiting", "running"}
    BY <1>0, <1>3 DEF Flush, TimerOnlyWhenIdle, Active, TypeOK
  <2>2. Enqueued'
    BY <1>0, <1>3 DEF Flush, Enqueued, TypeOK, Flushes
  <2>3. QED
    BY <2>1, <2>2 DEF JobsFollowLastFlush
<1>4. ASSUME NEW f \in Flushes, FlushStep(f) PROVE JobsFollowLastFlush' /\ Enqueued'
  <2>1. f \in InProgress /\ UNCHANGED <<stage, awaited, lastFlush>>
    BY <1>4 DEF InProgress, FlushStep, CollectSettles, ItemResolves, Abort
  <2>2. \E w \in {"draining", "ended", "aborted"} : flush' = [flush EXCEPT ![f] = w]
    BY <1>4 DEF FlushStep, CollectSettles, ItemResolves, Abort, Shift
  <2>3. InProgress' \subseteq InProgress
    BY <1>0, <2>1, <2>2 DEF InProgress, TypeOK
  <2>4. flush'[f] = "draining" => item'[f] \in GCJobs
    <3>1. CASE Shift(f)
      <4>1. CASE afterLibcoreFlushes = <<>>
        BY <1>0, <3>1, <4>1 DEF Shift, TypeOK
      <4>2. CASE afterLibcoreFlushes # <<>>
        <5>1. Head(afterLibcoreFlushes) \in GCJobs
            BY <1>0, <4>2 DEF TypeOK
        <5>2. QED
            BY <1>0, <3>1, <4>2, <5>1 DEF Shift, TypeOK
      <4>3. QED
        BY <4>1, <4>2
    <3>2. CASE Abort(f)
        BY <1>0, <3>2 DEF Abort, TypeOK
    <3>3. QED
        BY <1>4, <3>1, <3>2 DEF FlushStep, CollectSettles, ItemResolves
  <2>5. \A k \in Flushes \ {f} : flush'[k] = flush[k] /\ item'[k] = item[k]
    BY <1>0, <1>4 DEF FlushStep, CollectSettles, ItemResolves, Abort, Shift, TypeOK
  <2>6. flush[f] # "none" /\ f <= lastFlush
    BY <1>0, <2>1 DEF InProgress, Enqueued
  <2>7. Enqueued'
    BY <1>0, <2>1, <2>4, <2>5, <2>6 DEF Enqueued
  <2>8. QED
    BY <1>0, <2>1, <2>3, <2>7 DEF JobsFollowLastFlush
<1>5. QED
    BY <1>1, <1>2, <1>3, <1>4 DEF Next

LEMMA Invariant == Spec => []IInv
<1>1. IInv /\ [Next]_vars => IInv'
    BY TypeStep, CounterStep, JobsStep DEF IInv
<1>2. QED
    BY InitInv, <1>1, PTL DEF Spec
-----------------------------------------------------------------------------
(* Every variable keeps its type: the counter never goes below zero. *)
THEOREM TypeCorrect == Spec => []TypeOK
BY Invariant, PTL DEF IInv

(* The counter is the number of calls in progress. *)
THEOREM ExactCounter == Spec => []CounterIsExact
BY Invariant, PTL DEF IInv

(* No timeout that leads to a flush is live while a call is in progress. *)
THEOREM IdleTimer == Spec => []TimerOnlyWhenIdle
BY Invariant, PTL DEF IInv

(* No flush starts between the moment a job reads lastFlush and its end. *)
THEOREM LastFlushIsOver == Spec => []JobsFollowLastFlush
BY Invariant, PTL DEF IInv
=============================================================================
