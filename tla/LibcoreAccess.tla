----------------------------- MODULE LibcoreAccess -----------------------------
(***************************************************************************)
(* Access to the C++ core (src/src/libcore/access.js). A counter of the    *)
(* jobs that use the core decides when its garbage may be collected: a     *)
(* timer, armed when the last job ends, calls flush, and jobs asked for    *)
(* with afterLibcoreGC run at the end of the flush.                        *)
(***************************************************************************)
EXTENDS Naturals, FiniteSets, Sequences

CONSTANTS
    Tasks,        \* calls of withLibcore
    GCJobs,       \* calls of afterLibcoreGC
    MaxFlushes    \* bound: the number of flushes of a behaviour

ASSUME TasksAssumption == IsFiniteSet(Tasks)
ASSUME BoundAssumption == MaxFlushes \in Nat

Flushes == 1..MaxFlushes

VARIABLES
    core,               \* "null", "loaded", or "resetting": freshResetAll is pending
    corePromise,        \* "none", "pending", "loaded" or "failed"
    libcoreJobsCounter,
    lastFlush,          \* the last flush, or 0: the promise jobs wait for
    timers,             \* live timeouts that will call flush
    flush,              \* per flush, its stage
    item,               \* per flush, the after-GC job it is running
    afterLibcoreFlushes,\* the queue of after-GC jobs
    gcjob,              \* per after-GC job: what has become of it
    stage,              \* per task
    awaited,            \* per task, the flush it read from lastFlush
    garbage             \* history: "some" when a job ran since the last flush

loading == <<core, corePromise>>
flushes == <<lastFlush, flush, item>>
gcjobs == <<afterLibcoreFlushes, gcjob>>
vars == <<loading, flushes, gcjobs, libcoreJobsCounter, timers, stage, awaited, garbage>>

NoJob == "none"

Init ==
    /\ core = "null"
    /\ corePromise = "none"
    /\ libcoreJobsCounter = 0
    /\ lastFlush = 0
    /\ timers = 0
    /\ flush = [f \in Flushes |-> "none"]
    /\ item = [f \in Flushes |-> NoJob]
    /\ afterLibcoreFlushes = <<>>
    /\ gcjob = [g \in GCJobs |-> "none"]
    /\ stage = [t \in Tasks |-> "none"]
    /\ awaited = [t \in Tasks |-> 0]
    /\ garbage = "none"

(* The flushes whose promise is not settled yet. *)
InProgress == {f \in Flushes : flush[f] \in {"collecting", "draining"}}
-----------------------------------------------------------------------------
Counted == libcoreJobsCounter + 1

(* Mutant: a job whose load fails stays counted. *)
Uncounted_IfItRan(t) ==
    IF stage[t] = "running" THEN libcoreJobsCounter - 1 ELSE libcoreJobsCounter

(* finally: however the job ends. *)
Uncounted(t) == libcoreJobsCounter - 1

(* Mutant: a new job does not postpone the GC. *)
Postponed_Not == timers

(* The timeout that flushTimeout holds is cleared. *)
Postponed == IF timers = 0 THEN 0 ELSE timers - 1

(* withLibcore is called: the job counts from now on, the GC is postponed,  *)
(* and load is called, which starts to load the core the first time.        *)
StartTask(t) ==
    /\ stage[t] = "none"
    /\ libcoreJobsCounter' = Counted
    /\ timers' = Postponed
    /\ stage' = [stage EXCEPT ![t] = IF core = "null" THEN "loading" ELSE "loaded"]
    /\ corePromise' = IF core = "null" /\ corePromise = "none" THEN "pending" ELSE corePromise
    /\ UNCHANGED <<core, flushes, gcjobs, awaited, garbage>>

(* The platform's loadCore settles. The promise is kept, even rejected. *)
LoadSettles ==
    /\ corePromise = "pending"
    /\ corePromise' \in {"loaded", "failed"}
    /\ UNCHANGED <<core, flushes, gcjobs, libcoreJobsCounter, timers, stage, awaited, garbage>>

(* load returns: the job waits for the flush that is the last one now. *)
AwaitFlush(t) ==
    /\ \/ stage[t] = "loaded" /\ UNCHANGED core
       \/ stage[t] = "loading" /\ corePromise = "loaded" /\ core' = "loaded"
    /\ stage' = [stage EXCEPT ![t] = "awaiting"]
    /\ awaited' = [awaited EXCEPT ![t] = lastFlush]
    /\ UNCHANGED <<corePromise, flushes, gcjobs, libcoreJobsCounter, timers, garbage>>

(* load throws: finally has no core to flush, and arms no timer. *)
LoadFails(t) ==
    /\ stage[t] = "loading"
    /\ corePromise = "failed"
    /\ stage' = [stage EXCEPT ![t] = "done"]
    /\ libcoreJobsCounter' = Uncounted(t)
    /\ UNCHANGED <<loading, flushes, gcjobs, timers, awaited, garbage>>

(* Mutant: the job does not wait for the flush. *)
FlushIsOver_Always(t) == TRUE

FlushIsOver(t) == awaited[t] \notin InProgress

RunTask(t) ==
    /\ stage[t] = "awaiting"
    /\ FlushIsOver(t)
    /\ stage' = [stage EXCEPT ![t] = "running"]
    /\ garbage' = "some"
    /\ UNCHANGED <<loading, flushes, gcjobs, libcoreJobsCounter, timers, awaited>>

(* Mutant: the counter is compared before it is decremented. *)
LastOne_Before == libcoreJobsCounter = 0

LastOne == libcoreJobsCounter' = 0

(* The job returns or throws: the last one to end arms the timer. *)
EndTask(t) ==
    /\ stage[t] = "running"
    /\ stage' = [stage EXCEPT ![t] = "done"]
    /\ libcoreJobsCounter' = Uncounted(t)
    /\ awaited' = [awaited EXCEPT ![t] = 0]
    /\ timers' = IF LastOne THEN timers + 1 ELSE timers
    /\ UNCHANGED <<loading, flushes, gcjobs, garbage>>

(* afterLibcoreGC without a core: its promise never settles. *)
AfterGCWithoutCore(g) ==
    /\ gcjob[g] = "none"
    /\ core = "null"
    /\ gcjob' = [gcjob EXCEPT ![g] = "never"]
    /\ UNCHANGED <<loading, flushes, afterLibcoreFlushes, libcoreJobsCounter, timers, stage,
                   awaited, garbage>>

(* Mutant: the job is left to the next flush, whenever that is. *)
Rearmed_Not == timers

(* The timeout starts again, even while a flush is in progress. *)
Rearmed == IF libcoreJobsCounter = 0 /\ timers = 0 THEN 1 ELSE timers

(* With a core: the job is queued, and the timer armed when nothing runs. *)
AfterGC(g) ==
    /\ gcjob[g] = "none"
    /\ core # "null"
    /\ gcjob' = [gcjob EXCEPT ![g] = "queued"]
    /\ afterLibcoreFlushes' = Append(afterLibcoreFlushes, g)
    /\ timers' = Rearmed
    /\ UNCHANGED <<loading, flushes, libcoreJobsCounter, stage, awaited, garbage>>

(* The timer fires: flush(c), whose promise becomes lastFlush. *)
Flush ==
    /\ timers > 0
    /\ lastFlush < MaxFlushes
    /\ timers' = timers - 1
    /\ lastFlush' = lastFlush + 1
    /\ flush' = [flush EXCEPT ![lastFlush + 1] = "collecting"]
    /\ garbage' = "none"
    /\ UNCHANGED <<loading, item, gcjobs, libcoreJobsCounter, stage, awaited>>

(* The loop over afterLibcoreFlushes: shift a job and run it, or end. *)
Shift(f) ==
    IF afterLibcoreFlushes = <<>>
    THEN /\ flush' = [flush EXCEPT ![f] = "ended"]
         /\ item' = [item EXCEPT ![f] = NoJob]
         /\ UNCHANGED afterLibcoreFlushes
    ELSE /\ flush' = [flush EXCEPT ![f] = "draining"]
         /\ item' = [item EXCEPT ![f] = Head(afterLibcoreFlushes)]
         /\ afterLibcoreFlushes' = Tail(afterLibcoreFlushes)

CollectSettles(f) ==
    /\ flush[f] = "collecting"
    /\ Shift(f)
    /\ UNCHANGED <<loading, libcoreJobsCounter, lastFlush, timers, gcjob, stage, awaited, garbage>>

ItemResolves(f) ==
    /\ flush[f] = "draining"
    /\ gcjob' = [gcjob EXCEPT ![item[f]] = "resolved"]
    /\ Shift(f)
    /\ UNCHANGED <<loading, libcoreJobsCounter, lastFlush, timers, stage, awaited, garbage>>

(* c.flush() or an after-GC job rejects: the loop is left with what is      *)
(* still queued, and the promise of the job that failed never settles.      *)
Abort(f) ==
    /\ flush[f] \in {"collecting", "draining"}
    /\ flush' = [flush EXCEPT ![f] = "aborted"]
    /\ item' = [item EXCEPT ![f] = NoJob]
    /\ gcjob' = IF flush[f] = "draining" THEN [gcjob EXCEPT ![item[f]] = "never"] ELSE gcjob
    /\ UNCHANGED <<loading, libcoreJobsCounter, lastFlush, timers, afterLibcoreFlushes, stage,
                   awaited, garbage>>

(* reset, when it does not return or throw at once. *)
StartReset ==
    /\ core = "loaded"
    /\ libcoreJobsCounter = 0
    /\ core' = "resetting"
    /\ UNCHANGED corePromise

EndReset == core = "resetting" /\ core' = "null" /\ corePromise' = "none"

ResetFails == core = "resetting" /\ core' = "loaded" /\ UNCHANGED corePromise

ResetStep ==
    /\ StartReset \/ EndReset \/ ResetFails
    /\ UNCHANGED <<flushes, gcjobs, libcoreJobsCounter, timers, stage, awaited, garbage>>
-----------------------------------------------------------------------------
TaskStep(t) == AwaitFlush(t) \/ LoadFails(t) \/ RunTask(t) \/ EndTask(t)

FlushStep(f) == CollectSettles(f) \/ ItemResolves(f) \/ Abort(f)

Next ==
    \/ \E t \in Tasks : StartTask(t) \/ TaskStep(t)
    \/ LoadSettles
    \/ \E g \in GCJobs : AfterGCWithoutCore(g) \/ AfterGC(g)
    \/ Flush
    \/ \E f \in Flushes : FlushStep(f)
    \/ ResetStep

Spec == Init /\ [][Next]_vars

(* Promises that are settled run their callbacks, timers fire, and the core *)
(* answers; nobody has to call anything.                                    *)
Fairness ==
    /\ WF_vars(LoadSettles)
    /\ WF_vars(Flush)
    /\ WF_vars(core = "resetting" /\ ResetStep)
    /\ \A t \in Tasks : WF_vars(TaskStep(t))
    /\ \A f \in Flushes : WF_vars(FlushStep(f))

FairSpec == Spec /\ Fairness
-----------------------------------------------------------------------------
Active == {t \in Tasks : stage[t] \notin {"none", "done"}}

TypeOK ==
    /\ core \in {"null", "loaded", "resetting"}
    /\ corePromise \in {"none", "pending", "loaded", "failed"}
    /\ libcoreJobsCounter \in Nat
    /\ lastFlush \in 0..MaxFlushes
    /\ timers \in Nat
    /\ flush \in [Flushes -> {"none", "collecting", "draining", "ended", "aborted"}]
    /\ item \in [Flushes -> GCJobs \cup {NoJob}]
    /\ afterLibcoreFlushes \in Seq(GCJobs)
    /\ gcjob \in [GCJobs -> {"none", "queued", "resolved", "never"}]
    /\ stage \in [Tasks -> {"none", "loading", "loaded", "awaiting", "running", "done"}]
    /\ awaited \in [Tasks -> 0..MaxFlushes]
    /\ garbage \in {"none", "some"}

(* The counter is the number of calls of withLibcore in progress, whatever  *)
(* way they end, so the core is only believed idle when it is.              *)
CounterIsExact == libcoreJobsCounter = Cardinality(Active)

(* At most one timeout is live, and none while a job is in progress: a      *)
(* timeout that a new job could not clear would collect under its feet.     *)
TimerOnlyWhenIdle == timers <= 1 /\ (Active # {} => timers = 0)

(* No flush starts while a job is between the read of lastFlush and its     *)
(* end, and so the flush a job has waited for is still the last one and is  *)
(* over while the job runs.                                                 *)
JobsFollowLastFlush ==
    \A t \in Tasks :
        /\ stage[t] \in {"awaiting", "running"} => awaited[t] = lastFlush
        /\ stage[t] = "running" => lastFlush \notin InProgress

(* What a job has used is eventually collected, unless a failed load has    *)
(* replaced the core.                                                       *)
GarbageIsCollected == garbage = "some" ~> (garbage = "none" \/ corePromise = "failed")

(* A job queued for after the GC eventually settles, unless a flush stops   *)
(* half-way or a failed load has replaced the core.                         *)
AfterGCJobsRun ==
    \A g \in GCJobs :
        gcjob[g] = "queued" ~>
            \/ gcjob[g] # "queued"
            \/ \E f \in Flushes : flush[f] = "aborted"
            \/ corePromise = "failed"

(* "wait previous flush before starting anything"                           *)
(* (src/src/libcore/access.js:72): no job runs while a flush is in          *)
(* progress. False: afterLibcoreGC can start a second flush during the      *)
(* first, and lastFlush only remembers the second.                          *)
NoJobDuringFlush ==
    \A t \in Tasks : stage[t] = "running" => InProgress = {}

(* "some libcore jobs are still running" (src/src/libcore/access.js:96):    *)
(* the data is reset while no job runs. False: the counter is read before   *)
(* the await of freshResetAll.                                              *)
ResetRunsAlone == core = "resetting" => libcoreJobsCounter = 0
=============================================================================
