----------------------------- MODULE DeviceAccess -----------------------------
(***************************************************************************)
(* withDevice and withDevicePolling (src/src/hw/deviceAccess.js): every    *)
(* use of a hardware wallet goes through a queue of promises, one per      *)
(* device, and a job of the queue opens the transport, runs and closes it. *)
(*                                                                         *)
(* A job is one subscription to withDevice(deviceId)(job). Jobs are        *)
(* numbered in the order of their subscriptions.                           *)
(***************************************************************************)
EXTENDS Naturals

CONSTANTS
    Devices,        \* deviceIds
    Nobody,         \* the owner of a job nobody has subscribed yet
    Clients,        \* the observers that subscribe to withDevice[Polling]
    Target,         \* the device each client works with
    Policy,         \* the acceptError of each client: "none" is withDevice
    TransportIds,   \* what identifyTransport can return
    TransportId,    \* what it returns for the transport of each device; two may
                    \* share an id, as "" is the one of all that have none
    BleDevices,     \* devices whose transport has requestConnectionPriority
    JobsMayThrow,   \* may job(transport), or an access hook, throw synchronously
    MaxJobs         \* bound: the number of subscriptions of a behaviour

(* "none": withDevice; "generic": genericCanRetryOnError; the two others are *)
(* the ones of the firmware update (src/src/hw/firmwareUpdate-main.js).      *)
Policies == {"none", "generic", "all", "CantOpenDevice"}

ASSUME ClientsAssumption ==
    /\ Nobody \notin Clients \cup Devices
    /\ Target \in [Clients -> Devices]
    /\ Policy \in [Clients -> Policies]

ASSUME DevicesAssumption ==
    /\ TransportId \in [Devices -> TransportIds]
    /\ BleDevices \subseteq Devices
    /\ JobsMayThrow \in BOOLEAN

ASSUME BoundAssumption == MaxJobs \in Nat

Jobs == 1..MaxJobs

(***************************************************************************)
(* "none"        not subscribed yet                                        *)
(* "queued"      waits for the promise of the job before it                *)
(* "opening"     open(deviceId) is pending                                 *)
(* "flushing"    the APDU 00000000 that cancels a series is pending        *)
(* "prioritizing" requestConnectionPriority is pending                     *)
(* "running"     the job is subscribed and uses the transport              *)
(* "closing"     close(transport) is pending                               *)
(* "over"        nothing of the job is left to happen                      *)
(***************************************************************************)
Stages == {"none", "queued", "opening", "flushing", "prioritizing",
           "running", "closing", "over"}
UsingDevice == {"opening", "flushing", "prioritizing", "running", "closing"}

OpenErrors == {"CantOpenDevice", "AccessDenied"}
RawErrors == {"status6faa", "status6b00", "WrongApp", "transient"}
Errors == OpenErrors \cup {"DeviceHalted", "UpdateRequired", "WrongApp", "transient"}
Outcomes == Errors \cup {"pending", "complete"}

(* The error a job's failure is delivered as. *)
initialErrorRemapping(e) ==
    CASE e = "status6faa" -> "DeviceHalted"
      [] e = "status6b00" -> "UpdateRequired"
      [] OTHER            -> e

(* AccessDenied stands for BluetoothRequired, TransportWebUSBGestureRequired *)
(* and TransportInterfaceNotAvailable, which open errors pass through as.    *)
genericCanRetryOnError(e) ==
    e \notin {"WrongApp", "CantOpenDevice", "AccessDenied", "UpdateRequired", "DeviceHalted"}

AcceptsError(c, e) ==
    \/ Policy[c] = "all"
    \/ Policy[c] = e
    \/ Policy[c] = "generic" /\ genericCanRetryOnError(e)

VARIABLES
    issued,        \* number of jobs subscribed so far
    owner,         \* the client of each job
    deviceQueues,  \* per device, the job whose promise is the queue's tail, or 0
    prev,          \* per job, the job whose promise it waits for, or 0
    stage,
    outcome,       \* what the job's observer gets once the transport is closed
    unsubscribed,  \* jobs whose observer has unsubscribed
    finished,      \* jobs whose finish() has been called
    transports,    \* jobs whose transport is open
    needsCleanup,  \* transport ids marked by cancelDeviceAction
    interrupted,   \* history: devices left in the middle of a series of APDUs
    taken,         \* history: those whose mark the flush of another device took
    leaked,        \* history: jobs that ended in an error with their transport open
    phase,         \* per client: "idle", "subscribed", or "delay" before a retry
    attempt        \* per client, its last job, or 0

queue == <<issued, owner, deviceQueues, prev, attempt>>
marks == <<needsCleanup, interrupted, taken>>
vars == <<queue, marks, stage, outcome, unsubscribed, finished, transports, leaked, phase>>

Init ==
    /\ issued = 0
    /\ owner = [j \in Jobs |-> Nobody]
    /\ deviceQueues = [d \in Devices |-> 0]
    /\ prev = [j \in Jobs |-> 0]
    /\ stage = [j \in Jobs |-> "none"]
    /\ outcome = [j \in Jobs |-> "pending"]
    /\ unsubscribed = {}
    /\ finished = {}
    /\ transports = {}
    /\ needsCleanup = {}
    /\ interrupted = {}
    /\ taken = {}
    /\ leaked = {}
    /\ phase = [c \in Clients |-> "idle"]
    /\ attempt = [c \in Clients |-> 0]

Device(j) == Target[owner[j]]

SameDevice(i, j) == owner[i] # Nobody /\ owner[j] # Nobody /\ Device(i) = Device(j)
-----------------------------------------------------------------------------
(* Subscribing: the job takes the tail of its device's queue as the promise *)
(* to wait for, and becomes the tail.                                       *)
Subscribe(c) ==
    LET j == issued + 1 IN
    /\ issued < MaxJobs
    /\ issued' = j
    /\ owner' = [owner EXCEPT ![j] = c]
    /\ prev' = [prev EXCEPT ![j] = deviceQueues[Target[c]]]
    /\ deviceQueues' = [deviceQueues EXCEPT ![Target[c]] = j]
    /\ stage' = [stage EXCEPT ![j] = "queued"]
    /\ phase' = [phase EXCEPT ![c] = "subscribed"]
    /\ attempt' = [attempt EXCEPT ![c] = j]
    /\ UNCHANGED <<marks, outcome, unsubscribed, finished, transports, leaked>>

Start(c) == phase[c] = "idle" /\ Subscribe(c)

(* The timer of retryWhileErrors fires: retryWhen subscribes again. *)
Retry(c) == phase[c] = "delay" /\ Subscribe(c)

(* The job's observer gets result r, unless it has unsubscribed. *)
Deliver(j, r) ==
    phase' = IF j \in unsubscribed THEN phase
             ELSE [phase EXCEPT ![owner[j]] =
                     IF r \in Errors /\ AcceptsError(owner[j], r) THEN "delay" ELSE "idle"]

(* Mutant: a job does not wait for its turn. *)
MyTurn_Always(j) == TRUE

(* The promise of the job before has resolved. *)
MyTurn(j) == prev[j] = 0 \/ prev[j] \in finished

(* open(deviceId) is called. *)
StartOpen(j) ==
    /\ stage[j] = "queued"
    /\ MyTurn(j)
    /\ stage' = [stage EXCEPT ![j] = "opening"]
    /\ UNCHANGED <<queue, marks, outcome, unsubscribed, finished, transports, leaked, phase>>

(* Mutant: a job that could not use the transport keeps the queue. *)
finish_IfClosed(j) == finished' = IF j \in transports THEN finished \cup {j} ELSE finished

finish(j) == finished' = finished \cup {j}

OpenFails(j) ==
    /\ stage[j] = "opening"
    /\ stage' = [stage EXCEPT ![j] = "over"]
    /\ finish(j)
    /\ \E e \in OpenErrors : Deliver(j, e)
    /\ UNCHANGED <<queue, marks, outcome, unsubscribed, transports, leaked>>

(* Mutant: the second check of unsubscribed is dropped. *)
Run_NoCheck(j) == stage' = [stage EXCEPT ![j] = "running"] /\ UNCHANGED <<phase, leaked>>

(* The transport is ready: the job is subscribed, or the transport closed   *)
(* when nobody waits for the job any more. A job, or an access hook, that   *)
(* throws goes to the last catch: its observer gets the error, and neither  *)
(* finalize nor finish is ever called.                                      *)
Run(j) ==
    \/ /\ j \in unsubscribed
       /\ stage' = [stage EXCEPT ![j] = "closing"]
       /\ UNCHANGED <<phase, leaked>>
    \/ /\ j \notin unsubscribed
       /\ stage' = [stage EXCEPT ![j] = "running"]
       /\ UNCHANGED <<phase, leaked>>
    \/ /\ j \notin unsubscribed
       /\ JobsMayThrow
       /\ stage' = [stage EXCEPT ![j] = "over"]
       /\ leaked' = leaked \cup {j}
       /\ Deliver(j, "transient")

PrioritizeOrRun(j) ==
    \/ /\ Device(j) \in BleDevices
       /\ stage' = [stage EXCEPT ![j] = "prioritizing"]
       /\ UNCHANGED <<phase, leaked>>
    \/ Device(j) \notin BleDevices /\ Run(j)

OpenSucceeds(j) ==
    LET id == TransportId[Device(j)] IN
    /\ stage[j] = "opening"
    /\ transports' = transports \cup {j}
    /\ \/ /\ j \in unsubscribed
          /\ stage' = [stage EXCEPT ![j] = "closing"]
          /\ UNCHANGED <<marks, phase, leaked>>
       \/ /\ j \notin unsubscribed
          /\ id \in needsCleanup
          /\ needsCleanup' = needsCleanup \ {id}
          /\ interrupted' = interrupted \ {Device(j)}
          /\ taken' = (taken \cup {d \in interrupted : TransportId[d] = id}) \ {Device(j)}
          /\ stage' = [stage EXCEPT ![j] = "flushing"]
          /\ UNCHANGED <<phase, leaked>>
       \/ /\ j \notin unsubscribed
          /\ id \notin needsCleanup
          /\ PrioritizeOrRun(j)
          /\ UNCHANGED marks
    /\ UNCHANGED <<queue, outcome, unsubscribed, finished>>

(* The answer, or the swallowed failure, of the APDU sent to flush. *)
FlushSettles(j) ==
    /\ stage[j] = "flushing"
    /\ PrioritizeOrRun(j)
    /\ UNCHANGED <<queue, marks, outcome, unsubscribed, finished, transports, leaked>>

PrioritySucceeds(j) ==
    /\ stage[j] = "prioritizing"
    /\ Run(j)
    /\ UNCHANGED <<queue, marks, outcome, unsubscribed, finished, transports, leaked>>

(* The rejection lands in the catch of open's failures, which calls finish  *)
(* and does not close the transport.                                        *)
PriorityFails(j) ==
    /\ stage[j] = "prioritizing"
    /\ stage' = [stage EXCEPT ![j] = "over"]
    /\ finish(j)
    /\ leaked' = leaked \cup {j}
    /\ Deliver(j, "CantOpenDevice")
    /\ UNCHANGED <<queue, marks, outcome, unsubscribed, transports>>

(* Mutant: the device is not marked. *)
cancelDeviceAction_Forgets(j) ==
    /\ interrupted' = interrupted \cup {Device(j)}
    /\ taken' = taken \ {Device(j)}
    /\ UNCHANGED needsCleanup

(* cancelDeviceAction, called by the job's teardown when a series of APDUs  *)
(* is left unfinished (src/src/api/socket.js).                              *)
cancelDeviceAction(j) ==
    /\ needsCleanup' = needsCleanup \cup {TransportId[Device(j)]}
    /\ interrupted' = interrupted \cup {Device(j)}
    /\ taken' = taken \ {Device(j)}

Teardown(j) == cancelDeviceAction(j) \/ UNCHANGED marks

(* Mutant: the observer gets the result without waiting for the close. *)
Hold_TellsNow(j, r) ==
    Deliver(j, r) /\ unsubscribed' = unsubscribed \cup {j} /\ UNCHANGED outcome

(* transportFinally keeps the result of the job until the close. *)
Hold(j, r) == outcome' = [outcome EXCEPT ![j] = r] /\ UNCHANGED <<unsubscribed, phase>>

JobCompletes(j) ==
    /\ stage[j] = "running"
    /\ stage' = [stage EXCEPT ![j] = "closing"]
    /\ Hold(j, "complete")
    /\ UNCHANGED <<queue, marks, finished, transports, leaked>>

JobFails(j) ==
    /\ stage[j] = "running"
    /\ stage' = [stage EXCEPT ![j] = "closing"]
    /\ \E e \in RawErrors : Hold(j, initialErrorRemapping(e))
    /\ Teardown(j)
    /\ UNCHANGED <<queue, finished, transports, leaked>>

(* close(transport) settles (a failure is swallowed): the cleanups run,     *)
(* finish is the last of them, and then the observer gets the result.       *)
CloseSettles(j) ==
    /\ stage[j] = "closing"
    /\ stage' = [stage EXCEPT ![j] = "over"]
    /\ transports' = transports \ {j}
    /\ finish(j)
    /\ Deliver(j, outcome[j])
    /\ outcome' = [outcome EXCEPT ![j] = "pending"]
    /\ UNCHANGED <<queue, marks, unsubscribed, leaked>>

(* The client unsubscribes. A running job is torn down and its transport    *)
(* closed; a job that is not running yet is only marked.                    *)
Unsubscribe(c) ==
    LET j == attempt[c] IN
    /\ phase[c] = "subscribed"
    /\ phase' = [phase EXCEPT ![c] = "idle"]
    /\ unsubscribed' = unsubscribed \cup {j}
    /\ IF stage[j] = "running"
       THEN stage' = [stage EXCEPT ![j] = "closing"] /\ Teardown(j)
       ELSE UNCHANGED <<stage, marks>>
    /\ UNCHANGED <<queue, outcome, finished, transports, leaked>>

(* The client unsubscribes while withDevicePolling waits before a retry. *)
CancelRetry(c) ==
    /\ phase[c] = "delay"
    /\ phase' = [phase EXCEPT ![c] = "idle"]
    /\ UNCHANGED <<queue, marks, stage, outcome, unsubscribed, finished, transports, leaked>>
-----------------------------------------------------------------------------
ClientStep(c) == Start(c) \/ Retry(c) \/ Unsubscribe(c) \/ CancelRetry(c)

(* What the device, the transport and the job's own observable answer. *)
JobStep(j) ==
    \/ StartOpen(j)
    \/ OpenFails(j)
    \/ OpenSucceeds(j)
    \/ FlushSettles(j)
    \/ PrioritySucceeds(j)
    \/ PriorityFails(j)
    \/ JobCompletes(j)
    \/ JobFails(j)
    \/ CloseSettles(j)

Next ==
    \/ \E c \in Clients : ClientStep(c)
    \/ \E j \in Jobs : JobStep(j)

Spec == Init /\ [][Next]_vars

(* A resolved promise runs its callbacks, and every call to the transport   *)
(* and every job settles. Clients are free to do nothing.                   *)
Fairness == \A j \in Jobs : WF_vars(JobStep(j))

FairSpec == Spec /\ Fairness
-----------------------------------------------------------------------------
TypeOK ==
    /\ issued \in 0..MaxJobs
    /\ owner \in [Jobs -> Clients \cup {Nobody}]
    /\ deviceQueues \in [Devices -> 0..MaxJobs]
    /\ prev \in [Jobs -> 0..MaxJobs]
    /\ stage \in [Jobs -> Stages]
    /\ outcome \in [Jobs -> Outcomes]
    /\ unsubscribed \subseteq Jobs
    /\ finished \subseteq Jobs
    /\ transports \subseteq Jobs
    /\ needsCleanup \subseteq TransportIds
    /\ interrupted \subseteq Devices
    /\ taken \subseteq Devices
    /\ leaked \subseteq Jobs
    /\ phase \in [Clients -> {"idle", "subscribed", "delay"}]
    /\ attempt \in [Clients -> 0..MaxJobs]

(* Two jobs never use one device at the same time: between the open and the *)
(* close of a job, no other job of the device is between its own, and the    *)
(* device has no second open transport but one that was leaked: by a job that *)
(* threw, or whose connection priority was refused.                          *)
DeviceExclusion ==
    \A i, j \in Jobs :
        i # j /\ SameDevice(i, j) =>
            /\ ~(stage[i] \in UsingDevice /\ stage[j] \in UsingDevice)
            /\ i \in transports /\ j \in transports => {i, j} \cap leaked # {}

(* A job never runs on a device that an earlier job left in the middle of a *)
(* series of APDUs and that nobody has flushed since, unless the flush was   *)
(* sent to another device whose transport has the same id.                   *)
JobStartsClean ==
    \A j \in Jobs : stage[j] = "running" /\ Device(j) \in interrupted => Device(j) \in taken

(* A job whose observer unsubscribed while it was queued, opening, flushing *)
(* or prioritizing is never started.                                        *)
NoStartAfterUnsubscribe ==
    [][\A j \in Jobs :
          stage[j] # "running" /\ stage'[j] = "running" => j \notin unsubscribed']_vars

(* withDevicePolling never overlaps itself: when it subscribes again, its    *)
(* last attempt has nothing left to do and has closed its transport, or left  *)
(* it open for good because it threw or its connection priority was refused. *)
RetryAfterAttemptIsOver ==
    [][\A c \in Clients :
          phase[c] = "delay" /\ phase'[c] = "subscribed" =>
              /\ stage[attempt[c]] = "over"
              /\ attempt[c] \in transports => attempt[c] \in leaked]_vars

KeepsQueue(i) == stage[i] = "over" /\ i \in transports /\ i \notin finished

(* Every queued job ends up using the device and giving it back, whatever   *)
(* happens to its observer and to the jobs before it, unless one of them    *)
(* threw and kept the queue.                                                *)
QueueAdvances ==
    \A j \in Jobs :
        stage[j] = "queued" ~>
            \/ j \in finished
            \/ \E i \in 1..j : KeepsQueue(i) /\ SameDevice(i, j)

QueueDevice == [j \in Jobs |-> IF owner[j] = Nobody THEN Nobody ELSE Device(j)]

QueueAccess ==
    [j \in Jobs |-> IF stage[j] = "none" THEN "idle"
                    ELSE IF stage[j] = "queued" THEN "waiting"
                    ELSE IF j \in finished THEN "done" ELSE "holding"]

Queue == INSTANCE AccessQueue
    WITH Nowhere <- Nobody, device <- QueueDevice, access <- QueueAccess

(* withDevice implements the queue of exclusive accesses of AccessQueue: a  *)
(* job holds its device from the call to open until finish is called.       *)
ImplementsAccessQueue == Queue!Spec

(* "when we'll finish all the current job, we'll call finish"               *)
(* (src/src/hw/deviceAccess.js:100): a job of which nothing is left has     *)
(* given the queue back. False: a job that throws never does.               *)
FinishIsCalled == \A j \in Jobs : stage[j] = "over" => j \in finished

=============================================================================
