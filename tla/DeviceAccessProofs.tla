-------------------------- MODULE DeviceAccessProofs --------------------------
(***************************************************************************)
(* Theorems of DeviceAccess, for any number of devices, clients and jobs.  *)
(***************************************************************************)
EXTENDS DeviceAccess, TLAPS

USE ClientsAssumption, DevicesAssumption, BoundAssumption
USE DEF queue, marks, MyTurn, finish, Hold

(* Jobs are numbered as they are subscribed, each with its owner. *)
Numbering ==
    \A j \in Jobs :
        /\ stage[j] = "none" <=> j > issued
        /\ owner[j] = Nobody <=> j > issued

(* A client that is not idle has an attempt of its own, which is the only   *)
(* job that can still tell it something, and is over during the delay.      *)
Attempts ==
    /\ \A c \in Clients : phase[c] # "idle" => attempt[c] \in 1..issued /\ owner[attempt[c]] = c
    /\ \A j \in Jobs : stage[j] \notin {"none", "over"} /\ j \notin unsubscribed =>
          phase[owner[j]] = "subscribed" /\ attempt[owner[j]] = j
    /\ \A c \in Clients : phase[c] = "delay" => stage[attempt[c]] = "over"

(* The promise a job waits for is the one of the last job before it on the  *)
(* same device, and the tail of a device's queue is its last job.           *)
Chain ==
    /\ \A j \in Jobs : prev[j] < j /\ (prev[j] # 0 => SameDevice(prev[j], j))
    /\ \A i, j \in Jobs : i < j /\ SameDevice(i, j) => i <= prev[j]
    /\ \A d \in Devices :
          deviceQueues[d] # 0 => deviceQueues[d] <= issued /\ Device(deviceQueues[d]) = d
    /\ \A j \in Jobs : owner[j] # Nobody => j <= deviceQueues[Device(j)]

(* A job leaves the queue only when every job before it has called finish,  *)
(* which a job only does at its very end.                                   *)
Order ==
    /\ \A j \in finished : stage[j] = "over"
    /\ \A i, j \in Jobs :
          i < j /\ SameDevice(i, j) /\ stage[j] \notin {"none", "queued"} => i \in finished

IInv == TypeOK /\ Numbering /\ Attempts /\ Chain /\ Order
-----------------------------------------------------------------------------
LEMMA InitInv == Init => IInv
BY DEF Init, IInv, TypeOK, Numbering, Attempts, Chain, Order, SameDevice, Stages, Outcomes, Jobs

LEMMA SubscribeInv ==
    ASSUME IInv, NEW c \in Clients, phase[c] # "subscribed", Subscribe(c)
    PROVE  IInv'
<1>0. PICK n \in Jobs : n = issued + 1
    BY DEF IInv, TypeOK, Subscribe, Jobs
<1>1. n = issued + 1 /\ stage[n] = "none" /\ owner[n] = Nobody /\ n \notin finished
    BY <1>0 DEF IInv, TypeOK, Numbering, Order, Subscribe, Jobs
<1>2. TypeOK'
    BY <1>1 DEF IInv, TypeOK, Subscribe, Jobs, Stages
<1>3. Numbering'
    BY <1>1 DEF IInv, TypeOK, Numbering, Subscribe, Jobs
<1>4. Attempts'
    BY <1>1 DEF IInv, TypeOK, Attempts, Numbering, Subscribe, Jobs
<1>5. Chain'
  <2>1. deviceQueues' = [deviceQueues EXCEPT ![Target[c]] = n]
        /\ prev' = [prev EXCEPT ![n] = deviceQueues[Target[c]]]
        /\ owner' = [owner EXCEPT ![n] = c] /\ issued' = n /\ Target[c] \in Devices
    BY <1>1 DEF Subscribe, IInv, TypeOK
  <2>2. \A j \in Jobs \ {n} : owner'[j] = owner[j] /\ prev'[j] = prev[j]
    BY <2>1 DEF IInv, TypeOK
  <2>3. owner'[n] = c /\ prev'[n] = deviceQueues[Target[c]] /\ c # Nobody
    BY <1>1, <2>1 DEF IInv, TypeOK
  <2>4. \A i, j \in Jobs \ {n} : SameDevice(i, j)' <=> SameDevice(i, j)
    BY <2>2 DEF SameDevice, Device
  <2>5. \A i \in Jobs \ {n} : SameDevice(i, n)' <=> owner[i] # Nobody /\ Device(i) = Target[c]
    BY <2>2, <2>3 DEF SameDevice, Device
  <2>6. \A i \in Jobs : i < n <=> owner[i] # Nobody
    BY <1>1 DEF IInv, TypeOK, Numbering, Jobs
  <2>7. \A j \in Jobs : prev'[j] < j /\ (prev'[j] # 0 => SameDevice(prev[j], j)')
    <3>1. TAKE j \in Jobs
    <3>2. CASE j = n
      <4> DEFINE q == deviceQueues[Target[c]]
      <4>1. q \in 0..MaxJobs /\ q < n /\ (q # 0 => owner[q] # Nobody /\ Device(q) = Target[c])
        BY <1>1, <2>1, <2>6 DEF IInv, TypeOK, Chain, Jobs
      <4>2. q # 0 => owner'[q] = owner[q]
        BY <2>2, <4>1 DEF Jobs
      <4>3. q # 0 => SameDevice(prev[n], n)'
        BY <2>3, <4>1, <4>2 DEF SameDevice, Device
      <4>4. QED
        BY <2>3, <3>2, <4>1, <4>3
    <3>3. CASE j # n
      <4>1. CASE prev[j] = 0
        BY <2>2, <3>3, <4>1 DEF Jobs
      <4>2. CASE prev[j] # 0
        <5>1. prev[j] < j /\ SameDevice(prev[j], j) /\ prev[j] \in Jobs
            BY <4>2 DEF IInv, TypeOK, Chain, Jobs
        <5>2. prev[j] # n
            BY <1>1, <5>1 DEF SameDevice
        <5>3. SameDevice(prev[j], j)'
            BY <2>2, <3>3, <5>1, <5>2 DEF SameDevice, Device
        <5>4. QED
            BY <2>2, <3>3, <5>1, <5>3
      <4>3. QED
        BY <4>1, <4>2
    <3>4. QED
        BY <3>2, <3>3
  <2>8. \A i, j \in Jobs : i < j /\ SameDevice(i, j)' => i <= prev'[j]
    <3>1. SUFFICES ASSUME NEW i \in Jobs, NEW j \in Jobs, i < j, SameDevice(i, j)'
                   PROVE  i <= prev'[j]
        OBVIOUS
    <3>2. CASE j = n
      <4>1. owner[i] # Nobody /\ Device(i) = Target[c] /\ i # n
        BY <2>5, <3>1, <3>2 DEF Jobs
      <4>2. QED
        BY <2>3, <3>2, <4>1 DEF IInv, Chain
    <3>3. CASE j # n
      <4>1. owner[j] # Nobody
        BY <2>2, <3>1, <3>3 DEF SameDevice
      <4>2. i # n
        BY <2>6, <3>1, <4>1 DEF Jobs
      <4>3. QED
        BY <2>2, <2>4, <3>1, <3>3, <4>2 DEF IInv, Chain
    <3>4. QED
        BY <3>2, <3>3
  <2>9. \A d \in Devices : deviceQueues'[d] # 0 =>
            deviceQueues'[d] <= issued' /\ Device(deviceQueues[d])' = d
    <3>1. TAKE d \in Devices
    <3>2. CASE d = Target[c]
        BY <1>1, <2>1, <2>3, <3>2 DEF IInv, TypeOK, Device, Jobs
    <3>3. CASE d # Target[c]
        BY <1>1, <2>1, <2>2, <3>3 DEF IInv, TypeOK, Chain, Device, Jobs
    <3>4. QED
        BY <3>2, <3>3
  <2>10. \A j \in Jobs : owner'[j] # Nobody => j <= deviceQueues'[Device(j)']
    <3>1. SUFFICES ASSUME NEW j \in Jobs, owner'[j] # Nobody
                   PROVE  j <= deviceQueues'[Device(j)']
        OBVIOUS
    <3>2. CASE j = n
        BY <2>1, <2>3, <3>2 DEF IInv, TypeOK, Device, Jobs
    <3>3. CASE j # n
      <4>1. Device(j)' = Device(j) /\ Device(j) \in Devices /\ j <= deviceQueues[Device(j)] /\ j < n
        BY <2>2, <2>6, <3>1, <3>3 DEF IInv, TypeOK, Chain, Device
      <4>2. j <= deviceQueues'[Device(j)]
        BY <2>1, <4>1 DEF IInv, TypeOK, Jobs
      <4>3. QED
        BY <4>1, <4>2
    <3>4. QED
        BY <3>2, <3>3
  <2>11. QED
    BY <2>7, <2>8, <2>9, <2>10 DEF Chain
<1>6. Order'
    BY <1>1 DEF IInv, TypeOK, Chain, Order, Numbering, Subscribe, SameDevice, Device, Jobs
<1>7. QED
    BY <1>2, <1>3, <1>4, <1>5, <1>6 DEF IInv
(* A step of one job: it moves the job along to stage s, and only a job     *)
(* that is over calls finish or tells its observer something.               *)
Tells(j, s) == phase' = phase \/ (s = "over" /\ \E r \in Outcomes : Deliver(j, r))

Moves(j, s) ==
    /\ stage[j] \notin {"none", "over"}
    /\ stage[j] = "queued" => s = "opening" /\ (prev[j] = 0 \/ prev[j] \in finished)
    /\ s \in Stages \ {"none", "queued"}
    /\ stage' = [stage EXCEPT ![j] = s]
    /\ finished' = finished \/ (s = "over" /\ finished' = finished \cup {j})
    /\ Tells(j, s)
    /\ UNCHANGED <<issued, owner, deviceQueues, prev, attempt, unsubscribed>>

LEMMA MoveInv ==
    ASSUME IInv, TypeOK', NEW j \in Jobs, NEW s, Moves(j, s)
    PROVE  IInv'
<1> USE DEF Moves, Tells
<1>1. Numbering'
    BY DEF IInv, TypeOK, Numbering
<1>2. owner[j] \in Clients /\ attempt \in [Clients -> 0..MaxJobs]
    BY DEF IInv, TypeOK, Numbering
<1>3. \A c \in Clients :
        \/ phase'[c] = phase[c]
        \/ /\ c = owner[j] /\ s = "over" /\ phase'[c] \in {"idle", "delay"}
           /\ phase[c] = "subscribed" /\ attempt[c] = j
  <2>1. CASE phase' = phase
    BY <2>1
  <2>2. ASSUME s = "over", NEW r, Deliver(j, r), j \notin unsubscribed
        PROVE  \E v \in {"idle", "delay"} : phase' = [phase EXCEPT ![owner[j]] = v]
    BY <2>2 DEF Deliver
  <2>3. j \notin unsubscribed => phase[owner[j]] = "subscribed" /\ attempt[owner[j]] = j
    BY DEF IInv, Attempts
  <2>4. ASSUME s = "over", NEW r, Deliver(j, r), j \in unsubscribed PROVE phase' = phase
    BY <2>4 DEF Deliver
  <2>5. CASE s = "over" /\ \E r \in Outcomes : Deliver(j, r)
    <3>1. CASE j \in unsubscribed
        BY <2>1, <2>4, <2>5, <3>1
    <3>2. CASE j \notin unsubscribed
      <4>1. PICK v \in {"idle", "delay"} : phase' = [phase EXCEPT ![owner[j]] = v]
        BY <2>2, <2>5, <3>2
      <4>2. QED
        BY <1>2, <2>3, <2>5, <3>2, <4>1 DEF IInv, TypeOK
    <3>3. QED
        BY <3>1, <3>2
  <2>6. QED
    BY <2>1, <2>5
<1>4. Attempts'
  <2>1. \A c \in Clients : phase'[c] # "idle" => attempt[c] \in 1..issued /\ owner[attempt[c]] = c
    BY <1>3 DEF IInv, Attempts
  <2>2. \A k \in Jobs : stage'[k] \notin {"none", "over"} /\ k \notin unsubscribed =>
            phase'[owner[k]] = "subscribed" /\ attempt[owner[k]] = k
    <3>1. SUFFICES ASSUME NEW k \in Jobs, stage'[k] \notin {"none", "over"}, k \notin unsubscribed
                   PROVE  phase'[owner[k]] = "subscribed" /\ attempt[owner[k]] = k
        OBVIOUS
    <3>2. stage[k] \notin {"none", "over"} /\ (k = j => s # "over")
        BY <3>1 DEF IInv, TypeOK
    <3>3. owner[k] \in Clients /\ phase[owner[k]] = "subscribed" /\ attempt[owner[k]] = k
        BY <3>1, <3>2 DEF IInv, TypeOK, Numbering, Attempts
    <3>4. QED
        BY <1>3, <3>2, <3>3
  <2>3. \A c \in Clients : phase'[c] = "delay" => stage'[attempt[c]] = "over"
    BY <1>3 DEF IInv, TypeOK, Attempts, Jobs
  <2>4. QED
    BY <2>1, <2>2, <2>3 DEF Attempts
<1>5. Chain'
    BY DEF IInv, Chain, SameDevice, Device
<1>6. Order'
  <2>1. \A k \in finished' : stage'[k] = "over"
    BY DEF IInv, TypeOK, Order
  <2>2. SUFFICES ASSUME NEW i \in Jobs, NEW k \in Jobs, i < k, SameDevice(i, k)',
                        stage'[k] \notin {"none", "queued"}
                 PROVE  i \in finished
    BY <2>1 DEF Order
  <2>3. SameDevice(i, k)
    BY <2>2 DEF SameDevice, Device
  <2>4. CASE k # j \/ stage[j] # "queued"
    BY <2>2, <2>3, <2>4 DEF IInv, TypeOK, Order
  <2>5. CASE k = j /\ stage[j] = "queued"
    <3>1. i <= prev[j] /\ prev[j] \in finished /\ prev[j] \in Jobs /\ SameDevice(prev[j], j)
        BY <2>2, <2>3, <2>5 DEF IInv, TypeOK, Chain, Jobs
    <3>2. stage[prev[j]] = "over" /\ SameDevice(i, prev[j])
        BY <2>3, <2>5, <3>1 DEF IInv, Order, SameDevice
    <3>3. QED
        BY <3>1, <3>2 DEF IInv, Order, Jobs
  <2>6. QED
    BY <2>4, <2>5
<1>7. QED
    BY <1>1, <1>4, <1>5, <1>6 DEF IInv

(* Unsubscribing from a job that does not run only marks it. *)
LEMMA MarkInv ==
    ASSUME IInv, NEW c \in Clients, phase[c] = "subscribed", TypeOK',
           unsubscribed' = unsubscribed \cup {attempt[c]},
           phase' = [phase EXCEPT ![c] = "idle"],
           UNCHANGED <<issued, owner, deviceQueues, prev, stage, finished, attempt>>
    PROVE  IInv'
<1>1. Numbering' /\ Chain' /\ Order'
    BY DEF IInv, Numbering, Chain, Order, SameDevice, Device
<1>2. Attempts'
    BY DEF IInv, TypeOK, Attempts
<1>3. QED
    BY <1>1, <1>2 DEF IInv

LEMMA UnsubscribeInv ==
    ASSUME IInv, NEW c \in Clients, Unsubscribe(c)
    PROVE  IInv'
<1>1. PICK j \in Jobs : j = attempt[c] /\ owner[j] = c
    BY DEF IInv, TypeOK, Attempts, Unsubscribe, Jobs
<1>2. TypeOK'
  <2>1. needsCleanup' \subseteq TransportIds /\ interrupted' \subseteq Devices /\ taken' \subseteq Devices
    BY <1>1 DEF IInv, TypeOK, Unsubscribe, Teardown, cancelDeviceAction, Device
  <2>2. stage' \in [Jobs -> Stages]
    BY <1>1 DEF IInv, TypeOK, Unsubscribe, Stages
  <2>3. QED
    BY <1>1, <2>1, <2>2 DEF IInv, TypeOK, Unsubscribe
<1>3. CASE stage[j] # "running"
    BY <1>1, <1>2, <1>3, MarkInv DEF Unsubscribe
<1>4. CASE stage[j] = "running"
  <2>1. stage' = [stage EXCEPT ![j] = "closing"] /\ finished' = finished
        /\ unsubscribed' = unsubscribed \cup {j} /\ phase' = [phase EXCEPT ![c] = "idle"]
        /\ UNCHANGED <<issued, owner, deviceQueues, prev, attempt>>
    BY <1>1, <1>4 DEF Unsubscribe
  <2>2. Numbering' /\ Chain' /\ Attempts'
    BY <1>1, <1>4, <2>1 DEF IInv, TypeOK, Numbering, Chain, Attempts, SameDevice, Device
  <2>3. Order'
    BY <1>1, <1>4, <2>1 DEF IInv, TypeOK, Order, SameDevice, Device
  <2>4. QED
    BY <1>2, <2>2, <2>3 DEF IInv
<1>5. QED
    BY <1>3, <1>4

LEMMA DeliverType ==
    ASSUME IInv, NEW j \in Jobs, stage[j] # "none", NEW r, Deliver(j, r)
    PROVE  phase' \in [Clients -> {"idle", "subscribed", "delay"}]
BY DEF IInv, TypeOK, Numbering, Deliver

LEMMA StartOpenMoves ==
    ASSUME IInv, NEW j \in Jobs, StartOpen(j)
    PROVE  TypeOK' /\ \E s \in Stages : Moves(j, s)
<1>1. TypeOK'
    BY DEF IInv, TypeOK, StartOpen, Stages
<1>2. Moves(j, "opening")
    BY DEF StartOpen, Stages, Moves, Tells
<1>3. QED
    BY <1>1, <1>2 DEF Stages

LEMMA OpenFailsMoves ==
    ASSUME IInv, NEW j \in Jobs, OpenFails(j)
    PROVE  TypeOK' /\ \E s \in Stages : Moves(j, s)
<1>1. TypeOK'
    BY DeliverType DEF IInv, TypeOK, OpenFails, Stages
<1>2. Moves(j, "over")
    BY DEF OpenFails, Stages, Moves, Tells, Outcomes, Errors
<1>3. QED
    BY <1>1, <1>2 DEF Stages

(* Run, alone or after the steps that come before it. *)
Advances(j, s) ==
    /\ stage' = [stage EXCEPT ![j] = s]
    /\ Tells(j, s)
    /\ leaked' = IF s = "over" THEN leaked \cup {j} ELSE leaked
    /\ phase' \in [Clients -> {"idle", "subscribed", "delay"}]

LEMMA RunAdvances ==
    ASSUME IInv, NEW j \in Jobs, stage[j] # "none", PrioritizeOrRun(j) \/ Run(j)
    PROVE  \E s \in {"prioritizing", "running", "closing", "over"} : Advances(j, s)
<1>1. phase \in [Clients -> {"idle", "subscribed", "delay"}]
    BY DEF IInv, TypeOK
<1>2. ASSUME NEW s, s # "over", stage' = [stage EXCEPT ![j] = s], UNCHANGED <<phase, leaked>>
      PROVE  Advances(j, s)
    BY <1>1, <1>2 DEF Advances, Tells
<1>3. CASE Run(j)
  <2>1. CASE /\ stage' = [stage EXCEPT ![j] = "over"] /\ leaked' = leaked \cup {j}
             /\ Deliver(j, "transient")
    <3>1. Advances(j, "over")
        BY <2>1, DeliverType DEF Advances, Tells, Outcomes, Errors
    <3>2. QED
        BY <3>1
  <2>2. CASE \E s \in {"running", "closing"} :
                stage' = [stage EXCEPT ![j] = s] /\ UNCHANGED <<phase, leaked>>
    BY <1>2, <2>2
  <2>3. QED
    BY <1>3, <2>1, <2>2 DEF Run
<1>4. CASE PrioritizeOrRun(j)
    BY <1>2, <1>3, <1>4 DEF PrioritizeOrRun
<1>5. QED
    BY <1>3, <1>4

LEMMA OpenAdvances ==
    ASSUME IInv, NEW j \in Jobs, OpenSucceeds(j)
    PROVE  \E s \in {"flushing", "prioritizing", "running", "closing", "over"} : Advances(j, s)
<1>1. ASSUME NEW s, s # "over", stage' = [stage EXCEPT ![j] = s], UNCHANGED <<phase, leaked>>
      PROVE  Advances(j, s)
    BY <1>1 DEF Advances, Tells, IInv, TypeOK
<1>2. stage[j] # "none"
    BY DEF OpenSucceeds
<1>3. \/ PrioritizeOrRun(j)
      \/ \E s \in {"flushing", "closing"} :
            stage' = [stage EXCEPT ![j] = s] /\ UNCHANGED <<phase, leaked>>
    BY DEF OpenSucceeds
<1>4. QED
    BY <1>1, <1>2, <1>3, RunAdvances

LEMMA OpenSucceedsMoves ==
    ASSUME IInv, NEW j \in Jobs, OpenSucceeds(j)
    PROVE  TypeOK' /\ \E s \in Stages : Moves(j, s)
<1>1. PICK s \in {"flushing", "prioritizing", "running", "closing", "over"} : Advances(j, s)
    BY OpenAdvances
<1>2. transports' = transports \cup {j} /\ UNCHANGED <<issued, owner, deviceQueues, prev,
          outcome, unsubscribed, finished, attempt>> /\ stage[j] = "opening"
    BY DEF OpenSucceeds
<1>3. needsCleanup' \subseteq TransportIds /\ interrupted' \subseteq Devices /\ taken' \subseteq Devices
    BY DEF OpenSucceeds, IInv, TypeOK
<1>4. TypeOK'
    BY <1>1, <1>2, <1>3 DEF IInv, TypeOK, Stages, Advances
<1>5. Moves(j, s)
    BY <1>1, <1>2 DEF Moves, Advances, Stages
<1>6. QED
    BY <1>4, <1>5 DEF Stages

LEMMA RunMoves ==
    ASSUME IInv, NEW j \in Jobs, FlushSettles(j) \/ PrioritySucceeds(j)
    PROVE  TypeOK' /\ \E s \in Stages : Moves(j, s)
<1>1. PICK s \in {"prioritizing", "running", "closing", "over"} : Advances(j, s)
    BY RunAdvances DEF FlushSettles, PrioritySucceeds
<1>2. stage[j] \in {"flushing", "prioritizing"} /\ UNCHANGED <<issued, owner, deviceQueues,
          prev, outcome, unsubscribed, finished, transports, marks, attempt>>
    BY DEF FlushSettles, PrioritySucceeds
<1>3. TypeOK'
    BY <1>1, <1>2 DEF IInv, TypeOK, Stages, Advances
<1>4. Moves(j, s)
    BY <1>1, <1>2 DEF Moves, Advances, Stages
<1>5. QED
    BY <1>3, <1>4 DEF Stages

LEMMA PriorityFailsMoves ==
    ASSUME IInv, NEW j \in Jobs, PriorityFails(j)
    PROVE  TypeOK' /\ \E s \in Stages : Moves(j, s)
<1>1. TypeOK'
    BY DeliverType DEF IInv, TypeOK, PriorityFails, Stages
<1>2. Moves(j, "over")
    BY DEF PriorityFails, Stages, Moves, Tells, Outcomes, Errors, OpenErrors
<1>3. QED
    BY <1>1, <1>2 DEF Stages

LEMMA JobCompletesMoves ==
    ASSUME IInv, NEW j \in Jobs, JobCompletes(j)
    PROVE  TypeOK' /\ \E s \in Stages : Moves(j, s)
<1>1. TypeOK'
    BY DEF IInv, TypeOK, JobCompletes, Stages, Outcomes
<1>2. Moves(j, "closing")
    BY DEF JobCompletes, Stages, Moves, Tells
<1>3. QED
    BY <1>1, <1>2 DEF Stages

LEMMA JobFailsMoves ==
    ASSUME IInv, NEW j \in Jobs, JobFails(j)
    PROVE  TypeOK' /\ \E s \in Stages : Moves(j, s)
<1>1. needsCleanup' \subseteq TransportIds /\ interrupted' \subseteq Devices /\ taken' \subseteq Devices
    BY DEF JobFails, IInv, TypeOK, Numbering, Teardown, cancelDeviceAction, Device
<1>2. outcome' \in [Jobs -> Outcomes]
    BY DEF JobFails, IInv, TypeOK, initialErrorRemapping, RawErrors, Outcomes, Errors
<1>3. TypeOK'
    BY <1>1, <1>2 DEF IInv, TypeOK, JobFails, Stages
<1>4. Moves(j, "closing")
    BY DEF JobFails, Stages, Moves, Tells
<1>5. QED
    BY <1>3, <1>4 DEF Stages

LEMMA CloseSettlesMoves ==
    ASSUME IInv, NEW j \in Jobs, CloseSettles(j)
    PROVE  TypeOK' /\ \E s \in Stages : Moves(j, s)
<1>1. TypeOK'
    BY DeliverType DEF IInv, TypeOK, CloseSettles, Stages, Outcomes
<1>2. Moves(j, "over")
    BY DEF CloseSettles, Stages, Moves, Tells, IInv, TypeOK
<1>3. QED
    BY <1>1, <1>2 DEF Stages

(* Every step of a job is a move of it. *)
LEMMA JobStepMoves ==
    ASSUME IInv, NEW j \in Jobs, JobStep(j)
    PROVE  TypeOK' /\ \E s \in Stages : Moves(j, s)
BY StartOpenMoves, OpenFailsMoves, OpenSucceedsMoves, RunMoves, PriorityFailsMoves,
   JobCompletesMoves, JobFailsMoves, CloseSettlesMoves DEF JobStep

LEMMA CancelRetryInv ==
    ASSUME IInv, NEW c \in Clients, CancelRetry(c) PROVE IInv'
<1>1. TypeOK' /\ Numbering' /\ Chain' /\ Order'
    BY DEF IInv, TypeOK, Numbering, Chain, Order, SameDevice, Device, CancelRetry
<1>2. Attempts'
    BY DEF IInv, TypeOK, Numbering, Attempts, CancelRetry
<1>3. QED
    BY <1>1, <1>2 DEF IInv

LEMMA StepInv == IInv /\ [Next]_vars => IInv'
<1> SUFFICES ASSUME IInv, [Next]_vars PROVE IInv'
    OBVIOUS
<1>1. CASE \E c \in Clients : ClientStep(c)
    BY <1>1, SubscribeInv, UnsubscribeInv, CancelRetryInv DEF ClientStep, Start, Retry
<1>2. CASE \E j \in Jobs : JobStep(j)
    BY <1>2, JobStepMoves, MoveInv
<1>3. CASE UNCHANGED vars
    BY <1>3 DEF vars, IInv, TypeOK, Numbering, Attempts, Chain, Order, SameDevice, Device
<1>4. QED
    BY <1>1, <1>2, <1>3 DEF Next

LEMMA Invariant == Spec => []IInv
BY InitInv, StepInv, PTL DEF Spec
-----------------------------------------------------------------------------
(* Every variable keeps its type, for any number of subscriptions. *)
THEOREM TypeCorrect == Spec => []TypeOK
<1>1. IInv => TypeOK
    BY DEF IInv
<1>2. QED
    BY <1>1, Invariant, PTL

(* A job has an open transport only while it uses it, unless it leaked it.  *)
Leaks == \A j \in transports \ leaked :
    stage[j] \in {"flushing", "prioritizing", "running", "closing"}

LEMMA LeaksStep == IInv /\ Leaks /\ [Next]_vars => Leaks'
<1> SUFFICES ASSUME IInv, Leaks, [Next]_vars PROVE Leaks'
    OBVIOUS
<1>1. ASSUME NEW c \in Clients, Subscribe(c) PROVE Leaks'
    BY <1>1 DEF Leaks, Subscribe, IInv, TypeOK, Numbering, Jobs
<1>2. ASSUME NEW c \in Clients, Unsubscribe(c) \/ CancelRetry(c) PROVE Leaks'
    BY <1>2 DEF Leaks, Unsubscribe, CancelRetry, IInv, TypeOK
<1>3. ASSUME NEW j \in Jobs, StartOpen(j) \/ OpenFails(j) \/ PriorityFails(j) \/ JobCompletes(j)
                              \/ JobFails(j) \/ CloseSettles(j)
      PROVE  Leaks'
    BY <1>3 DEF Leaks, StartOpen, OpenFails, PriorityFails, JobCompletes, JobFails, CloseSettles,
                IInv, TypeOK
<1>4. ASSUME NEW j \in Jobs, FlushSettles(j) \/ PrioritySucceeds(j) PROVE Leaks'
  <2>1. PICK s \in {"prioritizing", "running", "closing", "over"} : Advances(j, s)
    BY <1>4, RunAdvances DEF FlushSettles, PrioritySucceeds
  <2>2. QED
    BY <1>4, <2>1 DEF Advances, FlushSettles, PrioritySucceeds, Leaks, IInv, TypeOK
<1>5. ASSUME NEW j \in Jobs, OpenSucceeds(j) PROVE Leaks'
  <2>1. PICK s \in {"flushing", "prioritizing", "running", "closing", "over"} : Advances(j, s)
    BY <1>5, OpenAdvances
  <2>2. QED
    BY <1>5, <2>1 DEF Advances, OpenSucceeds, Leaks, IInv, TypeOK
<1>6. CASE UNCHANGED vars
    BY <1>6 DEF vars, Leaks
<1>7. QED
    BY <1>1, <1>2, <1>3, <1>4, <1>5, <1>6 DEF Next, ClientStep, Start, Retry, JobStep

LEMMA LeaksInvariant == Spec => []Leaks
<1>1. Init => Leaks
    BY DEF Init, Leaks
<1>2. QED
    BY <1>1, LeaksStep, Invariant, PTL DEF Spec

(* No two jobs ever use the same device, and no two transports of a device  *)
(* are open unless one was leaked: withDevice is a mutual exclusion,         *)
(* whatever fails and whoever unsubscribes.                                 *)
THEOREM Exclusion == Spec => []DeviceExclusion
<1>1. IInv /\ Leaks => DeviceExclusion
  <2>1. SUFFICES ASSUME IInv, Leaks, NEW i \in Jobs, NEW j \in Jobs, i # j, SameDevice(i, j)
                 PROVE  /\ ~(stage[i] \in UsingDevice /\ stage[j] \in UsingDevice)
                        /\ i \in transports /\ j \in transports => {i, j} \cap leaked # {}
    BY DEF DeviceExclusion
  <2>2. ASSUME stage[i] \in UsingDevice, stage[j] \in UsingDevice PROVE FALSE
    <3>1. SameDevice(j, i)
        BY <2>1 DEF SameDevice
    <3>2. i \in finished \/ j \in finished
        BY <2>1, <2>2, <3>1 DEF IInv, Order, UsingDevice, Jobs
    <3>3. QED
        BY <2>1, <2>2, <3>2 DEF IInv, Order, UsingDevice
  <2>3. QED
    BY <2>1, <2>2 DEF Leaks, UsingDevice
<1>2. QED
    BY <1>1, Invariant, LeaksInvariant, PTL

(* A job never starts for an observer that has left. *)
THEOREM NoLateStart == Spec => NoStartAfterUnsubscribe
<1>1. ASSUME [Next]_vars, NEW j \in Jobs, stage[j] # "running", stage'[j] = "running", IInv
      PROVE  j \notin unsubscribed'
  <2>1. CASE \E c \in Clients : ClientStep(c)
    BY <1>1, <2>1 DEF ClientStep, Start, Retry, Subscribe, Unsubscribe, CancelRetry, IInv, TypeOK
  <2>2. ASSUME NEW k \in Jobs, JobStep(k) PROVE j \notin unsubscribed'
    <3>1. CASE StartOpen(k) \/ OpenFails(k) \/ PriorityFails(k) \/ JobCompletes(k)
               \/ JobFails(k) \/ CloseSettles(k)
        BY <1>1, <3>1 DEF StartOpen, OpenFails, PriorityFails, JobCompletes, JobFails,
                          CloseSettles, IInv, TypeOK
    <3>2. CASE OpenSucceeds(k) \/ FlushSettles(k) \/ PrioritySucceeds(k)
        BY <1>1, <3>2 DEF OpenSucceeds, FlushSettles, PrioritySucceeds, PrioritizeOrRun, Run,
                          IInv, TypeOK
    <3>3. QED
        BY <2>2, <3>1, <3>2 DEF JobStep
  <2>3. CASE UNCHANGED vars
    BY <1>1, <2>3 DEF vars
  <2>4. QED
    BY <1>1, <2>1, <2>2, <2>3 DEF Next
<1>2. IInv /\ [Next]_vars => [\A j \in Jobs :
          stage[j] # "running" /\ stage'[j] = "running" => j \notin unsubscribed']_vars
    BY <1>1
<1>3. QED
    BY <1>2, Invariant, PTL DEF Spec, NoStartAfterUnsubscribe

(* withDevicePolling subscribes again only when its last attempt is over    *)
(* and has closed, or leaked, its transport.                                *)
THEOREM RetryIsSequential == Spec => RetryAfterAttemptIsOver
<1>1. IInv /\ Leaks => \A c \in Clients : phase[c] = "delay" =>
          stage[attempt[c]] = "over" /\ (attempt[c] \in transports => attempt[c] \in leaked)
    BY DEF IInv, Attempts, Leaks
<1>2. IInv /\ Leaks /\ [Next]_vars => [\A c \in Clients :
          phase[c] = "delay" /\ phase'[c] = "subscribed" =>
              /\ stage[attempt[c]] = "over"
              /\ attempt[c] \in transports => attempt[c] \in leaked]_vars
    BY <1>1
<1>3. QED
    BY <1>2, Invariant, LeaksInvariant, PTL DEF Spec, RetryAfterAttemptIsOver
-----------------------------------------------------------------------------
(* A device left in the middle of a series of APDUs stays marked until it   *)
(* is flushed, or another device takes the mark of their common transport    *)
(* id, and no job gets past the flush before that.                          *)
Marked ==
    /\ \A d \in interrupted : TransportId[d] \in needsCleanup \/ d \in taken
    /\ \A j \in Jobs :
          stage[j] \in {"flushing", "prioritizing", "running"} /\ Device(j) \in interrupted =>
              Device(j) \in taken

LEMMA MarkedStep ==
    ASSUME IInv, Marked, [Next]_vars, DeviceExclusion
    PROVE  Marked'
<1>1. ASSUME NEW c \in Clients, Subscribe(c) PROVE Marked'
    BY <1>1 DEF Marked, Subscribe, IInv, TypeOK, Numbering, Device, Jobs
<1>2. ASSUME NEW c \in Clients, CancelRetry(c) PROVE Marked'
    BY <1>2 DEF Marked, CancelRetry, Device
<1>3. ASSUME NEW j \in Jobs, NEW s \in {"closing"}, stage[j] = "running", Teardown(j),
             stage' = [stage EXCEPT ![j] = "closing"], UNCHANGED owner
      PROVE  Marked'
  <2>1. CASE UNCHANGED marks
    BY <1>3, <2>1 DEF Marked, IInv, TypeOK, Device
  <2>2. CASE cancelDeviceAction(j)
    <3>1. \A d \in interrupted' : TransportId[d] \in needsCleanup' \/ d \in taken'
        BY <2>2 DEF Marked, cancelDeviceAction
    <3>2. ASSUME NEW k \in Jobs, stage'[k] \in {"flushing", "prioritizing", "running"},
                 Device(k)' \in interrupted'
          PROVE  Device(k)' \in taken'
      <4>1. k # j /\ stage[k] \in {"flushing", "prioritizing", "running"} /\ Device(k)' = Device(k)
        BY <1>3, <3>2 DEF IInv, TypeOK, Device
      <4>2. ~SameDevice(k, j) /\ owner[k] # Nobody /\ owner[j] # Nobody
        BY <1>3, <4>1 DEF DeviceExclusion, UsingDevice, IInv, TypeOK, Numbering
      <4>3. QED
        BY <2>2, <3>2, <4>1, <4>2 DEF cancelDeviceAction, SameDevice, Marked
    <3>3. QED
        BY <3>1, <3>2 DEF Marked
  <2>3. QED
    BY <1>3, <2>1, <2>2 DEF Teardown
<1>4. ASSUME NEW c \in Clients, Unsubscribe(c) PROVE Marked'
  <2>1. attempt[c] \in Jobs
    BY <1>4 DEF Unsubscribe, IInv, TypeOK, Attempts, Jobs
  <2>2. CASE stage[attempt[c]] = "running"
    BY <1>3, <1>4, <2>1, <2>2 DEF Unsubscribe
  <2>3. CASE stage[attempt[c]] # "running"
    BY <1>4, <2>3 DEF Unsubscribe, Marked, Device
  <2>4. QED
    BY <2>2, <2>3
<1>5. ASSUME NEW j \in Jobs, JobFails(j) PROVE Marked'
    BY <1>3, <1>5 DEF JobFails
<1>6. ASSUME NEW j \in Jobs,
             StartOpen(j) \/ OpenFails(j) \/ PriorityFails(j) \/ JobCompletes(j) \/ CloseSettles(j)
      PROVE  Marked'
    BY <1>6 DEF StartOpen, OpenFails, PriorityFails, JobCompletes, CloseSettles, Marked, Device,
                IInv, TypeOK
<1>7. ASSUME NEW j \in Jobs, FlushSettles(j) \/ PrioritySucceeds(j) PROVE Marked'
  <2>1. PICK s \in {"prioritizing", "running", "closing", "over"} : Advances(j, s)
    BY <1>7, RunAdvances DEF FlushSettles, PrioritySucceeds
  <2>2. QED
    BY <1>7, <2>1 DEF Advances, FlushSettles, PrioritySucceeds, Marked, Device, IInv, TypeOK
<1>8. ASSUME NEW j \in Jobs, OpenSucceeds(j) PROVE Marked'
  <2>1. Device(j) \in Devices /\ interrupted \subseteq Devices /\ stage[j] = "opening"
        /\ UNCHANGED owner /\ stage \in [Jobs -> Stages]
    BY <1>8 DEF OpenSucceeds, IInv, TypeOK, Numbering, Device
  <2>2. CASE TransportId[Device(j)] \in needsCleanup /\ j \notin unsubscribed
    <3> DEFINE id == TransportId[Device(j)]
    <3>1. /\ needsCleanup' = needsCleanup \ {id}
          /\ interrupted' = interrupted \ {Device(j)}
          /\ taken' = (taken \cup {d \in interrupted : TransportId[d] = id}) \ {Device(j)}
          /\ stage' = [stage EXCEPT ![j] = "flushing"]
        BY <1>8, <2>2 DEF OpenSucceeds
    <3>2. \A d \in interrupted' : TransportId[d] \in needsCleanup' \/ d \in taken'
        BY <3>1 DEF Marked
    <3>3. ASSUME NEW k \in Jobs, stage'[k] \in {"flushing", "prioritizing", "running"},
                 Device(k)' \in interrupted'
          PROVE  Device(k)' \in taken'
      <4>1. Device(k)' = Device(k) /\ Device(k) # Device(j) /\ Device(k) \in interrupted
        BY <2>1, <3>1, <3>3 DEF Device
      <4>2. stage[k] \in {"flushing", "prioritizing", "running"}
        BY <2>1, <3>1, <3>3, <4>1
      <4>3. QED
        BY <3>1, <4>1, <4>2 DEF Marked
    <3>4. QED
        BY <3>2, <3>3 DEF Marked
  <2>3. CASE TransportId[Device(j)] \notin needsCleanup \/ j \in unsubscribed
    <3>1. UNCHANGED marks
        BY <1>8, <2>3 DEF OpenSucceeds
    <3>2. CASE j \in unsubscribed
        BY <1>8, <2>1, <3>1, <3>2 DEF OpenSucceeds, Marked, Device
    <3>3. CASE j \notin unsubscribed
      <4>1. PrioritizeOrRun(j) /\ (Device(j) \in interrupted => Device(j) \in taken)
        BY <1>8, <2>3, <3>3 DEF OpenSucceeds, Marked
      <4>2. PICK s \in {"prioritizing", "running", "closing", "over"} : Advances(j, s)
        BY <2>1, <4>1, RunAdvances
      <4>3. QED
        BY <2>1, <3>1, <4>1, <4>2 DEF Advances, Marked, Device
    <3>4. QED
        BY <3>2, <3>3
  <2>4. QED
    BY <2>2, <2>3
<1>9. CASE UNCHANGED vars
    BY <1>9 DEF vars, Marked, Device
<1>10. QED
    BY <1>1, <1>2, <1>4, <1>5, <1>6, <1>7, <1>8, <1>9
       DEF Next, ClientStep, Start, Retry, JobStep

(* Whatever ids the transports have, a job runs on a device that was left   *)
(* in the middle of a series of APDUs only if another device of the same     *)
(* transport id has taken the mark.                                         *)
THEOREM CleanStart == Spec => []JobStartsClean
<1>1. Init => Marked
    BY DEF Init, Marked
<1>2. IInv /\ DeviceExclusion /\ Marked /\ [Next]_vars => Marked'
    BY MarkedStep
<1>3. Marked => JobStartsClean
    BY DEF Marked, JobStartsClean
<1>4. QED
    BY <1>1, <1>2, <1>3, Invariant, Exclusion, PTL DEF Spec
-----------------------------------------------------------------------------
LEMMA QueueInit == Init => Queue!Init
BY DEF Init, Queue!Init, Queue!Jobs, Jobs, QueueDevice, QueueAccess

(* Two jobs of the mapped queue that asked for the same device. *)
LEMMA SameQueueDevice ==
    ASSUME NEW i \in Jobs, NEW j \in Jobs, owner[j] # Nobody,
           owner \in [Jobs -> Clients \cup {Nobody}], QueueDevice[i] = QueueDevice[j]
    PROVE  SameDevice(i, j)
BY DEF QueueDevice, SameDevice, Device

(* A move of job j is an Acquire, a GiveBack, or nothing for the queue. *)
LEMMA MoveRefines ==
    ASSUME IInv, IInv', NEW j \in Jobs, NEW s \in Stages, Moves(j, s)
    PROVE  Queue!Next \/ UNCHANGED Queue!vars
<1>1. UNCHANGED QueueDevice /\ owner[j] # Nobody
    BY DEF Moves, QueueDevice, Device, IInv, TypeOK, Numbering
<1>2. j \notin finished
    BY DEF Moves, IInv, Order
<1>3. CASE stage[j] = "queued"
  <2>1. s = "opening" /\ finished' = finished /\ stage'[j] = "opening"
    BY <1>3 DEF Moves, IInv, TypeOK
  <2>2. QueueAccess[j] = "waiting" /\ QueueAccess' = [QueueAccess EXCEPT ![j] = "holding"]
    <3>1. stage' = [stage EXCEPT ![j] = "opening"] /\ stage \in [Jobs -> Stages]
        BY <2>1 DEF Moves, IInv, TypeOK
    <3>2. \A k \in Jobs \ {j} : QueueAccess'[k] = QueueAccess[k]
        BY <2>1, <3>1 DEF QueueAccess
    <3>3. QueueAccess[j] = "waiting" /\ QueueAccess'[j] = "holding"
        BY <1>2, <1>3, <2>1 DEF QueueAccess
    <3>4. QED
        BY <3>2, <3>3 DEF QueueAccess
  <2>3. ASSUME NEW i \in Jobs, QueueDevice[i] = QueueDevice[j]
        PROVE  IF i < j THEN QueueAccess[i] = "done" ELSE QueueAccess[i] = "waiting"
    <3>1. SameDevice(i, j) /\ SameDevice(j, i)
        BY <1>1, <2>3, SameQueueDevice DEF SameDevice, IInv, TypeOK
    <3>2. CASE i < j
      <4>1. SameDevice(i, j)'
        BY <3>1 DEF SameDevice, Device, Moves
      <4>2. i \in finished
        BY <2>1, <3>2, <4>1 DEF IInv, Order
      <4>3. QED
        BY <3>2, <4>2 DEF QueueAccess, IInv, Order
    <3>3. CASE j < i
      <4>1. stage[i] = "queued"
        BY <1>2, <3>1, <3>3 DEF IInv, TypeOK, Order, Numbering, SameDevice, Jobs
      <4>2. QED
        BY <3>3, <4>1 DEF QueueAccess, Jobs
    <3>4. CASE i = j
        BY <2>2, <3>4 DEF Jobs
    <3>5. QED
        BY <3>2, <3>3, <3>4 DEF Jobs
  <2>4. Queue!Acquire(j)
    BY <1>1, <2>2, <2>3 DEF Queue!Acquire, Queue!Jobs, Jobs
  <2>5. QED
    BY <2>4 DEF Queue!Next, Queue!Jobs, Jobs
<1>4. CASE stage[j] # "queued" /\ finished' = finished
  <2>1. UNCHANGED QueueAccess
    BY <1>2, <1>4 DEF Moves, QueueAccess, IInv, TypeOK
  <2>2. QED
    BY <1>1, <2>1 DEF Queue!vars
<1>5. CASE stage[j] # "queued" /\ finished' # finished
  <2>1. s = "over" /\ finished' = finished \cup {j}
    BY <1>5 DEF Moves
  <2>2. QueueAccess[j] = "holding" /\ QueueAccess' = [QueueAccess EXCEPT ![j] = "done"]
    BY <1>2, <1>5, <2>1 DEF Moves, QueueAccess, IInv, TypeOK
  <2>3. Queue!GiveBack(j)
    BY <1>1, <2>2 DEF Queue!GiveBack
  <2>4. QED
    BY <2>3 DEF Queue!Next, Queue!Jobs, Jobs
<1>6. QED
    BY <1>3, <1>4, <1>5

LEMMA SubscribeRefines ==
    ASSUME IInv, NEW c \in Clients, Subscribe(c)
    PROVE  Queue!Next
<1>1. PICK n \in Jobs : n = issued + 1
    BY DEF IInv, TypeOK, Subscribe, Jobs
<1>2. owner' = [owner EXCEPT ![n] = c] /\ stage' = [stage EXCEPT ![n] = "queued"]
      /\ finished' = finished
    BY <1>1 DEF Subscribe
<1>3. stage[n] = "none" /\ \A i \in Jobs : i < n => stage[i] # "none"
    BY <1>1 DEF IInv, TypeOK, Numbering, Jobs
<1>4. QueueAccess' = [QueueAccess EXCEPT ![n] = "waiting"]
    BY <1>2, <1>3 DEF QueueAccess, IInv, TypeOK
<1>5. QueueDevice' = [QueueDevice EXCEPT ![n] = Target[c]]
    BY <1>2 DEF QueueDevice, Device, IInv, TypeOK
<1>6. QueueAccess[n] = "idle" /\ \A i \in Jobs : i < n => QueueAccess[i] # "idle"
    BY <1>3 DEF QueueAccess
<1>7. Queue!Ask(n, Target[c]) /\ Target[c] \in Devices
    BY <1>4, <1>5, <1>6 DEF Queue!Ask, Queue!Jobs, Jobs
<1>8. QED
    BY <1>7 DEF Queue!Next, Queue!Jobs, Jobs

LEMMA StepRefines ==
    ASSUME IInv, IInv', [Next]_vars
    PROVE  [Queue!Next]_(Queue!vars)
<1>1. CASE \E j \in Jobs : JobStep(j)
    BY <1>1, JobStepMoves, MoveRefines
<1>2. ASSUME NEW c \in Clients, Start(c) \/ Retry(c) PROVE Queue!Next
    BY <1>2, SubscribeRefines DEF Start, Retry
<1>3. ASSUME NEW c \in Clients, Unsubscribe(c) \/ CancelRetry(c) PROVE UNCHANGED Queue!vars
  <2>1. UNCHANGED QueueDevice
    BY <1>3 DEF Unsubscribe, CancelRetry, QueueDevice, Device
  <2>2. UNCHANGED finished /\ (UNCHANGED stage \/ \E j \in Jobs :
            stage[j] = "running" /\ stage' = [stage EXCEPT ![j] = "closing"])
    BY <1>3 DEF Unsubscribe, CancelRetry, IInv, Attempts, TypeOK, Jobs
  <2>3. UNCHANGED QueueAccess
    BY <2>2 DEF QueueAccess, IInv, TypeOK
  <2>4. QED
    BY <2>1, <2>3 DEF Queue!vars
<1>4. CASE UNCHANGED vars
    BY <1>4 DEF vars, Queue!vars, QueueDevice, QueueAccess, Device
<1>5. QED
    BY <1>1, <1>2, <1>3, <1>4 DEF Next, ClientStep

(* withDevice implements the abstract queue of exclusive accesses: first    *)
(* come, first served, one at a time.                                       *)
THEOREM Refinement == Spec => ImplementsAccessQueue
BY QueueInit, StepRefines, Invariant, PTL DEF Spec, Queue!Spec, ImplementsAccessQueue
=============================================================================
