------------------------------ MODULE AccessQueue ------------------------------
(***************************************************************************)
(* What withDevice promises, and no more: the jobs of a device hold it one *)
(* at a time, in the order in which they asked for it, and a job that is   *)
(* given the device keeps it until it gives it back.                       *)
(***************************************************************************)
EXTENDS Naturals

CONSTANTS
    Devices,
    Nowhere,    \* not a device: that of a job that has not asked for any
    MaxJobs     \* bound: the number of jobs of a behaviour

Jobs == 1..MaxJobs

VARIABLES
    device,     \* the device each job asked for
    access      \* "idle", "waiting", "holding" or "done"

vars == <<device, access>>

Init ==
    /\ device = [j \in Jobs |-> Nowhere]
    /\ access = [j \in Jobs |-> "idle"]

(* Job j asks for device d: jobs are numbered in the order they ask. *)
Ask(j, d) ==
    /\ access[j] = "idle"
    /\ \A i \in Jobs : i < j => access[i] # "idle"
    /\ device' = [device EXCEPT ![j] = d]
    /\ access' = [access EXCEPT ![j] = "waiting"]

(* Job j is given its device: all the jobs that asked for it before j, and  *)
(* only those, have held it and given it back.                              *)
Acquire(j) ==
    /\ access[j] = "waiting"
    /\ \A i \in Jobs : device[i] = device[j] =>
          IF i < j THEN access[i] = "done" ELSE access[i] = "waiting"
    /\ access' = [access EXCEPT ![j] = "holding"]
    /\ UNCHANGED device

GiveBack(j) ==
    /\ access[j] = "holding"
    /\ access' = [access EXCEPT ![j] = "done"]
    /\ UNCHANGED device

Next ==
    \E j \in Jobs :
        \/ \E d \in Devices : Ask(j, d)
        \/ Acquire(j)
        \/ GiveBack(j)

Spec == Init /\ [][Next]_vars
=============================================================================
