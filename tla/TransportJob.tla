------------------------------ MODULE TransportJob ------------------------------
(***************************************************************************)
(* What DeviceAccess takes a job to be, once it uses the transport: it     *)
(* ends once, and it may leave the device marked for a flush only when it  *)
(* fails or is left by its observer, in the very step that ends it.        *)
(***************************************************************************)

VARIABLES
    job,     \* "running", "complete", "failed" or "left"
    marked   \* cancelDeviceAction has been called

vars == <<job, marked>>

Init == job = "running" /\ marked = FALSE

Complete == job = "running" /\ job' = "complete" /\ UNCHANGED marked

Fail == job = "running" /\ job' = "failed" /\ marked' \in BOOLEAN

Leave == job = "running" /\ job' = "left" /\ marked' \in BOOLEAN

Next == Complete \/ Fail \/ Leave

Spec == Init /\ [][Next]_vars
=============================================================================
