------------------------------ MODULE AppsManager ------------------------------
(***************************************************************************)
(* The manager of a device's applications: the reducer of AppsLogic, the   *)
(* runner (src/src/apps/runner.js) and the React hook that runs one        *)
(* planned operation after the other (useAppsRunner, src/src/apps/         *)
(* react.js), with a user who acts at any time and a device that refuses   *)
(* what its dependencies forbid.                                           *)
(*                                                                         *)
(* The effect that runs an operation is a passive one: it runs some time   *)
(* after the render that scheduled it, and at the latest when the next     *)
(* action is dispatched, after that action.                                *)
(***************************************************************************)
EXTENDS AppsLogic

CONSTANTS
    InitialOrders,  \* orders in which a device may list its applications
    Restores,       \* values of appsToRestore
    MaxActions      \* bound: the number of actions of the user

ASSUME InitialAssumption ==
    /\ \A o \in InitialOrders : o \in Seq(Apps) /\ IsInjective(o) /\ ToSet(o) = Apps
    /\ Restores \subseteq Seq(Apps)

ASSUME BoundAssumption == MaxActions \in Nat

VARIABLES
    state,    \* the state of the reducer
    effect,   \* the operation a rendered effect is about to run, or NoOp
    device,   \* what is on the device: "absent", "outdated" or "updated"
    actions,  \* number of actions of the user
    disturbed \* history: what has disturbed the current plan (see PlanIsAccepted)

vars == <<state, effect, device, actions, disturbed>>

OnDevice == {a \in Apps : device[a] # "absent"}

(* A device holds no application without its dependencies. *)
Closed(S) == \A a \in S : DepsOf(a) \subseteq S

Idle == state.currentAppOp = NoOp /\ effect = NoOp

(* What may spoil a plan: an action of the user while it is under way, or   *)
(* an installation next to up to date applications that depend on outdated  *)
(* ones. Applications to restore are installed one after the other, and the *)
(* second cancels the removal of an outdated dependency the first planned.  *)
Mixed(s) ==
    \E d \in s.outdated : Dependents(d) \cap (ToSet(s.installed) \ s.outdated) # {}

Disturbance(action) ==
    {x \in {"user"} : ~Idle} \cup {x \in {"mixed"} : action.type = "install" /\ Mixed(state)}

(* A plan is over once nothing is scheduled: so is what disturbed it, but a *)
(* lost answer.                                                             *)
DisturbedBy(d) ==
    disturbed' = IF effect' = NoOp /\ state'.currentAppOp = NoOp
                 THEN (disturbed \cup d) \cap {"lost"} ELSE disturbed \cup d
-----------------------------------------------------------------------------
(* Rendering the state s: with no operation under way, the next one is      *)
(* scheduled.                                                               *)
Render(s) ==
    /\ state' = s
    /\ effect' = IF s.currentAppOp = NoOp THEN getNextAppOp(s) ELSE NoOp

(* runAppOp up to its first wait: an application that is not in the catalog *)
(* is over at once, the device untouched.                                   *)
Started(s, op) ==
    IF op.name \in Known THEN runStart(s, op) ELSE runSuccess(runStart(s, op), op)

Init ==
    \E order \in InitialOrders, restore \in Restores :
      /\ device \in [Apps -> {"absent", "outdated", "updated"}]
      /\ Closed(OnDevice)
      /\ \A a \in Unknown : device[a] # "updated"
      /\ state = initState(Among(order, OnDevice),
                           {a \in Apps : device[a] = "outdated"}, restore)
      /\ effect = getNextAppOp(state)
      /\ actions = 0
      /\ disturbed = {x \in {"mixed"} : effect # NoOp /\ state.outdated # {}}

(* An action of the user. It is queued before the pending effect runs, and  *)
(* the effect runs before the action is rendered.                           *)
Dispatch(action) ==
    /\ actions < MaxActions
    /\ actions' = actions + 1
    /\ Render(IF effect = NoOp THEN reducer(state, action)
              ELSE Started(reducer(state, action), effect))
    /\ DisturbedBy(Disturbance(action))
    /\ UNCHANGED device

RunEffect ==
    /\ effect # NoOp
    /\ UNCHANGED <<device, actions>>
    /\ Render(Started(state, effect))
    /\ DisturbedBy({})
-----------------------------------------------------------------------------
(* The device, external. It refuses what installApp, uninstallApp and the   *)
(* manager's API report as ManagerAppAlreadyInstalledError,                 *)
(* ManagerAppDepInstallRequired and ManagerAppDepUninstallRequired.         *)
Accepts(op) ==
    IF op.type = "install"
    THEN op.name \notin OnDevice /\ Deps[op.name] \subseteq OnDevice
    ELSE Dependents(op.name) \cap OnDevice = {}

DoneBy(op) ==
    [device EXCEPT ![op.name] = IF op.type = "install" THEN "updated" ELSE "absent"]

OpSucceeds ==
    LET op == state.currentAppOp IN
    /\ op # NoOp
    /\ Accepts(op)
    /\ UNCHANGED actions
    /\ device' = DoneBy(op)
    /\ Render(runSuccess(state, op))
    /\ DisturbedBy({})

(* The device refuses, or the transport or the network fails: the last      *)
(* answer may be lost after the device has done the operation.              *)
OpFails ==
    LET op == state.currentAppOp IN
    /\ op # NoOp
    /\ UNCHANGED actions
    /\ Render(runError(state, op))
    /\ \/ UNCHANGED device /\ DisturbedBy({})
       \/ Accepts(op) /\ device' = DoneBy(op) /\ DisturbedBy({"lost"})

Next ==
    \/ \E action \in UserActions : Dispatch(action)
    \/ RunEffect
    \/ OpSucceeds
    \/ OpFails

(* Every operation ends: exec has timeouts of its own; effects are run by   *)
(* React. The user does not have to act.                                    *)
Spec == Init /\ [][Next]_vars

FairSpec == Spec /\ WF_vars(RunEffect) /\ WF_vars(OpFails \/ OpSucceeds)
-----------------------------------------------------------------------------
TypeOK ==
    /\ state \in States
    /\ effect \in Ops \cup {NoOp}
    /\ device \in [Apps -> {"absent", "outdated", "updated"}]
    /\ actions \in 0..MaxActions
    /\ disturbed \subseteq {"user", "mixed", "lost"}

InOrder(queue) ==
    /\ IsInjective(queue)
    /\ \A i, j \in 1..Len(queue) : queue[i] \in DepsOf(queue[j]) => i < j

(* In the queues each application is once; a dependency is installed before *)
(* its dependents, and uninstalled after them.                              *)
QueuesInOrder == InOrder(state.installQueue) /\ InOrder(Reverse(state.uninstallQueue))

(* When nothing runs and nothing is about to, nothing is planned: no        *)
(* operation is forgotten and no "update all" looks unfinished.             *)
NothingIsForgotten ==
    Idle => /\ getActionPlan(state) = <<>>
            /\ state.updateAllQueue = <<>>

(* As long as no answer is lost, the manager knows what is on the device    *)
(* and in which version, but for the applications it does not recognise.    *)
MirrorsDevice ==
    "lost" \notin disturbed =>
      /\ ToSet(state.installed) \cap Known = OnDevice \cap Known
      /\ state.outdated \cap Known = {a \in Known : device[a] = "outdated"}

Predicted(s) == ToSet(predictOptimisticState(s).installed)

(* The end of an operation that is still the next of the plan changes       *)
(* nothing to what is predicted for the end of the plan.                    *)
PredictionIsStable ==
    [][state.currentAppOp # NoOp /\ state'.currentAppOp = NoOp
         /\ state'.currentError = NoOp
         /\ state.currentAppOp = getNextAppOp(state)
       => Predicted(state') = Predicted(state)]_vars

(* The plan made for one action of an idle manager leaves the device with   *)
(* what the user asked for, and with no application without what it needs.  *)
PlansAreSound ==
    [][Idle /\ Closed(ToSet(state.installed)) /\ actions' # actions =>
         /\ Closed(Predicted(state'))
         /\ \A a \in Known : state' = install(state, a) => a \in Predicted(state')
         /\ \A a \in Apps, force \in BOOLEAN :
              state' = uninstall(state, a, force) => a \notin Predicted(state')]_vars

(* The device refuses no operation of a plan that nothing has disturbed,    *)
(* and no application is installed next to an outdated dependency.          *)
PlanIsAccepted ==
    LET op == state.currentAppOp IN
    op # NoOp /\ disturbed = {} =>
      /\ Accepts(op)
      /\ op.type = "install" => \A d \in Deps[op.name] : device[d] = "updated"

(* Whatever the user asked for, the runner comes to an end. *)
RunnerDrains == []<>Idle

=============================================================================
