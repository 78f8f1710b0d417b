------------------------------- MODULE ConnectApp -------------------------------
(* The screen that waits for an app to be open on the device: the command of *)
(* src/src/hw/connectApp.js, which looks once at the device and tries to      *)
(* bring it there, and src/src/hw/actions/app.js, which runs it on the events *)
(* of the device (desktop) or by polling (mobile), reduces its events to a    *)
(* state and shows that state once it is stable.                              *)
(* Time is abstract: a timer fires at any time, but what a command emitted is *)
(* shown before the next poll, as both wait 2 s, and a disconnect timer lives *)
(* 5 s, so at most DisconnectTimers polls fall in its life. There is one      *)
(* device, and its apps are up to date or not installed.                      *)
EXTENDS Naturals

CONSTANTS
    Modes,      \* implementations that may be in use: "event", "polling"
    Wishes,     \* sets of "dependencies", "firmware", "derivation" a request may hold
    InitialDevices,
    MaxMoves,   \* bound on what the device does by itself
    MaxRetries  \* bound on onRetry

ASSUME ConstantsAssumption ==
    /\ Modes \subseteq {"event", "polling"}
    /\ Wishes \subseteq SUBSET {"dependencies", "firmware", "derivation"}
    /\ MaxMoves \in Nat /\ MaxRetries \in Nat

VARIABLES
    mode, wish,         \* chosen once: currentMode, what the request asks for
    dev,                \* external: the device
    pollingOnDevice,    \* polling: a device was selected
    deviceEvent,        \* event: a value of deviceSubject waits for its debounce
    cmd,                \* the run of connectApp, if any
    resolved,           \* dependenciesResolvedRef, latestFirmwareResolvedRef
    failed,             \* history: apps whose last installation failed
    initT, disconnectT, \* polling: the timers are held by their variable
    stale,              \* polling: armed disconnect timers that no variable holds
    device,             \* polling: the local of this name is set
    ui,                 \* accumulator of scan(reducer)
    debounced,          \* whose event made the state that waits to be shown
    shown,              \* the React state
    listening,          \* the effect is subscribed
    moves, retries

known == <<resolved, failed>>
timers == <<initT, disconnectT, stale>>
screen == <<ui, debounced, shown, listening>>
vars == <<mode, wish, dev, pollingOnDevice, deviceEvent, cmd, known, timers,
          device, screen, moves, retries>>

(* Opened with the name of the app, or with the address only.                *)
Opened == {"opened", "openedByAddress"}
Final == Opened \cup {"missing", "error"}
Screens == Final \cup {"waiting", "ask", "granted", "installing"}

(***************************************************************************)
(* "opening"   open(deviceId) is pending                                   *)
(* "version"   getAppAndVersion       "latest"  getLatestFirmwareForDevice *)
(* "firmware"  getDeviceInfo          "quit"    quitApp                    *)
(* "install"   getDeviceInfo, then the list of what is installed           *)
(* "listed"    the rest of listApps   "run"     runAllWithProgress         *)
(* "open"      openApp                "derive"  getAddress                 *)
(* "fallback"  getAddress, with no appAndVersion                           *)
(***************************************************************************)
Stages == {"opening", "version", "firmware", "latest", "install", "listed", "run",
           "open", "quit", "derive", "fallback"}

Apps == {"app", "dependency"}
DisconnectTimers == 3

Uis == [screen : Screens, device : BOOLEAN]

(* dependencies, firmware: the arguments of innerSub. lost: its transport is *)
(* gone. catches: the catchErrors of innerSub it is still in. plan: what it   *)
(* has still to install.                                                      *)
Runs == [stage : Stages, dependencies : BOOLEAN, firmware : BOOLEAN, lost : BOOLEAN,
         catches : 0..2, plan : SUBSET Apps]

NoRun == [stage |-> "none"]

(* app: what is on the screen of the device; "locked" is the right app on a  *)
(* locked device. has: what is installed. old: no getAppAndVersion. quits:    *)
(* getAppAndVersion tells that the apps support quitApp.                      *)
Devices == [here : BOOLEAN, app : {"dashboard", "right", "locked", "wrong"},
            has : SUBSET Apps, latest : BOOLEAN, old : BOOLEAN,
            quits : BOOLEAN]

ASSUME DevicesAssumption == InitialDevices \subseteq Devices

TypeOK ==
    /\ mode \in Modes /\ wish \in Wishes /\ dev \in Devices
    /\ pollingOnDevice \in BOOLEAN /\ deviceEvent \in BOOLEAN
    /\ cmd \in Runs \cup {NoRun}
    /\ resolved \subseteq {"dependencies", "firmware"} /\ failed \subseteq Apps
    /\ initT \in BOOLEAN /\ disconnectT \in BOOLEAN /\ stale \in 0..DisconnectTimers
    /\ device \in BOOLEAN /\ ui \in Uis /\ shown \in Uis
    /\ debounced \in {"no", "command", "timer"} /\ listening \in BOOLEAN
    /\ moves \in 0..MaxMoves /\ retries \in 0..MaxRetries

(* Nothing is known of the device until a deviceChange.                      *)
getInitialState == [screen |-> "waiting", device |-> FALSE]

Init ==
    /\ mode \in Modes /\ wish \in Wishes
    /\ dev \in {d \in InitialDevices : "app" \notin d.has => d.app \in {"dashboard", "wrong"}}
    /\ pollingOnDevice \in (IF mode = "polling" THEN BOOLEAN ELSE {FALSE})
    /\ deviceEvent = (mode = "event")
    /\ cmd = NoRun /\ resolved = {} /\ failed = {}
    /\ initT = (mode = "polling") /\ disconnectT = FALSE /\ stale = 0
    /\ device = FALSE /\ ui = getInitialState /\ shown = getInitialState
    /\ debounced = "no" /\ listening = TRUE
    /\ moves = 0 /\ retries = 0
-----------------------------------------------------------------------------
(* An error or a disconnection forgets the device, the other events keep it; *)
(* the events that only set a flag of the state leave its screen.             *)
reducer(u, e) ==
    CASE e = "disconnected" -> getInitialState
      [] e = "error" -> [screen |-> "error", device |-> FALSE]
      [] e \in {"unresponsiveDevice", "listing-apps", "dependencies-resolved",
                "latest-firmware-resolved"} -> u
      [] OTHER -> [u EXCEPT !.screen = e]

deviceChange(d) == [screen |-> "waiting", device |-> d]

(* A state that grants the opening is shown at once, another one waits.      *)
Reach(u, by) ==
    /\ ui' = u
    /\ IF u.screen \in {"granted", "installing"}
       THEN shown' = u /\ debounced' = "no"
       ELSE shown' = shown /\ debounced' = by
    /\ UNCHANGED listening

(* The subscriber of connectApp in polling. A device that was given up is    *)
(* announced again by any event. disconnectT is set to null before it is      *)
(* cleared: nothing can clear the timer it held. Repeated events, which       *)
(* distinctUntilChanged drops, would not change the state.                    *)
next(e) ==
    /\ initT' = FALSE
    /\ stale' = stale + (IF disconnectT THEN 1 ELSE 0)
    /\ disconnectT' = (e = "disconnected")
    /\ IF e \in {"unresponsiveDevice", "disconnected"}
       THEN UNCHANGED <<device, screen>>
       ELSE /\ device' = TRUE
            /\ Reach(reducer(IF device THEN ui ELSE deviceChange(TRUE), e), "command")

(* The command emits e and goes on as run; it is over when run is NoRun.     *)
Emit(e, run) ==
    /\ cmd' = run
    /\ IF mode = "polling"
       THEN next(e)
       ELSE Reach(reducer(ui, e), "command") /\ UNCHANGED <<timers, device>>

(* A run of the command, on a transport that is still to be opened.          *)
run(dependencies, firmware) ==
    [stage |-> "opening", dependencies |-> dependencies, firmware |-> firmware,
     lost |-> FALSE, catches |-> 1, plan |-> {}]

(* Mutant: what was resolved is asked again. *)
connectApp_Forgets == run("dependencies" \in wish, "firmware" \in wish)

connectApp == run("dependencies" \in wish \ resolved, "firmware" \in wish \ resolved)

Goto(stage) == [cmd EXCEPT !.stage = stage]

(* The run goes on without an event.                                         *)
GoOn(r) == cmd' = r /\ UNCHANGED <<timers, device, screen>>

(* innerSub({ appName }): another look, without the two arguments.           *)
nested == [cmd EXCEPT !.stage = "version", !.dependencies = FALSE, !.firmware = FALSE,
                      !.catches = 2]
-----------------------------------------------------------------------------
still == <<mode, wish, pollingOnDevice, moves, retries>>

At(stage) == listening /\ cmd.stage = stage /\ ~cmd.lost

(* The device restarts in an app, which a listener of its events hears.      *)
Restart(app) ==
    /\ dev' = [dev EXCEPT !.app = app]
    /\ deviceEvent' = (mode = "event")

(* open(deviceId): the device is there, or the error is CantOpenDevice.      *)
Open ==
    /\ At("opening")
    /\ IF dev.here THEN GoOn(Goto("version")) ELSE Emit("error", NoRun)
    /\ UNCHANGED <<still, dev, deviceEvent, known>>

(* Mutant: any app but the wrong one is good enough. *)
needsDashboard_NameOnly == dev.app = "wrong"

(* getAppAndVersion answers.                                                 *)
needsDashboard == cmd.dependencies \/ cmd.firmware \/ dev.app = "wrong"

attemptToQuitApp == IF dev.quits THEN GoOn(Goto("quit")) ELSE Emit("ask", NoRun)

Version ==
    /\ At("version") /\ ~dev.old
    /\ IF dev.app = "dashboard"
       THEN CASE cmd.firmware -> GoOn(Goto("firmware"))
              [] ~cmd.firmware /\ cmd.dependencies -> Emit("listing-apps", Goto("install"))
              [] OTHER -> Emit("ask", Goto("open"))
       ELSE CASE needsDashboard -> attemptToQuitApp
              [] ~needsDashboard /\ "derivation" \in wish -> GoOn(Goto("derive"))
              [] OTHER -> Emit("opened", NoRun)
    /\ UNCHANGED <<still, dev, deviceEvent, known>>

(* An exchange is refused with 0x6e00 or 0x6d00, whichever it is, and not    *)
(* only by a device without getAppAndVersion: the old way tells what is open  *)
(* by the address it gives. What fails there is left to the catch of the      *)
(* innerSub this one is nested in, if any.                                    *)
OldVersion ==
    /\ \/ At("version") /\ dev.old
       \/ At("firmware") \/ At("install") \/ At("open") \/ At("quit")
       \/ (At("derive") \/ At("fallback")) /\ dev.app # "right"
    /\ cmd.catches > 0
    /\ IF "derivation" \in wish
       THEN GoOn([Goto("fallback") EXCEPT !.catches = cmd.catches - 1])
       ELSE Emit("error", NoRun)
    /\ UNCHANGED <<still, dev, deviceEvent, known>>

DeviceInfo ==
    /\ At("firmware")
    /\ GoOn(Goto("latest"))
    /\ UNCHANGED <<still, dev, deviceEvent, known>>

(* getLatestFirmwareForDevice answers, with or without the device.           *)
Firmware ==
    /\ listening /\ cmd.stage = "latest"
    /\ IF dev.latest
       THEN /\ resolved' = resolved \cup {"firmware"}
            /\ Emit("latest-firmware-resolved", nested)
       ELSE Emit("error", NoRun) /\ UNCHANGED resolved
    /\ UNCHANGED <<still, dev, deviceEvent, failed>>

(* listApps asks for the permission to list the apps.                        *)
Permission ==
    /\ At("install")
    /\ \E e \in {"ask", "granted"} : Emit(e, cmd)
    /\ UNCHANGED <<still, dev, deviceEvent, known>>

listApps ==
    /\ At("install")
    /\ GoOn(Goto("listed"))
    /\ UNCHANGED <<still, dev, deviceEvent, known>>

missing == (IF cmd.dependencies THEN Apps ELSE {"app"}) \ dev.has

(* Something is missing: it is installed, or there is no room for it.        *)
StreamAppInstall ==
    /\ listening /\ cmd.stage = "listed"
    /\ missing # {}
    /\ GoOn([Goto("run") EXCEPT !.plan = missing]) \/ Emit("missing", NoRun)
    /\ UNCHANGED <<still, dev, deviceEvent, known>>

(* One operation of the plan ends. A failure, or a transport that is gone, is *)
(* a value like another: the next operations are run all the same. The        *)
(* progress, which is 1 from the first failure on, is told when it changes.   *)
runAppOp(name) ==
    /\ \/ /\ ~cmd.lost
          /\ dev' = [dev EXCEPT !.has = dev.has \cup {name}]
          /\ failed' = failed \ {name}
       \/ failed' = failed \cup {name} /\ UNCHANGED dev
    /\ LET after == [cmd EXCEPT !.plan = cmd.plan \ {name}]
       IN Emit("installing", after) \/ (failed # {} /\ GoOn(after))

RunAppOp ==
    /\ listening /\ cmd.stage = "run"
    /\ \E name \in cmd.plan : runAppOp(name)
    /\ UNCHANGED <<still, deviceEvent, resolved>>

(* The progress of the operation that runs.                                  *)
Progress ==
    /\ At("run") /\ cmd.plan # {}
    /\ Emit("installing", cmd)
    /\ UNCHANGED <<still, dev, deviceEvent, known>>

(* onSuccessObs, at the end of the plan, whatever its operations gave, or if *)
(* there was nothing to do: look again, or open the app.                      *)
OnSuccess ==
    /\ listening
    /\ \/ cmd.stage = "run" /\ cmd.plan = {}
       \/ cmd.stage = "listed" /\ missing = {}
    /\ IF cmd.dependencies
       THEN /\ resolved' = resolved \cup {"dependencies"}
            /\ Emit("dependencies-resolved", nested)
       ELSE Emit("ask", Goto("open")) /\ UNCHANGED resolved
    /\ UNCHANGED <<still, dev, deviceEvent, failed>>

(* openApp: the user accepts, or the app is not there.                       *)
OpenApp ==
    /\ At("open")
    /\ IF "app" \in dev.has
       THEN Emit("granted", NoRun) /\ Restart("right")
       ELSE Emit("listing-apps", Goto("install")) /\ UNCHANGED <<dev, deviceEvent>>
    /\ UNCHANGED <<still, known>>

QuitApp ==
    /\ At("quit")
    /\ Emit("disconnected", NoRun) /\ Restart("dashboard")
    /\ UNCHANGED <<still, known>>

(* getAddress: an app that is not the right one, or is locked, refuses. The  *)
(* old way does not tell which app it would quit.                             *)
Derivation ==
    /\ \/ /\ At("derive")
          /\ IF dev.app = "right" THEN Emit("opened", NoRun)
             ELSE Emit("ask", NoRun) \/ attemptToQuitApp
       \/ /\ At("fallback")
          /\ Emit(IF dev.app = "right" THEN "openedByAddress" ELSE "ask", NoRun)
    /\ UNCHANGED <<still, dev, deviceEvent, known>>

(* The transport is lost under an exchange, those of the plan excepted.      *)
Disconnected ==
    /\ listening /\ cmd # NoRun /\ cmd.lost
    /\ cmd.stage \notin {"latest", "listed", "run"}
    /\ Emit(IF cmd.catches > 0 THEN "disconnected" ELSE "error", NoRun)
    /\ UNCHANGED <<still, dev, deviceEvent, known>>

(* Any other failure: a refusal, an app to update, the network, a transport  *)
(* that does not open and, in polling, 20 s without an event. The failures of *)
(* the operations of the plan are not among them.                             *)
Fail ==
    /\ listening /\ cmd # NoRun
    /\ cmd.stage = "run" => mode = "polling"
    /\ Emit("error", NoRun)
    /\ UNCHANGED <<still, dev, deviceEvent, known>>

(* 1 s has passed without an answer to getAppAndVersion.                     *)
Unresponsive ==
    /\ listening
    /\ \/ cmd.stage = "version" /\ cmd.catches = 1
       \/ cmd.stage = "fallback" /\ dev.old
    /\ Emit("unresponsiveDevice", cmd)
    /\ UNCHANGED <<still, dev, deviceEvent, known>>
-----------------------------------------------------------------------------
(* Polling: initT, then the oldest of the disconnect timers; its callback    *)
(* sets disconnectT to null whichever timer that variable holds.              *)
InitTimeout ==
    /\ listening /\ initT
    /\ initT' = FALSE /\ device' = FALSE
    /\ Reach(deviceChange(FALSE), "timer")
    /\ UNCHANGED <<still, dev, deviceEvent, cmd, known, disconnectT, stale>>

armed == stale + (IF disconnectT THEN 1 ELSE 0)

(* Mutant: the local device is kept. *)
DisconnectTimeout_KeepsDevice ==
    /\ listening /\ armed > 0
    /\ stale' = armed - 1 /\ disconnectT' = FALSE
    /\ Reach(reducer(ui, "disconnected"), "timer")
    /\ UNCHANGED <<still, dev, deviceEvent, cmd, known, initT, device>>

DisconnectTimeout ==
    /\ listening /\ armed > 0
    /\ stale' = armed - 1 /\ disconnectT' = FALSE
    /\ device' = FALSE
    /\ Reach(reducer(ui, "disconnected"), "timer")
    /\ UNCHANGED <<still, dev, deviceEvent, cmd, known, initT>>

loop ==
    /\ mode = "polling" /\ listening /\ cmd = NoRun /\ pollingOnDevice
    /\ debounced # "command" /\ armed < DisconnectTimers
    /\ cmd' = connectApp
    /\ UNCHANGED <<still, dev, deviceEvent, known, timers, device, screen>>

(* Event: the last value of deviceSubject replaces the run by a new one.     *)
DeviceChange ==
    /\ mode = "event" /\ listening /\ deviceEvent
    /\ deviceEvent' = FALSE
    /\ Reach(deviceChange(dev.here), "command")
    /\ cmd' = IF dev.here THEN connectApp ELSE NoRun
    /\ UNCHANGED <<still, dev, known, timers, device>>

(* Mutant: only an error ends. *)
Ends_Errors(s) == s = "error"

(* takeWhile, or the clean-up of the effect when the app is opened.          *)
Ends(s) == s \in Final

(* The debounced state is shown; a final one ends the subscription.          *)
Show ==
    /\ listening /\ debounced # "no"
    /\ shown' = ui /\ debounced' = "no"
    /\ IF Ends(ui.screen)
       THEN /\ listening' = FALSE /\ ui' = getInitialState
            /\ cmd' = NoRun /\ deviceEvent' = FALSE /\ device' = FALSE
            /\ initT' = FALSE /\ disconnectT' = FALSE /\ stale' = 0
       ELSE UNCHANGED <<listening, ui, cmd, deviceEvent, device, timers>>
    /\ UNCHANGED <<still, dev, known>>

(* The effect runs again. What was resolved of the firmware stays.           *)
onRetry ==
    /\ retries < MaxRetries
    /\ retries' = retries + 1
    /\ resolved' = resolved \ {"dependencies"} /\ failed' = {}
    /\ listening' = TRUE /\ ui' = getInitialState /\ shown' = getInitialState
    /\ debounced' = "no" /\ cmd' = NoRun
    /\ deviceEvent' = (mode = "event") /\ initT' = (mode = "polling")
    /\ disconnectT' = FALSE /\ stale' = 0 /\ device' = FALSE
    /\ UNCHANGED <<mode, wish, dev, pollingOnDevice, moves>>

(* External: the device is plugged or unplugged, its user switches apps or   *)
(* unlocks it. A transport does not survive, but for the lock.                *)
Move ==
    /\ moves < MaxMoves
    /\ moves' = moves + 1
    /\ \E d \in Devices :
         /\ dev' = d
         /\ \/ d = [dev EXCEPT !.here = ~dev.here]
            \/ /\ dev.here /\ d = [dev EXCEPT !.app = d.app] /\ d.app # dev.app
               /\ d.app \in {"right", "locked"} => "app" \in dev.has
         /\ LET restarts == ~(d.here /\ dev.here /\ {d.app, dev.app} = {"right", "locked"})
            IN /\ cmd' = IF cmd # NoRun /\ cmd.stage # "opening" /\ restarts
                         THEN [cmd EXCEPT !.lost = TRUE] ELSE cmd
               /\ deviceEvent' = (deviceEvent \/ (mode = "event" /\ listening /\ restarts))
    /\ UNCHANGED <<mode, wish, pollingOnDevice, known, timers, device, screen, retries>>

Select ==
    /\ mode = "polling" /\ ~pollingOnDevice
    /\ pollingOnDevice' = TRUE
    /\ UNCHANGED <<mode, wish, dev, deviceEvent, cmd, known, timers, device, screen,
                   moves, retries>>

Exchange ==
    \/ Open \/ Version \/ OldVersion \/ DeviceInfo \/ Firmware
    \/ listApps \/ StreamAppInstall \/ RunAppOp \/ OnSuccess
    \/ OpenApp \/ QuitApp \/ Derivation \/ Disconnected

Next ==
    \/ Exchange \/ Permission \/ Progress \/ Fail \/ Unresponsive
    \/ InitTimeout \/ DisconnectTimeout \/ loop \/ DeviceChange \/ Show
    \/ onRetry \/ Move \/ Select

Spec == Init /\ [][Next]_vars

(* A device that is there answers and its user decides; timers fire.         *)
FairSpec ==
    /\ Spec
    /\ WF_vars(Exchange) /\ WF_vars(Show) /\ WF_vars(loop) /\ WF_vars(DeviceChange)
    /\ WF_vars(InitTimeout) /\ WF_vars(DisconnectTimeout)
-----------------------------------------------------------------------------
(* What the request asks for is there; a dependency is missing only if its    *)
(* installation failed, as the command takes the end of the operations for    *)
(* their success.                                                             *)
Earned ==
    /\ "firmware" \in wish => dev.latest
    /\ "dependencies" \in wish => "dependency" \in dev.has \cup failed

(* The app is not said to be open before what the request asks for is there, *)
(* over any number of runs of the command that each forget or remember what   *)
(* the others resolved. The old way, by the address only, checks nothing.     *)
OpenedIsEarned == shown.screen = "opened" => Earned

(* What is opened is opened on a device: mapResult gives a result, although  *)
(* errors and disconnections forget the device and only polling's local       *)
(* variable tells whether it must be announced again.                         *)
OpenedHasDevice == shown.screen \in Opened => shown.device

(* An error, or the list of the missing apps, stays on the screen until the  *)
(* user retries, whatever polling or the device do.                           *)
EndStays == [][shown.screen \in Final => retries' # retries]_shown

(* When the app is and stays open and what was asked is resolved, the screen *)
(* ends: it says so, or tells an error. On the events of the device, only if  *)
(* it was not locked: nothing announces that it is unlocked.                  *)
Ready ==
    /\ dev.here /\ dev.app = "right" /\ (mode = "polling" => pollingOnDevice)
    /\ wish \ {"derivation"} \subseteq resolved

Settles ==
    <>[]Ready /\ [](mode = "event" => dev.app # "locked") => <>[](shown.screen \in Final)

(* "any connect app event unschedule the disconnect debounced event".        *)
DisconnectIsUnscheduled == stale = 0

(* "After an error we can't guarantee dependencies are resolved" (app.js:560): *)
(* so the ref that says they are is reset by a retry, and true only if they    *)
(* are. False: an error of the installation itself sets it.                   *)
DependenciesAreResolved == "dependencies" \in resolved => dev.has = Apps
=============================================================================
