--------------------------- MODULE ConnectAppProofs ---------------------------
(***************************************************************************)
(* Proofs about ConnectApp, for both implementations, any request and any  *)
(* number of moves of the device and of retries.                           *)
(***************************************************************************)
EXTENDS ConnectApp, TLAPS

Events == Screens \cup {"disconnected", "unresponsiveDevice", "listing-apps",
                        "dependencies-resolved", "latest-firmware-resolved"}

(* A poll starts with a place left for the timer it may set.                 *)
TimersFew ==
    /\ stale \in Nat /\ armed <= DisconnectTimers
    /\ cmd # NoRun => armed < DisconnectTimers

PollingTimers == mode # "polling" => ~initT /\ armed = 0

(* What a ref holds as resolved is so on the device, or failed to be.        *)
ResolvedIsTrue ==
    /\ "dependencies" \in resolved => "dependency" \in dev.has \cup failed
    /\ "firmware" \in resolved => dev.latest

(* The stages that a run reaches from the dashboard, which cannot be left    *)
(* without losing the transport.                                              *)
FromDashboard == {"firmware", "latest", "install", "listed", "run", "open"}

(* A run keeps in its plan the dependency that was neither installed nor     *)
(* tried. One that no longer asks for what is not resolved is on the          *)
(* dashboard; it goes on to derive only once all is resolved.                 *)
Checked(r) ==
    /\ r.stage = "run" /\ r.dependencies => "dependency" \in dev.has \cup failed \cup r.plan
    /\ ~r.lost =>
        /\ r.stage = "opening" \/ (r.stage = "version" /\ dev.app # "dashboard") =>
             /\ "dependencies" \in wish \ resolved => r.dependencies
             /\ "firmware" \in wish \ resolved => r.firmware
        /\ r.stage \in FromDashboard => dev.app = "dashboard"
        /\ r.stage = "derive" => wish \cap {"dependencies", "firmware"} \subseteq resolved

RunIsChecked == cmd # NoRun => Checked(cmd)

OpenedEarned == (ui.screen = "opened" => Earned) /\ (shown.screen = "opened" => Earned)

(* The local device of polling agrees with the state, but when an error was  *)
(* just emitted, which is shown before anything else is.                      *)
DeviceIsKnown ==
    /\ ui.screen \in Opened => ui.device
    /\ shown.screen \in Opened => shown.device
    /\ mode = "polling" /\ listening /\ device /\ ~ui.device =>
         cmd = NoRun /\ debounced = "command" /\ ui.screen = "error"
    /\ mode = "event" /\ cmd # NoRun => ui.device

(* Nothing is shown after the end.                                           *)
Ended == shown.screen \in Final => ~listening

IInv ==
    /\ TypeOK
    /\ TimersFew /\ ResolvedIsTrue /\ RunIsChecked
    /\ PollingTimers /\ OpenedEarned /\ DeviceIsKnown /\ Ended

(* The part of IInv that an event of a run can disturb.                      *)
Display ==
    /\ cmd \in Runs \cup {NoRun} /\ listening \in BOOLEAN
    /\ initT \in BOOLEAN /\ disconnectT \in BOOLEAN /\ stale \in 0..DisconnectTimers
    /\ device \in BOOLEAN /\ ui \in Uis /\ shown \in Uis
    /\ debounced \in {"no", "command", "timer"}
    /\ TimersFew /\ PollingTimers /\ OpenedEarned /\ DeviceIsKnown /\ Ended

USE ConstantsAssumption, DevicesAssumption

LEMMA ReducerType ==
    ASSUME NEW u \in Uis, NEW e \in Events
    PROVE  /\ reducer(u, e) \in Uis
           /\ reducer(u, e).screen = "opened" => e = "opened" \/ u.screen = "opened"
           /\ ~reducer(u, e).device =>
                ~u.device \/ e = "disconnected" \/ (e = "error" /\ reducer(u, e).screen = "error")
           /\ reducer(u, e).screen \in Opened /\ ~reducer(u, e).device => ~u.device
  BY DEF reducer, Uis, Events, Screens, Final, Opened, getInitialState

(* Installing more, or failing to, only earns more.                          *)
Monotone ==
    /\ dev' \in Devices /\ dev'.latest = dev.latest /\ failed' \subseteq Apps
    /\ dev.has \cup failed \subseteq dev'.has \cup failed'

LEMMA EarnedStays == ASSUME Monotone, wish' = wish, Earned PROVE Earned'
  BY DEF Monotone, Earned

(* What an event of a run does to the timers and to the screen.              *)
LEMMA EmitInv ==
    ASSUME IInv, listening, cmd # NoRun, NEW e \in Events, NEW r \in Runs \cup {NoRun},
           Emit(e, r), mode' = mode, wish' = wish, Monotone,
           r # NoRun => e \notin {"error", "disconnected"},
           e = "opened" => Earned
    PROVE  cmd' = r /\ Display'
<1> DEFINE from == IF mode = "polling" /\ ~device THEN deviceChange(TRUE) ELSE ui
           u == reducer(from, e)
<1>0. /\ mode \in {"event", "polling"} /\ ui \in Uis /\ shown \in Uis
      /\ cmd' = r /\ debounced \in {"no", "command", "timer"}
  BY DEF IInv, TypeOK, Emit
<1>1. from \in Uis /\ (from.screen = "opened" => from = ui) /\ from.device
  <2>1. deviceChange(TRUE) \in Uis /\ deviceChange(TRUE).screen = "waiting"
        /\ deviceChange(TRUE).device
    BY DEF deviceChange, Uis, Screens, Final, Opened
  <2>2. mode = "polling" /\ device => ui.device
    BY DEF IInv, DeviceIsKnown
  <2>3. mode = "event" => ui.device
    BY DEF IInv, DeviceIsKnown
  <2> QED
    BY <1>0, <2>1, <2>2, <2>3
<1>2. /\ u \in Uis
      /\ u.screen = "opened" => e = "opened" \/ ui.screen = "opened"
      /\ ~u.device => e = "disconnected" \/ (e = "error" /\ u.screen = "error")
      /\ u.screen \in Opened => u.device
  BY <1>1, ReducerType
<1>3. Earned => Earned'
  BY EarnedStays
<1>5. u.screen = "opened" => Earned'
  BY <1>2, <1>3 DEF IInv, OpenedEarned
<1>6. shown.screen \notin Final
  BY DEF IInv, Ended
<1>10. cmd' \in Runs \cup {NoRun} /\ listening \in BOOLEAN
  BY <1>0 DEF IInv, TypeOK
<1>7. CASE /\ ui' = ui /\ shown' = shown /\ debounced' = debounced /\ listening' = listening
           /\ mode = "polling" /\ device' = device /\ next(e)
           /\ e \in {"unresponsiveDevice", "disconnected"}
  <2>1. /\ initT' = FALSE /\ disconnectT' = (e = "disconnected") /\ stale' = armed
    BY <1>7 DEF next, armed
  <2>2. disconnectT' \in BOOLEAN
    BY <2>1
  <2>3. TimersFew' /\ stale' \in 0..DisconnectTimers
    <3>1. armed \in Nat /\ armed < DisconnectTimers
      BY DEF IInv, TimersFew, armed
    <3>2. r # NoRun => ~disconnectT'
      BY <2>1
    <3>3. armed' = stale' + (IF disconnectT' THEN 1 ELSE 0)
      BY DEF armed
    <3> QED
      BY <1>0, <2>1, <2>2, <3>1, <3>2, <3>3 DEF TimersFew, DisconnectTimers
  <2>4. OpenedEarned'
    BY <1>3, <1>7 DEF IInv, OpenedEarned
  <2>5. DeviceIsKnown'
    BY <1>7 DEF IInv, DeviceIsKnown
  <2>6. Ended'
    BY <1>6, <1>7 DEF Ended
  <2>7. device' \in BOOLEAN
    BY <1>7 DEF IInv, TypeOK
  <2> QED
    BY <1>0, <1>7, <1>10, <2>1, <2>2, <2>3, <2>4, <2>5, <2>6, <2>7 DEF Display, PollingTimers
<1>8. CASE mode = "polling" /\ next(e) /\ e \notin {"unresponsiveDevice", "disconnected"}
  <2>1. /\ initT' = FALSE /\ disconnectT' = FALSE /\ stale' = armed /\ device' = TRUE
        /\ Reach(u, "command")
    BY <1>8 DEF next, armed
  <2>2. /\ ui' = u /\ listening' = listening
        /\ \/ u.screen \in {"granted", "installing"} /\ shown' = u /\ debounced' = "no"
           \/ u.screen \notin {"granted", "installing"} /\ shown' = shown /\ debounced' = "command"
    BY <2>1 DEF Reach
  <2>3. TimersFew' /\ stale' \in 0..DisconnectTimers
    <3>1. armed \in Nat /\ armed < DisconnectTimers
      BY DEF IInv, TimersFew, armed
    <3>3. armed' = stale'
      BY <2>1 DEF armed
    <3> QED
      BY <2>1, <3>1, <3>3 DEF TimersFew, DisconnectTimers
  <2>4. OpenedEarned'
    BY <1>3, <1>5, <2>2 DEF IInv, OpenedEarned
  <2>5. DeviceIsKnown'
    BY <1>0, <1>2, <1>8, <2>2 DEF IInv, DeviceIsKnown
  <2>6. Ended'
    BY <1>6, <2>2 DEF Ended, Final, Opened
  <2>7. PollingTimers'
    BY <1>8 DEF PollingTimers
  <2> QED
    BY <1>0, <1>2, <1>10, <2>1, <2>2, <2>3, <2>4, <2>5, <2>6, <2>7 DEF Display
<1>9. CASE mode = "event" /\ Reach(u, "command") /\ UNCHANGED <<timers, device>>
  <2>2. /\ ui' = u /\ listening' = listening
        /\ \/ u.screen \in {"granted", "installing"} /\ shown' = u /\ debounced' = "no"
           \/ u.screen \notin {"granted", "installing"} /\ shown' = shown /\ debounced' = "command"
    BY <1>9 DEF Reach
  <2>3. TimersFew'
    BY <1>9 DEF IInv, TimersFew, armed, timers
  <2>4. OpenedEarned'
    BY <1>3, <1>5, <2>2 DEF IInv, OpenedEarned
  <2>5. DeviceIsKnown'
    BY <1>0, <1>2, <1>9, <2>2 DEF IInv, DeviceIsKnown
  <2>6. Ended'
    BY <1>6, <2>2 DEF Ended, Final, Opened
  <2> QED
    BY <1>0, <1>2, <1>9, <1>10, <2>2, <2>3, <2>4, <2>5, <2>6 DEF IInv, TypeOK, timers, Display, PollingTimers, armed
<1> QED
  BY <1>0, <1>7, <1>8, <1>9 DEF Emit, next, screen, Display

(* What stays when a run moves on without an event.                          *)
LEMMA QuietInv ==
    ASSUME IInv, cmd # NoRun, NEW r \in Runs, GoOn(r), mode' = mode, wish' = wish, Monotone
    PROVE  cmd' = r /\ Display'
<1>1. TimersFew'
  BY DEF IInv, TimersFew, armed, timers, GoOn
<1>2. OpenedEarned'
  BY EarnedStays DEF IInv, OpenedEarned, screen, GoOn
<1>3. DeviceIsKnown' /\ Ended'
  BY DEF IInv, DeviceIsKnown, Ended, screen, GoOn
<1> QED
  BY <1>1, <1>2, <1>3 DEF IInv, TypeOK, timers, screen, Display, PollingTimers, armed, GoOn

LEMMA Initial == Init => IInv
<1> SUFFICES ASSUME Init PROVE IInv
  OBVIOUS
<1>1. TypeOK
  <2>1. dev \in Devices /\ pollingOnDevice \in BOOLEAN /\ cmd \in Runs \cup {NoRun}
    BY DEF Init
  <2>2. getInitialState \in Uis
    BY DEF getInitialState, Uis, Screens
  <2>3. deviceEvent \in BOOLEAN /\ initT \in BOOLEAN
    BY DEF Init
  <2>4. 0 \in 0..DisconnectTimers /\ 0 \in 0..MaxMoves /\ 0 \in 0..MaxRetries
    BY DEF DisconnectTimers
  <2> QED
    BY <2>1, <2>2, <2>3, <2>4, Zenon DEF Init, TypeOK
<1>2. TimersFew
  BY DEF Init, TimersFew, armed, DisconnectTimers
<1>3. ResolvedIsTrue /\ RunIsChecked
  BY DEF Init, ResolvedIsTrue, RunIsChecked
<1>4. OpenedEarned /\ DeviceIsKnown /\ Ended
  BY DEF Init, OpenedEarned, DeviceIsKnown, Ended, getInitialState, Final, Opened
<1>5. PollingTimers
  <2>1. mode # "polling" => ~initT
    BY DEF Init
  <2>2. armed = 0
    BY DEF Init, armed
  <2> QED
    BY <2>1, <2>2 DEF PollingTimers
<1> QED
  BY <1>1, <1>2, <1>3, <1>4, <1>5 DEF IInv

(* Putting a step together: the display, then what the run knows.            *)
LEMMA Together ==
    ASSUME IInv, Display', UNCHANGED still, dev' \in Devices, deviceEvent' \in BOOLEAN,
           resolved' \subseteq {"dependencies", "firmware"}, failed' \subseteq Apps,
           ResolvedIsTrue', RunIsChecked'
    PROVE  IInv'
  BY DEF IInv, TypeOK, still, Display

(* A run that moves on keeps its arguments.                                  *)
LEMMA GotoType ==
    ASSUME cmd \in Runs, NEW stage \in Stages
    PROVE  /\ Goto(stage) \in Runs /\ Goto(stage) # NoRun
           /\ Goto(stage).stage = stage /\ Goto(stage).lost = cmd.lost
           /\ Goto(stage).dependencies = cmd.dependencies /\ Goto(stage).firmware = cmd.firmware
  BY DEF Goto, Runs, NoRun, Stages

LEMMA RunIsLive ==
    ASSUME IInv, NEW stage \in Stages, cmd.stage = stage
    PROVE  cmd \in Runs /\ cmd # NoRun /\ Checked(cmd)
  BY DEF IInv, TypeOK, NoRun, Stages, RunIsChecked

(* A step that leaves the device alone.                                      *)
LEMMA Still ==
    ASSUME IInv, UNCHANGED <<still, dev, deviceEvent, known>>
    PROVE  /\ Monotone /\ mode' = mode /\ wish' = wish /\ ResolvedIsTrue'
           /\ dev' \in Devices /\ deviceEvent' \in BOOLEAN /\ failed' \subseteq Apps
           /\ resolved' \subseteq {"dependencies", "firmware"}
  BY DEF Monotone, IInv, TypeOK, still, known, ResolvedIsTrue

(* An event that ends its run, whatever the event.                           *)
LEMMA EndInv ==
    ASSUME IInv, listening, cmd # NoRun, NEW e \in Events, Emit(e, NoRun),
           UNCHANGED <<still, dev, deviceEvent, known>>,
           e = "opened" => Earned
    PROVE  IInv'
<1>1. cmd' = NoRun /\ Display'
  BY Still, EmitInv
<1>2. RunIsChecked'
  BY <1>1 DEF RunIsChecked
<1> QED
  BY <1>1, <1>2, Still, Together

LEMMA CheckedStays ==
    ASSUME NEW r \in Runs, Checked(r), cmd' = r, UNCHANGED <<still, dev, known>>
    PROVE  RunIsChecked'
  BY DEF RunIsChecked, Checked, still, known

(* An event after which the run goes on as r.                                *)
LEMMA EmitRun ==
    ASSUME IInv, listening, cmd # NoRun, NEW r \in Runs, Checked(r),
           NEW e \in Events \ {"error", "disconnected", "opened"}, Emit(e, r),
           UNCHANGED <<still, dev, deviceEvent, known>>
    PROVE  IInv'
<1>1. cmd' = r /\ Display'
  BY Still, EmitInv
<1> QED
  BY <1>1, CheckedStays, Still, Together

(* The run goes on as r without an event.                                    *)
LEMMA QuietRun ==
    ASSUME IInv, cmd # NoRun, NEW r \in Runs, Checked(r), GoOn(r),
           UNCHANGED <<still, dev, deviceEvent, known>>
    PROVE  IInv'
<1>1. cmd' = r /\ Display'
  BY Still, QuietInv
<1> QED
  BY <1>1, CheckedStays, Still, Together

(* What the next stage of a run must know.                                   *)
LEMMA GotoChecked ==
    ASSUME cmd \in Runs, NEW stage \in Stages \ {"opening", "version", "run"},
           stage \in FromDashboard => cmd.lost \/ dev.app = "dashboard",
           stage = "derive" => wish \cap {"dependencies", "firmware"} \subseteq resolved
    PROVE  Goto(stage) \in Runs /\ Checked(Goto(stage))
  BY GotoType DEF Checked

(* A run on the dashboard, or that lost its transport there.                 *)
LEMMA OnDashboard ==
    ASSUME IInv, NEW stage \in FromDashboard, cmd.stage = stage
    PROVE  cmd \in Runs /\ cmd # NoRun /\ Checked(cmd) /\ (cmd.lost \/ dev.app = "dashboard")
<1>1. stage \in Stages
  BY DEF FromDashboard, Stages
<1> QED
  BY <1>1, RunIsLive DEF Checked

-----------------------------------------------------------------------------
LEMMA OpenInv == ASSUME IInv, Open PROVE IInv'
<1>1. /\ cmd \in Runs /\ cmd # NoRun /\ listening /\ Checked(cmd) /\ cmd.stage = "opening"
      /\ ~cmd.lost /\ UNCHANGED <<still, dev, deviceEvent, known>>
  BY RunIsLive DEF Open, At, Stages
<1>2. CASE dev.here
  <2>1. "version" \in Stages
    BY DEF Stages
  <2>2. Goto("version") \in Runs /\ Checked(Goto("version"))
    BY <1>1, <2>1, GotoType DEF Checked, FromDashboard
  <2> QED
    BY <1>1, <1>2, <2>2, QuietRun DEF Open
<1>3. CASE ~dev.here
  <2>1. "error" \in Events
    BY DEF Events, Screens, Final
  <2> QED
    BY <1>1, <1>3, <2>1, EndInv DEF Open
<1> QED
  BY <1>2, <1>3

(* attemptToQuitApp, for a run that found an app it must leave.              *)
LEMMA QuitInv ==
    ASSUME IInv, listening, cmd \in Runs, attemptToQuitApp,
           UNCHANGED <<still, dev, deviceEvent, known>>
    PROVE  IInv'
<1>1. cmd # NoRun /\ "ask" \in Events
  BY DEF Runs, NoRun, Stages, Events, Screens
<1>2. Goto("quit") \in Runs /\ Checked(Goto("quit"))
  BY GotoChecked DEF Stages, FromDashboard
<1>3. GoOn(Goto("quit")) \/ Emit("ask", NoRun)
  BY DEF attemptToQuitApp
<1> QED
  BY <1>1, <1>2, <1>3, EndInv, QuietRun

LEMMA VersionInv == ASSUME IInv, Version PROVE IInv'
<1>1. /\ cmd \in Runs /\ cmd # NoRun /\ listening /\ Checked(cmd) /\ cmd.stage = "version"
      /\ ~cmd.lost /\ UNCHANGED <<still, dev, deviceEvent, known>>
  BY RunIsLive DEF Version, At, Stages
<1>2. CASE dev.app = "dashboard"
  <2>1. \A stage \in {"firmware", "install", "open"} :
           Goto(stage) \in Runs /\ Checked(Goto(stage))
    BY <1>1, <1>2, GotoChecked DEF Stages
  <2>2. {"listing-apps", "ask"} \subseteq Events \ {"error", "disconnected", "opened"}
    BY DEF Events, Screens
  <2>3. \/ GoOn(Goto("firmware"))
        \/ Emit("listing-apps", Goto("install"))
        \/ Emit("ask", Goto("open"))
    BY <1>2 DEF Version
  <2>4. CASE GoOn(Goto("firmware"))
    BY <1>1, <2>1, <2>4, QuietRun
  <2>5. CASE Emit("listing-apps", Goto("install"))
    BY <1>1, <2>1, <2>2, <2>5, EmitRun
  <2>6. CASE Emit("ask", Goto("open"))
    BY <1>1, <2>1, <2>2, <2>6, EmitRun
  <2> QED
    BY <2>3, <2>4, <2>5, <2>6
<1>5. CASE dev.app # "dashboard" /\ needsDashboard
  <2>1. attemptToQuitApp
    BY <1>5 DEF Version
  <2> QED
    BY <1>1, <2>1, QuitInv
<1>6. ASSUME dev.app # "dashboard", ~needsDashboard
      PROVE  wish \cap {"dependencies", "firmware"} \subseteq resolved /\ Earned
  <2>1. ~cmd.dependencies /\ ~cmd.firmware
    BY <1>6 DEF needsDashboard
  <2>2. "dependencies" \notin wish \ resolved /\ "firmware" \notin wish \ resolved
    BY <1>1, <1>6, <2>1 DEF Checked
  <2> QED
    BY <2>2 DEF IInv, ResolvedIsTrue, Earned
<1>7. CASE dev.app # "dashboard" /\ ~needsDashboard /\ "derivation" \in wish
  <2>1. GoOn(Goto("derive"))
    BY <1>7 DEF Version
  <2>2. Goto("derive") \in Runs /\ Checked(Goto("derive"))
    BY <1>1, <1>6, <1>7, GotoChecked DEF Stages, FromDashboard
  <2> QED
    BY <1>1, <2>1, <2>2, QuietRun
<1>8. CASE dev.app # "dashboard" /\ ~needsDashboard /\ "derivation" \notin wish
  <2>1. Emit("opened", NoRun) /\ "opened" \in Events
    BY <1>8 DEF Version, Events, Screens, Final, Opened
  <2> QED
    BY <1>1, <1>6, <1>8, <2>1, EndInv
<1> QED
  BY <1>2, <1>5, <1>7, <1>8

(* The fallback keeps nothing of what a run has checked, and claims nothing. *)
LEMMA OldVersionInv == ASSUME IInv, OldVersion PROVE IInv'
<1>1. /\ cmd \in Runs /\ cmd # NoRun /\ listening /\ UNCHANGED <<still, dev, deviceEvent, known>>
      /\ cmd.catches > 0
  BY RunIsLive DEF OldVersion, At, Stages
<1>2. CASE "derivation" \in wish
  <2> DEFINE r == [Goto("fallback") EXCEPT !.catches = cmd.catches - 1]
  <2>1. GoOn(r)
    BY <1>2 DEF OldVersion
  <2>2. r \in Runs /\ r.stage = "fallback"
    <3>1. Goto("fallback") \in Runs /\ Goto("fallback").stage = "fallback"
      BY <1>1, GotoType DEF Stages
    <3>2. cmd.catches - 1 \in 0..2
      BY <1>1 DEF Runs
    <3> QED
      BY <3>1, <3>2 DEF Runs
  <2>3. Checked(r)
    BY <2>2 DEF Checked, FromDashboard
  <2> HIDE DEF r
  <2> QED
    BY <1>1, <2>1, <2>2, <2>3, QuietRun
<1>3. CASE "derivation" \notin wish
  <2>1. Emit("error", NoRun) /\ "error" \in Events
    BY <1>3 DEF OldVersion, Events, Screens, Final
  <2> QED
    BY <1>1, <2>1, EndInv
<1> QED
  BY <1>2, <1>3

LEMMA DeviceInfoInv == ASSUME IInv, DeviceInfo PROVE IInv'
<1>1. /\ cmd.stage = "firmware" /\ GoOn(Goto("latest"))
      /\ UNCHANGED <<still, dev, deviceEvent, known>>
  BY DEF DeviceInfo, At
<1>2. cmd \in Runs /\ cmd # NoRun /\ (cmd.lost \/ dev.app = "dashboard")
  BY <1>1, OnDashboard DEF FromDashboard
<1>3. Goto("latest") \in Runs /\ Checked(Goto("latest"))
  BY <1>2, GotoChecked DEF Stages
<1> QED
  BY <1>1, <1>2, <1>3, QuietRun

(* The nested innerSub, which asks for nothing, starts on the dashboard.     *)
LEMMA NestedInv ==
    ASSUME IInv, listening, cmd \in Runs, cmd # NoRun, cmd.lost \/ dev.app = "dashboard",
           NEW e \in {"latest-firmware-resolved", "dependencies-resolved"}, Emit(e, nested),
           UNCHANGED <<still, dev, deviceEvent, failed>>,
           resolved' \subseteq {"dependencies", "firmware"}, ResolvedIsTrue'
    PROVE  IInv'
<1>1. Monotone /\ mode' = mode /\ wish' = wish
  BY DEF Monotone, IInv, TypeOK, still
<1>2. nested \in Runs /\ nested # NoRun /\ nested.stage = "version" /\ nested.lost = cmd.lost
  <2>1. "version" \in Stages /\ FALSE \in BOOLEAN /\ 2 \in 0..2
    BY DEF Stages
  <2>2. nested \in Runs /\ nested.stage = "version" /\ nested.lost = cmd.lost
    BY <2>1 DEF nested, Runs
  <2> QED
    BY <2>1, <2>2 DEF NoRun, Stages
<1>3. e \in Events /\ e \notin {"error", "disconnected", "opened"}
  BY DEF Events
<1>4. cmd' = nested /\ Display'
  BY <1>1, <1>2, <1>3, EmitInv
<1>5. RunIsChecked'
  BY <1>2, <1>4 DEF RunIsChecked, Checked, FromDashboard
<1> QED
  BY <1>4, <1>5, Together DEF IInv, TypeOK

LEMMA FirmwareInv == ASSUME IInv, Firmware PROVE IInv'
<1>1. /\ listening /\ cmd.stage = "latest" /\ UNCHANGED <<still, dev, deviceEvent, failed>>
      /\ cmd \in Runs /\ cmd # NoRun /\ (cmd.lost \/ dev.app = "dashboard")
  BY OnDashboard DEF Firmware, FromDashboard
<1>2. CASE dev.latest
  <2>1. /\ resolved' = resolved \cup {"firmware"}
        /\ Emit("latest-firmware-resolved", nested)
    BY <1>2 DEF Firmware
  <2>2. ResolvedIsTrue' /\ resolved' \subseteq {"dependencies", "firmware"}
    BY <1>1, <1>2, <2>1 DEF IInv, TypeOK, ResolvedIsTrue
  <2> QED
    BY <1>1, <2>1, <2>2, NestedInv
<1>3. CASE ~dev.latest
  <2>1. Emit("error", NoRun) /\ "error" \in Events /\ UNCHANGED known
    BY <1>1, <1>3 DEF Firmware, Events, Screens, Final, known
  <2> QED
    BY <1>1, <2>1, EndInv
<1> QED
  BY <1>2, <1>3

LEMMA PermissionInv == ASSUME IInv, Permission PROVE IInv'
<1>1. PICK e \in {"ask", "granted"} : Emit(e, cmd)
  BY DEF Permission
<1>2. /\ cmd \in Runs /\ cmd # NoRun /\ Checked(cmd) /\ listening
      /\ UNCHANGED <<still, dev, deviceEvent, known>>
  BY RunIsLive DEF Permission, At, Stages
<1>3. e \in Events \ {"error", "disconnected", "opened"}
  BY DEF Events, Screens
<1> QED
  BY <1>1, <1>2, <1>3, EmitRun

LEMMA ListAppsInv == ASSUME IInv, listApps PROVE IInv'
<1>1. /\ cmd.stage = "install" /\ GoOn(Goto("listed"))
      /\ UNCHANGED <<still, dev, deviceEvent, known>>
  BY DEF listApps, At
<1>2. cmd \in Runs /\ cmd # NoRun /\ (cmd.lost \/ dev.app = "dashboard")
  BY <1>1, OnDashboard DEF FromDashboard
<1>3. Goto("listed") \in Runs /\ Checked(Goto("listed"))
  BY <1>2, GotoChecked DEF Stages
<1> QED
  BY <1>1, <1>2, <1>3, QuietRun

(* What is not installed yet is in the plan.                                 *)
LEMMA StreamAppInstallInv == ASSUME IInv, StreamAppInstall PROVE IInv'
<1> DEFINE r == [Goto("run") EXCEPT !.plan = missing]
<1>1. /\ listening /\ cmd.stage = "listed" /\ UNCHANGED <<still, dev, deviceEvent, known>>
      /\ GoOn(r) \/ Emit("missing", NoRun)
      /\ cmd \in Runs /\ cmd # NoRun /\ (cmd.lost \/ dev.app = "dashboard")
  BY OnDashboard DEF StreamAppInstall, FromDashboard
<1>2. CASE Emit("missing", NoRun)
  <2>1. "missing" \in Events
    BY DEF Events, Screens, Final
  <2> QED
    BY <1>1, <1>2, <2>1, EndInv
<1>3. CASE GoOn(r)
  <2>1. /\ r \in Runs /\ r.stage = "run" /\ r.lost = cmd.lost
        /\ r.dependencies = cmd.dependencies /\ r.plan = missing
    BY <1>1 DEF Goto, Runs, Stages, missing, Apps
  <2>2. cmd.dependencies => "dependency" \in dev.has \cup missing
    BY DEF missing, Apps
  <2>3. Checked(r)
    BY <1>1, <2>1, <2>2 DEF Checked
  <2> HIDE DEF r
  <2> QED
    BY <1>1, <1>3, <2>1, <2>3, QuietRun
<1> QED
  BY <1>1, <1>2, <1>3

(* An operation leaves the plan for what is installed or failed.             *)
LEMMA RunAppOpInv == ASSUME IInv, RunAppOp PROVE IInv'
<1>1. PICK name \in cmd.plan : runAppOp(name)
  BY DEF RunAppOp
<1> DEFINE after == [cmd EXCEPT !.plan = cmd.plan \ {name}]
<1>2. /\ listening /\ cmd.stage = "run" /\ UNCHANGED <<still, deviceEvent, resolved>>
      /\ cmd \in Runs /\ cmd # NoRun /\ Checked(cmd)
  BY OnDashboard DEF RunAppOp, FromDashboard
<1>3. mode' = mode /\ wish' = wish
  BY <1>2 DEF still
<1>4. name \in Apps
  BY <1>2 DEF Runs
<1>5. /\ dev' \in Devices /\ dev'.latest = dev.latest /\ dev'.app = dev.app
      /\ failed' \subseteq Apps
      /\ dev'.has \cup failed' = dev.has \cup failed \cup {name}
  <2>1. dev \in Devices /\ failed \subseteq Apps
    BY DEF IInv, TypeOK
  <2>2. CASE dev' = [dev EXCEPT !.has = dev.has \cup {name}] /\ failed' = failed \ {name}
    <3>1. dev' \in Devices
      BY <1>4, <2>1, <2>2 DEF Devices
    <3>2. dev'.has = dev.has \cup {name} /\ dev'.latest = dev.latest /\ dev'.app = dev.app
      BY <2>1, <2>2 DEF Devices
    <3> QED
      BY <2>1, <2>2, <3>1, <3>2
  <2>3. CASE failed' = failed \cup {name} /\ UNCHANGED dev
    BY <1>4, <2>1, <2>3
  <2> QED
    BY <1>1, <2>2, <2>3 DEF runAppOp
<1>6. Monotone
  BY <1>5 DEF Monotone
<1>7. /\ after \in Runs /\ after.stage = "run" /\ after.lost = cmd.lost
      /\ after.dependencies = cmd.dependencies /\ after.plan = cmd.plan \ {name}
  BY <1>2 DEF Runs
<1>8. Emit("installing", after) \/ GoOn(after)
  BY <1>1 DEF runAppOp
<1>9. "installing" \in Events \ {"error", "disconnected", "opened"}
  BY DEF Events, Screens
<1> HIDE DEF after
<1>10. cmd' = after /\ Display'
  <2>1. CASE Emit("installing", after)
    BY <1>2, <1>3, <1>6, <1>7, <1>9, <2>1, EmitInv
  <2>2. CASE GoOn(after)
    BY <1>2, <1>3, <1>6, <1>7, <2>2, QuietInv
  <2> QED
    BY <1>8, <2>1, <2>2
<1>11. ResolvedIsTrue'
  BY <1>2, <1>5 DEF IInv, ResolvedIsTrue
<1>12. RunIsChecked'
  <2>1. after.dependencies => "dependency" \in dev'.has \cup failed' \cup after.plan
    BY <1>2, <1>5, <1>7 DEF Checked
  <2>2. ~after.lost => dev'.app = "dashboard"
    BY <1>2, <1>5, <1>7 DEF Checked, FromDashboard
  <2> QED
    BY <1>7, <1>10, <2>1, <2>2 DEF RunIsChecked, Checked
<1> QED
  BY <1>2, <1>5, <1>10, <1>11, <1>12, Together DEF IInv, TypeOK

LEMMA ProgressInv == ASSUME IInv, Progress \/ Unresponsive PROVE IInv'
<1>1. PICK e \in {"installing", "unresponsiveDevice"} : Emit(e, cmd)
  BY DEF Progress, Unresponsive
<1>2. /\ cmd \in Runs /\ cmd # NoRun /\ Checked(cmd) /\ listening
      /\ UNCHANGED <<still, dev, deviceEvent, known>>
  BY RunIsLive DEF Progress, Unresponsive, At, Stages
<1>3. e \in Events \ {"error", "disconnected", "opened"}
  BY DEF Events, Screens
<1> QED
  BY <1>1, <1>2, <1>3, EmitRun

(* At the end of the plan, the dependency is installed or failed.            *)
LEMMA OnSuccessInv == ASSUME IInv, OnSuccess PROVE IInv'
<1>1. /\ listening /\ cmd.stage \in {"listed", "run"}
      /\ UNCHANGED <<still, dev, deviceEvent, failed>>
      /\ cmd \in Runs /\ cmd # NoRun /\ Checked(cmd) /\ (cmd.lost \/ dev.app = "dashboard")
  BY OnDashboard DEF OnSuccess, FromDashboard
<1>2. CASE cmd.dependencies
  <2>1. "dependency" \in dev.has \cup failed
    BY <1>1, <1>2 DEF OnSuccess, missing, Checked, Apps
  <2>2. /\ resolved' = resolved \cup {"dependencies"}
        /\ Emit("dependencies-resolved", nested)
    BY <1>2 DEF OnSuccess
  <2>3. ResolvedIsTrue' /\ resolved' \subseteq {"dependencies", "firmware"}
    BY <1>1, <2>1, <2>2 DEF IInv, TypeOK, ResolvedIsTrue
  <2> QED
    BY <1>1, <2>2, <2>3, NestedInv
<1>3. CASE ~cmd.dependencies
  <2>1. Emit("ask", Goto("open")) /\ UNCHANGED known
    BY <1>1, <1>3 DEF OnSuccess, known
  <2>2. "ask" \in Events \ {"error", "disconnected", "opened"}
    BY DEF Events, Screens
  <2>3. Goto("open") \in Runs /\ Checked(Goto("open"))
    BY <1>1, GotoChecked DEF Stages
  <2> QED
    BY <1>1, <2>1, <2>2, <2>3, EmitRun
<1> QED
  BY <1>2, <1>3

(* The device restarts in an app after an event that ends the run.           *)
LEMMA RestartInv ==
    ASSUME IInv, listening, cmd # NoRun, NEW e \in Events \ {"opened"}, Emit(e, NoRun),
           NEW app \in {"dashboard", "right"}, Restart(app), UNCHANGED <<still, known>>
    PROVE  IInv'
<1>1. /\ dev' \in Devices /\ dev'.latest = dev.latest /\ dev'.has = dev.has
  BY DEF IInv, TypeOK, Devices, Restart
<1>2. /\ deviceEvent' \in BOOLEAN /\ mode' = mode /\ wish' = wish
      /\ failed' = failed /\ resolved' = resolved
  BY DEF Restart, still, known
<1>3. Monotone
  BY <1>1, <1>2 DEF Monotone, IInv, TypeOK
<1>4. cmd' = NoRun /\ Display'
  BY <1>2, <1>3, EmitInv
<1>5. ResolvedIsTrue' /\ RunIsChecked'
  BY <1>1, <1>2, <1>4 DEF IInv, ResolvedIsTrue, RunIsChecked
<1> QED
  BY <1>1, <1>2, <1>4, <1>5, Together DEF IInv, TypeOK

LEMMA OpenAppInv == ASSUME IInv, OpenApp PROVE IInv'
<1>1. /\ cmd \in Runs /\ listening /\ cmd # NoRun /\ UNCHANGED <<still, known>>
      /\ (cmd.lost \/ dev.app = "dashboard")
  BY OnDashboard DEF OpenApp, At, FromDashboard
<1>2. CASE "app" \notin dev.has
  <2>1. Emit("listing-apps", Goto("install")) /\ UNCHANGED <<dev, deviceEvent>>
    BY <1>2 DEF OpenApp
  <2>2. "listing-apps" \in Events \ {"error", "disconnected", "opened"}
    BY DEF Events
  <2>3. Goto("install") \in Runs /\ Checked(Goto("install"))
    BY <1>1, GotoChecked DEF Stages
  <2> QED
    BY <1>1, <2>1, <2>2, <2>3, EmitRun
<1>3. CASE "app" \in dev.has
  <2>1. Emit("granted", NoRun) /\ Restart("right") /\ "granted" \in Events \ {"opened"}
    BY <1>3 DEF OpenApp, Events, Screens
  <2> QED
    BY <1>1, <2>1, RestartInv
<1> QED
  BY <1>2, <1>3

LEMMA QuitAppInv == ASSUME IInv, QuitApp PROVE IInv'
<1>1. cmd \in Runs /\ listening /\ cmd # NoRun /\ UNCHANGED <<still, known>>
  BY RunIsLive DEF QuitApp, At, Stages
<1>2. Emit("disconnected", NoRun) /\ Restart("dashboard")
      /\ "disconnected" \in Events \ {"opened"}
  BY DEF QuitApp, Events
<1> QED
  BY <1>1, <1>2, RestartInv

LEMMA DerivationInv == ASSUME IInv, Derivation PROVE IInv'
<1>1. /\ listening /\ UNCHANGED <<still, dev, deviceEvent, known>>
      /\ cmd \in Runs /\ cmd # NoRun /\ Checked(cmd)
  BY RunIsLive DEF Derivation, At, Stages
<1>2. {"opened", "openedByAddress", "ask"} \subseteq Events
  BY DEF Events, Screens, Final, Opened
<1>3. CASE At("derive")
  <2>1. Earned
    BY <1>1, <1>3 DEF At, Checked, IInv, ResolvedIsTrue, Earned
  <2>2. Emit("opened", NoRun) \/ Emit("ask", NoRun) \/ attemptToQuitApp
    BY <1>3 DEF Derivation, At
  <2> QED
    BY <1>1, <1>2, <2>1, <2>2, EndInv, QuitInv
<1>4. CASE At("fallback")
  <2>1. Emit("openedByAddress", NoRun) \/ Emit("ask", NoRun)
    BY <1>4 DEF Derivation, At
  <2> QED
    BY <1>1, <1>2, <2>1, EndInv
<1> QED
  BY <1>3, <1>4 DEF Derivation

LEMMA LastInv == ASSUME IInv, Disconnected \/ Fail PROVE IInv'
<1>1. "disconnected" \in Events /\ "error" \in Events
  BY DEF Events, Screens, Final
<1>2. \/ Emit("disconnected", NoRun)
      \/ Emit("error", NoRun)
  BY DEF Disconnected, Fail
<1> QED
  BY <1>1, <1>2, EndInv DEF Disconnected, Fail

-----------------------------------------------------------------------------
(* The device is given up by a timer of polling.                             *)
LEMMA GivenUpInv ==
    ASSUME IInv, listening, device' = FALSE, NEW u \in Uis, ~u.device, u.screen = "waiting",
           Reach(u, "timer"), UNCHANGED <<still, dev, deviceEvent, cmd, known>>, mode = "polling",
           initT' \in BOOLEAN, disconnectT' \in BOOLEAN, stale' \in 0..DisconnectTimers,
           armed' \in Nat, armed' <= armed
    PROVE  IInv'
<1>1. /\ ui' = u /\ listening' = listening /\ shown' = shown /\ debounced' = "timer"
      /\ mode' = mode /\ wish' = wish
  BY DEF Reach, still
<1>2. TimersFew'
  <2>1. armed \in Nat /\ stale' \in Nat
    BY DEF IInv, TypeOK, armed, DisconnectTimers
  <2> QED
    BY <2>1 DEF IInv, TimersFew, DisconnectTimers
<1>3. OpenedEarned' /\ DeviceIsKnown' /\ Ended'
  BY <1>1 DEF IInv, OpenedEarned, Earned, DeviceIsKnown, Ended, Opened, known
<1>4. Display'
  BY <1>1, <1>2, <1>3 DEF IInv, TypeOK, Display, PollingTimers
<1>5. ResolvedIsTrue' /\ RunIsChecked'
  BY <1>1 DEF IInv, ResolvedIsTrue, RunIsChecked, Checked, known
<1> QED
  BY <1>4, <1>5, Together DEF IInv, TypeOK, known

LEMMA TimerInv == ASSUME IInv, InitTimeout \/ DisconnectTimeout PROVE IInv'
<1>0. stale \in Nat /\ stale \in 0..DisconnectTimers /\ disconnectT \in BOOLEAN /\ initT \in BOOLEAN
  BY DEF IInv, TypeOK, TimersFew
<1>1. CASE InitTimeout
  <2>1. deviceChange(FALSE) \in Uis /\ ~deviceChange(FALSE).device
        /\ deviceChange(FALSE).screen = "waiting"
    BY DEF deviceChange, Uis, Screens
  <2>2. armed' = armed /\ armed \in Nat /\ armed' <= armed
    BY <1>0, <1>1 DEF InitTimeout, armed
  <2>3. mode = "polling"
    BY <1>1 DEF IInv, PollingTimers, InitTimeout
  <2> QED
    BY <1>0, <1>1, <2>1, <2>2, <2>3, GivenUpInv DEF InitTimeout
<1>2. CASE DisconnectTimeout
  <2>1. getInitialState \in Uis /\ ~getInitialState.device /\ getInitialState.screen = "waiting"
        /\ reducer(ui, "disconnected") = getInitialState
    BY DEF getInitialState, reducer, Uis, Screens
  <2>2. /\ armed \in 1..DisconnectTimers /\ stale' = armed - 1 /\ disconnectT' = FALSE
        /\ initT' = initT
    BY <1>0, <1>2 DEF DisconnectTimeout, armed, IInv, TimersFew, DisconnectTimers
  <2>3. stale' \in 0..DisconnectTimers /\ armed' \in Nat /\ armed' <= armed
    BY <2>2 DEF armed, DisconnectTimers
  <2>4. mode = "polling"
    BY <1>2 DEF IInv, PollingTimers, DisconnectTimeout
  <2> QED
    BY <1>0, <1>2, <2>1, <2>2, <2>3, <2>4, GivenUpInv DEF DisconnectTimeout
<1> QED
  BY <1>1, <1>2

LEMMA ConnectAppType ==
    ASSUME IInv
    PROVE  /\ connectApp \in Runs /\ connectApp # NoRun /\ connectApp.stage = "opening"
           /\ connectApp.dependencies = ("dependencies" \in wish \ resolved)
           /\ connectApp.firmware = ("firmware" \in wish \ resolved)
  BY DEF connectApp, run, Runs, Stages, NoRun

LEMMA LoopInv == ASSUME IInv, loop PROVE IInv'
<1>1. /\ cmd = NoRun /\ cmd' = connectApp /\ mode = "polling" /\ debounced # "command"
      /\ armed < DisconnectTimers
      /\ UNCHANGED <<still, dev, deviceEvent, known, timers, device, screen>>
  BY DEF loop
<1>2. connectApp \in Runs /\ connectApp # NoRun
  BY ConnectAppType
<1>3. TimersFew'
  BY <1>1 DEF IInv, TimersFew, armed, timers
<1>4. OpenedEarned' /\ DeviceIsKnown' /\ Ended'
  BY <1>1 DEF IInv, OpenedEarned, Earned, DeviceIsKnown, Ended, Opened, known, screen, still
<1>5. Display'
  <2>1. PollingTimers'
    BY <1>1 DEF PollingTimers, still
  <2> QED
    BY <1>1, <1>2, <1>3, <1>4, <2>1 DEF IInv, TypeOK, Display, timers, screen
<1>6. ResolvedIsTrue' /\ RunIsChecked'
  BY <1>1, ConnectAppType DEF IInv, ResolvedIsTrue, RunIsChecked, Checked, FromDashboard, known, still
<1> QED
  BY <1>1, <1>5, <1>6, Together DEF IInv, TypeOK, known

LEMMA DeviceChangeInv == ASSUME IInv, DeviceChange PROVE IInv'
<1>1. /\ mode = "event" /\ listening /\ deviceEvent' = FALSE
      /\ Reach(deviceChange(dev.here), "command")
      /\ cmd' = (IF dev.here THEN connectApp ELSE NoRun)
      /\ UNCHANGED <<still, dev, known, timers, device>>
  BY DEF DeviceChange
<1>2. dev.here \in BOOLEAN
  BY DEF IInv, TypeOK, Devices
<1>3. deviceChange(dev.here) \in Uis /\ deviceChange(dev.here).screen = "waiting"
      /\ deviceChange(dev.here).device = dev.here
  BY <1>2 DEF deviceChange, Uis, Screens
<1>4. ui' = deviceChange(dev.here) /\ shown' = shown /\ debounced' = "command"
      /\ listening' = listening
  BY <1>1, <1>3 DEF Reach
<1>5. cmd' \in Runs \cup {NoRun}
  BY <1>1, ConnectAppType
<1>6. TimersFew'
  <2>1. armed = 0
    BY <1>1 DEF IInv, PollingTimers
  <2> QED
    BY <1>1, <2>1 DEF IInv, TimersFew, armed, timers, DisconnectTimers
<1>7. OpenedEarned' /\ DeviceIsKnown' /\ Ended'
  BY <1>1, <1>3, <1>4 DEF IInv, OpenedEarned, Earned, DeviceIsKnown, Ended, Opened, known, still
<1>8. Display'
  BY <1>1, <1>3, <1>4, <1>5, <1>6, <1>7 DEF IInv, TypeOK, Display, timers, PollingTimers, armed
<1>9. ResolvedIsTrue' /\ RunIsChecked'
  BY <1>1, ConnectAppType DEF IInv, ResolvedIsTrue, RunIsChecked, Checked, FromDashboard, known, still
<1> QED
  BY <1>1, <1>8, <1>9, Together DEF IInv, TypeOK, known

LEMMA ShowInv == ASSUME IInv, Show PROVE IInv'
<1>1. listening /\ shown' = ui /\ debounced' = "no" /\ UNCHANGED <<still, dev, known>>
  BY DEF Show
<1>2. CASE Ends(ui.screen)
  <2>1. /\ listening' = FALSE /\ ui' = getInitialState /\ cmd' = NoRun /\ deviceEvent' = FALSE
        /\ device' = FALSE /\ initT' = FALSE /\ disconnectT' = FALSE /\ stale' = 0
    BY <1>2 DEF Show
  <2>2. getInitialState \in Uis /\ getInitialState.screen = "waiting"
    BY DEF getInitialState, Uis, Screens
  <2>3. TimersFew'
    BY <2>1 DEF TimersFew, armed, DisconnectTimers
  <2>4. OpenedEarned' /\ DeviceIsKnown' /\ Ended'
    BY <1>1, <2>1, <2>2 DEF IInv, OpenedEarned, Earned, DeviceIsKnown, Ended, Opened, known, still
  <2>5. Display'
    <3>1. PollingTimers'
      BY <2>1 DEF PollingTimers, armed
    <3>2. 0 \in 0..DisconnectTimers
      BY DEF DisconnectTimers
    <3> QED
      BY <1>1, <2>1, <2>2, <2>3, <2>4, <3>1, <3>2 DEF IInv, TypeOK, Display
  <2>6. ResolvedIsTrue' /\ RunIsChecked'
    BY <1>1, <2>1 DEF IInv, ResolvedIsTrue, RunIsChecked, Checked, known
  <2>7. deviceEvent' \in BOOLEAN
    BY <2>1
  <2> QED
    BY <1>1, <2>5, <2>6, <2>7, Together DEF IInv, TypeOK, known
<1>3. CASE ~Ends(ui.screen)
  <2>1. UNCHANGED <<listening, ui, cmd, deviceEvent, device, timers>>
    BY <1>3 DEF Show
  <2>2. ui.screen \notin Final
    BY <1>3 DEF Ends
  <2>3. TimersFew'
    BY <2>1 DEF IInv, TimersFew, armed, timers
  <2>4. OpenedEarned' /\ DeviceIsKnown' /\ Ended'
    BY <1>1, <2>1, <2>2 DEF IInv, OpenedEarned, Earned, DeviceIsKnown, Ended, still, Final, known
  <2>5. Display'
    <3>1. PollingTimers'
      BY <1>1, <2>1 DEF IInv, PollingTimers, armed, timers, still
    <3> QED
      BY <1>1, <2>1, <2>3, <2>4, <3>1 DEF IInv, TypeOK, Display, timers
  <2>6. ResolvedIsTrue' /\ RunIsChecked'
    BY <1>1, <2>1 DEF IInv, ResolvedIsTrue, RunIsChecked, Checked, known, still
  <2> QED
    BY <1>1, <2>1, <2>5, <2>6, Together DEF IInv, TypeOK, known
<1> QED
  BY <1>2, <1>3

LEMMA RetryInv == ASSUME IInv, onRetry PROVE IInv'
<1>1. /\ retries' \in 0..MaxRetries /\ resolved' = resolved \ {"dependencies"}
      /\ failed' = {}
      /\ listening' = TRUE /\ ui' = getInitialState /\ shown' = getInitialState
      /\ debounced' = "no" /\ cmd' = NoRun /\ deviceEvent' \in BOOLEAN
      /\ initT' = (mode = "polling") /\ disconnectT' = FALSE /\ stale' = 0 /\ device' = FALSE
      /\ UNCHANGED <<mode, wish, dev, pollingOnDevice, moves>>
  BY DEF onRetry, IInv, TypeOK
<1>2. getInitialState \in Uis /\ getInitialState.screen = "waiting"
  BY DEF getInitialState, Uis, Screens
<1>3. initT' \in BOOLEAN /\ 0 \in 0..DisconnectTimers
  BY <1>1 DEF DisconnectTimers
<1>4. TypeOK'
  BY <1>1, <1>2, <1>3 DEF IInv, TypeOK
<1>5. TimersFew' /\ PollingTimers'
  <2>1. armed' = 0 /\ stale' = 0
    BY <1>1 DEF armed
  <2>2. mode' # "polling" => ~initT'
    BY <1>1
  <2> QED
    BY <2>1, <2>2 DEF TimersFew, PollingTimers, DisconnectTimers
<1>6. ResolvedIsTrue' /\ RunIsChecked'
  BY <1>1 DEF IInv, ResolvedIsTrue, RunIsChecked, Checked, known
<1>7. OpenedEarned' /\ DeviceIsKnown' /\ Ended'
  BY <1>1, <1>2 DEF OpenedEarned, DeviceIsKnown, Ended, Final, Opened
<1> QED
  BY <1>4, <1>5, <1>6, <1>7 DEF IInv

(* The device moves: a run that does not lose its transport saw at most a    *)
(* lock.                                                                      *)
LEMMA MoveInv == ASSUME IInv, Move PROVE IInv'
<1> DEFINE restarts == ~(dev'.here /\ dev.here /\ {dev'.app, dev.app} = {"right", "locked"})
<1>1. /\ dev' \in Devices /\ dev'.latest = dev.latest /\ dev'.has = dev.has
      /\ moves' \in 0..MaxMoves
      /\ cmd' = IF cmd # NoRun /\ cmd.stage # "opening" /\ restarts THEN [cmd EXCEPT !.lost = TRUE] ELSE cmd
      /\ deviceEvent' = (deviceEvent \/ (mode = "event" /\ listening /\ restarts))
      /\ UNCHANGED <<mode, wish, pollingOnDevice, known, timers, device, screen, retries>>
  BY DEF Move, Devices, IInv, TypeOK
<1>2. CASE cmd = NoRun
  <2>1. cmd' = NoRun
    BY <1>1, <1>2
  <2> QED
    BY <1>1, <1>2, <2>1 DEF IInv, TypeOK, timers, screen, TimersFew, PollingTimers, armed,
       ResolvedIsTrue, RunIsChecked, Checked, known, OpenedEarned, Earned, DeviceIsKnown, Ended
<1>3. CASE cmd # NoRun
  <2>1. /\ cmd \in Runs /\ cmd' \in Runs /\ cmd' # NoRun /\ cmd'.stage = cmd.stage
        /\ cmd'.dependencies = cmd.dependencies /\ cmd'.plan = cmd.plan
        /\ (cmd'.lost \/ (cmd' = cmd /\ (~restarts \/ cmd.stage = "opening")))
    BY <1>1, <1>3 DEF IInv, TypeOK, Runs, NoRun, Stages
  <2>2. ~restarts => dev.app # "dashboard" /\ dev'.app # "dashboard"
    OBVIOUS
  <2>3. RunIsChecked'
    BY <1>1, <1>3, <2>1, <2>2 DEF IInv, RunIsChecked, Checked, FromDashboard, known
  <2>4. TypeOK'
    BY <1>1, <2>1 DEF IInv, TypeOK, timers, screen, known
  <2>5. TimersFew' /\ PollingTimers'
    BY <1>1, <1>3 DEF IInv, TimersFew, PollingTimers, armed, timers
  <2>6. ResolvedIsTrue' /\ OpenedEarned' /\ Ended'
    BY <1>1 DEF IInv, ResolvedIsTrue, OpenedEarned, Earned, Ended, screen, known
  <2>7. DeviceIsKnown'
    BY <1>1, <1>3 DEF IInv, DeviceIsKnown, screen
  <2> QED
    BY <2>3, <2>4, <2>5, <2>6, <2>7 DEF IInv
<1> QED
  BY <1>2, <1>3

LEMMA SelectInv == ASSUME IInv, Select PROVE IInv'
  BY DEF Select, IInv, TypeOK, timers, screen, TimersFew, PollingTimers, armed,
     ResolvedIsTrue, RunIsChecked, Checked, known, OpenedEarned, Earned, DeviceIsKnown, Ended

LEMMA Step == IInv /\ [Next]_vars => IInv'
<1> SUFFICES ASSUME IInv, [Next]_vars PROVE IInv'
  OBVIOUS
<1>1. CASE Exchange
  BY <1>1, OpenInv, VersionInv, OldVersionInv, DeviceInfoInv, FirmwareInv, ListAppsInv,
     StreamAppInstallInv, RunAppOpInv, OnSuccessInv, OpenAppInv, QuitAppInv, DerivationInv,
     LastInv DEF Exchange
<1>2. CASE Permission \/ Progress \/ Fail \/ Unresponsive
  BY <1>2, PermissionInv, ProgressInv, LastInv
<1>3. CASE InitTimeout \/ DisconnectTimeout \/ loop \/ DeviceChange \/ Show
  BY <1>3, TimerInv, LoopInv, DeviceChangeInv, ShowInv
<1>4. CASE onRetry \/ Move \/ Select
  BY <1>4, RetryInv, MoveInv, SelectInv
<1>5. CASE UNCHANGED vars
  BY <1>5 DEF vars, timers, screen, IInv, TypeOK, TimersFew, PollingTimers, armed,
     ResolvedIsTrue, RunIsChecked, Checked, known, OpenedEarned, Earned, DeviceIsKnown, Ended
<1> QED
  BY <1>1, <1>2, <1>3, <1>4, <1>5 DEF Next
-----------------------------------------------------------------------------
(* The variables of the hook and of the command keep their types.            *)
THEOREM TypeCorrect == Spec => []TypeOK
<1>1. IInv => TypeOK
  BY DEF IInv
<1> QED
  BY <1>1, Initial, Step, PTL DEF Spec

(* The app is said to be open only once what the request asks for is there,  *)
(* but for a dependency whose installation failed, over any number of runs    *)
(* and retries (connectApp.js, app.js:481-482).                               *)
THEOREM OpeningIsEarned == Spec => []OpenedIsEarned
<1>1. IInv => OpenedIsEarned
  BY DEF IInv, OpenedEarned, OpenedIsEarned
<1> QED
  BY <1>1, Initial, Step, PTL DEF Spec

(* An app that is said to be open is open on a device, so that mapResult     *)
(* (app.js:95) has a result.                                                  *)
THEOREM OpeningHasDevice == Spec => []OpenedHasDevice
<1>1. IInv => OpenedHasDevice
  BY DEF IInv, DeviceIsKnown, OpenedHasDevice
<1> QED
  BY <1>1, Initial, Step, PTL DEF Spec

(* Only a retry takes an end off the screen (app.js:548).                    *)
THEOREM EndsStay == Spec => EndStays
<1>1. IInv /\ [Next]_vars => [shown.screen \in Final => retries' # retries]_shown
  <2> SUFFICES ASSUME IInv, [Next]_vars, shown.screen \in Final, shown' # shown
               PROVE  retries' # retries
    OBVIOUS
  <2>1. ~listening
    BY DEF IInv, Ended
  <2>2. CASE onRetry
    BY <2>2 DEF onRetry, IInv, TypeOK
  <2>3. CASE Exchange
    BY <2>1, <2>3 DEF Exchange, Open, Version, OldVersion, DeviceInfo, Firmware, listApps,
       StreamAppInstall, RunAppOp, OnSuccess, OpenApp, QuitApp, Derivation, Disconnected, At
  <2>4. CASE Permission \/ Progress \/ Fail \/ Unresponsive
    BY <2>1, <2>4 DEF Permission, Progress, Fail, Unresponsive, At
  <2>5. CASE InitTimeout \/ DisconnectTimeout \/ loop \/ DeviceChange \/ Show
    BY <2>1, <2>5 DEF InitTimeout, DisconnectTimeout, loop, DeviceChange, Show
  <2>6. CASE Move \/ Select \/ UNCHANGED vars
    BY <2>6 DEF Move, Select, vars, screen
  <2> QED
    BY <2>2, <2>3, <2>4, <2>5, <2>6 DEF Next
<1> QED
  BY <1>1, Initial, Step, PTL DEF Spec, EndStays

===============================================================================
