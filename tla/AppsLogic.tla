------------------------------- MODULE AppsLogic -------------------------------
(***************************************************************************)
(* The reducer of the manager (src/src/apps/logic.js) as operators: what   *)
(* each action of the user and each event of the runner make of the queues *)
(* of applications to install and to uninstall on a device.                *)
(***************************************************************************)
EXTENDS Filters

CONSTANTS
    Catalog,    \* the applications of appByName, a sequence in its key order
    Unknown,    \* installed applications that are not in appByName
    Nameless,   \* the one of them whose name could not be found: ""
    Deps        \* the dependencies of each, a set taken in the catalog's order

ASSUME CatalogAssumption ==
    /\ Catalog \in Seq(ToSet(Catalog)) /\ IsInjective(Catalog)
    /\ Unknown \cap ToSet(Catalog) = {}
    /\ Nameless \notin ToSet(Catalog)
    /\ Deps \in [ToSet(Catalog) -> SUBSET ToSet(Catalog)]

(* The dependencies the polyfill declares: that of an application is the    *)
(* application of its family, which depends on nothing.                     *)
ASSUME OneLevelAssumption == \A a \in ToSet(Catalog) : \A d \in Deps[a] : Deps[d] = {}
ASSUME OneFamilyAssumption == \A a \in ToSet(Catalog) : \A d, e \in Deps[a] : d = e

Known == ToSet(Catalog)
Apps == Known \cup Unknown

NoOp == [type |-> "none", name |-> "none"]
Install(a) == [type |-> "install", name |-> a]
Uninstall(a) == [type |-> "uninstall", name |-> a]
Ops == {Install(a) : a \in Apps} \cup {Uninstall(a) : a \in Apps}

UserActions == [type : {"install"}, name : Known]
               \cup [type : {"uninstall", "force uninstall"}, name : Apps]
               \cup [type : {"wipe", "updateAll", "recover"}, name : {"none"}]

(* The part of the State the reducer decides on. `outdated` are the         *)
(* installed applications that are not `updated`.                           *)
States == [installed : Seq(Apps), outdated : SUBSET Apps,
           installQueue : Seq(Apps), uninstallQueue : Seq(Apps),
           updateAllQueue : Seq(Apps), currentAppOp : Ops \cup {NoOp},
           currentError : Ops \cup {NoOp}]

IsInstalled(s, a) == Contains(s.installed, a)

DepsOf(a) == IF a \in Known THEN Deps[a] ELSE {}
-----------------------------------------------------------------------------
(* Mutant: an application of the queue goes before its dependencies.        *)
reorderInstallQueue_AppFirst(apps) ==
    FoldLeft(LAMBDA list, app :
               IF Contains(list, app) THEN list
               ELSE Append(list, app)
                      \o Without(Among(Catalog, DepsOf(app) \cap ToSet(apps)), ToSet(list)),
             <<>>, apps)

(* Each application once, its dependencies that are queued too before it.   *)
reorderInstallQueue(apps) ==
    FoldLeft(LAMBDA list, app :
               IF Contains(list, app) THEN list
               ELSE Append(list \o Without(Among(Catalog, DepsOf(app) \cap ToSet(apps)),
                                           ToSet(list)), app),
             <<>>, apps)

reorderUninstallQueue(apps) == Reverse(reorderInstallQueue(Reverse(apps)))

Dependents(name) == {a \in Known : name \in Deps[a]}

findDependents(name) == Among(Catalog, Dependents(name))

(* Mutant: what depends on an application is not looked for. *)
InstalledDependents_None(s, name) == <<>>

InstalledDependents(s, name) == Among(findDependents(name), ToSet(s.installed))

(* Mutant: every dependency is taken to be installed. *)
MissingDeps_None(s, name) == <<>>

MissingDeps(s, name) == Without(Among(Catalog, Deps[name]), ToSet(s.installed))
-----------------------------------------------------------------------------
(* Mutant: an application is taken for removed as soon as its removal starts. *)
runStart_Optimistic(s, op) ==
    [s EXCEPT !.currentAppOp = op,
              !.installed = IF op.type = "uninstall" THEN Without(@, {op.name}) ELSE @]

runStart(s, op) == [s EXCEPT !.currentAppOp = op]

(* Mutant: the end of an "update all" is not noticed. *)
EndUpdateAll_Never(s) == s

EndUpdateAll(s) ==
    IF s.installQueue = <<>> /\ s.uninstallQueue = <<>>
    THEN [s EXCEPT !.updateAllQueue = <<>>] ELSE s

(* The operation is over: it leaves its queue and changes `installed`.      *)
runSuccess(s, op) ==
    LET done == [s EXCEPT !.currentAppOp = NoOp, !.currentError = NoOp,
                          !.outdated = @ \ {op.name}]
    IN EndUpdateAll(
         IF op.type = "install"
         THEN [done EXCEPT !.installed = Append(Without(@, {op.name}), op.name),
                           !.installQueue = Without(@, {op.name})]
         ELSE [done EXCEPT !.installed = Without(@, {op.name}),
                           !.uninstallQueue = Without(@, {op.name})])

(* Mutant: an error does not end the operation. *)
runError_KeepsOp(s, op) ==
    [s EXCEPT !.uninstallQueue = <<>>, !.installQueue = <<>>, !.updateAllQueue = <<>>,
              !.currentError = op]

(* Mutant: the error only keeps the name of the application. *)
runError_NameOnly(s, op) ==
    [s EXCEPT !.uninstallQueue = <<>>, !.installQueue = <<>>, !.updateAllQueue = <<>>,
              !.currentAppOp = NoOp, !.currentError = [NoOp EXCEPT !.name = op.name]]

(* "any other error stops everything" *)
runError(s, op) ==
    [s EXCEPT !.uninstallQueue = <<>>, !.installQueue = <<>>, !.updateAllQueue = <<>>,
              !.currentAppOp = NoOp, !.currentError = op]
-----------------------------------------------------------------------------
recover(s) == [s EXCEPT !.currentError = NoOp]

(* updateAllQueue is left as it is. *)
wipe(s) ==
    [s EXCEPT !.currentError = NoOp, !.installQueue = <<>>,
              !.uninstallQueue = reorderUninstallQueue(s.installed)]

(* Every outdated application and its installed dependents are reinstalled. *)
updateAll(s) ==
    LET targets == FlattenSeq([i \in 1..Len(s.installed) |->
                     LET a == s.installed[i] IN
                     IF a \in s.outdated \cap Known
                     THEN <<a>> \o Among(s.installed, Dependents(a)) ELSE <<>>])
        queue == reorderInstallQueue(s.installQueue \o targets)
    IN [s EXCEPT !.currentError = NoOp, !.installQueue = queue,
                 !.uninstallQueue = reorderUninstallQueue(@ \o targets),
                 !.updateAllQueue = queue]

(* The outdated applications that installing `name` reinstalls.             *)
OutdatedAround(s, name) ==
    IF name \in s.outdated \/ s.outdated \cap Deps[name] # {}
    THEN Among(s.installed, s.outdated \cap
                 ({name} \cup Deps[name] \cup Dependents(name)
                    \cup UNION {Dependents(d) : d \in Deps[name]}))
    ELSE <<>>

(* Already queued, or already installed and up to date. *)
NothingToInstall(s, name) ==
    \/ Contains(s.installQueue, name)
    \/ IsInstalled(s, name) /\ name \notin s.outdated

(* Installing cancels the planned removal of the application and of its     *)
(* dependencies; only if there is none does it plan the installation.       *)
install(s, name) ==
    LET outdated == OutdatedAround(s, name)
        kept == Without(s.uninstallQueue, {name} \cup Deps[name])
        cancels == kept # s.uninstallQueue
    IN IF NothingToInstall(s, name) THEN s
       ELSE [s EXCEPT
              !.currentError = NoOp,
              !.installQueue = reorderInstallQueue(
                 IF cancels THEN @
                 ELSE Append(@ \o outdated \o MissingDeps(s, name), name)),
              !.uninstallQueue = reorderUninstallQueue(
                 IF cancels THEN kept ELSE kept \o outdated)]

(* Uninstalling cancels the planned installation and, for an installed      *)
(* application (for any when a name is missing, or by force), plans its     *)
(* removal after that of its installed dependents.                          *)
uninstall(s, name, force) ==
    IF Contains(s.uninstallQueue, name) THEN s
    ELSE [s EXCEPT
           !.currentError = NoOp,
           !.installQueue = Without(@, {name}),
           !.uninstallQueue =
              IF IsInstalled(s, name) \/ IsInstalled(s, Nameless) \/ force
              THEN reorderUninstallQueue(Append(@ \o InstalledDependents(s, name), name))
              ELSE @]

reducer(s, action) ==
    CASE action.type = "install"   -> install(s, action.name)
      [] action.type = "uninstall" -> uninstall(s, action.name, FALSE)
      [] action.type = "force uninstall" -> uninstall(s, action.name, TRUE)
      [] action.type = "wipe"      -> wipe(s)
      [] action.type = "updateAll" -> updateAll(s)
      [] action.type = "recover"   -> recover(s)
-----------------------------------------------------------------------------
getActionPlan(s) ==
    [i \in 1..Len(s.uninstallQueue) |-> Uninstall(s.uninstallQueue[i])]
      \o [i \in 1..Len(s.installQueue) |-> Install(s.installQueue[i])]

(* Mutant: what can be installed is installed first. *)
getNextAppOp_InstallFirst(s) ==
    IF s.installQueue # <<>> THEN Install(s.installQueue[1])
    ELSE IF s.uninstallQueue # <<>> THEN Uninstall(s.uninstallQueue[1]) ELSE NoOp

getNextAppOp(s) ==
    LET plan == getActionPlan(s) IN IF plan = <<>> THEN NoOp ELSE plan[1]

predictOptimisticState(s) == FoldLeft(runSuccess, s, getActionPlan(s))

(* What initState makes of the applications of a device, some of them to be *)
(* restored (after an update of the firmware).                              *)
initState(installed, outdated, appsToRestore) ==
    FoldLeft(install,
             [installed |-> installed, outdated |-> outdated, installQueue |-> <<>>,
              uninstallQueue |-> <<>>, updateAllQueue |-> <<>>,
              currentAppOp |-> NoOp, currentError |-> NoOp],
             Without(Among(appsToRestore, Known), ToSet(installed)))

=============================================================================
