------------------------------ MODULE BridgeSync ------------------------------
(***************************************************************************)
(* The synchronisation of the accounts (src/src/bridge/react/BridgeSync.js)*)
(* A priority queue of account ids (async/priorityQueue, external) runs    *)
(* `synchronize` on at most SYNC_MAX_CONCURRENT of them at once.           *)
(* `synchronize` reads the sync state of the accounts through a ref that a *)
(* passive effect of React updates: what it reads may be one render late.  *)
(***************************************************************************)
EXTENDS Integers, SequencesExt

CONSTANTS
    Accounts,             \* the ids of all the accounts there can be
    Priorities,           \* the priorities of the requests of the application
    SYNC_MAX_CONCURRENT,
    MaxRequests           \* bound: the number of requests of a behaviour

ASSUME AccountsAssumption == IsFiniteSet(Accounts)
ASSUME PrioritiesAssumption == Priorities \subseteq Int
ASSUME ConcurrencyAssumption == SYNC_MAX_CONCURRENT \in Nat \ {0}
ASSUME BoundAssumption == MaxRequests \in Nat

Background == -1    \* the priority of the background synchronisation

(* Stored priorities are the opposite of the requested ones: the lowest     *)
(* comes out first.                                                         *)
Tasks == [account : Accounts, priority : {-p : p \in Priorities \cup {Background}}]

SyncStates == {"idle", "pending", "error"}

VARIABLES
    accounts,          \* the accounts of the last render
    bridgeSyncState,   \* the sync state of the last render
    seenAccounts,      \* those two as the refs hold them: the ones of the
    seenState,         \*   last render whose passive effects have run
    skipUnderPriority,
    queue,             \* the tasks of the priority queue, in its order
    immediate,         \* a setImmediate(process) is pending
    processing,        \* the loop of process() is running: nothing else can
    numRunning,        \* the counter of the priority queue
    active,            \* per account, the number of syncs under way
    leaked,            \* per account, the syncs that will never call next()
    requests           \* number of requests so far

vars == <<accounts, bridgeSyncState, seenAccounts, seenState, skipUnderPriority, queue,
          immediate, processing, numRunning, active, leaked, requests>>

refs == <<accounts, bridgeSyncState, seenAccounts, seenState>>
workers == <<processing, numRunning, active, leaked>>

Init ==
    /\ accounts = Accounts
    /\ bridgeSyncState = [a \in Accounts |-> "idle"]
    /\ seenAccounts = accounts
    /\ seenState = bridgeSyncState
    /\ skipUnderPriority = Background
    /\ queue = <<>>
    /\ immediate = FALSE
    /\ processing = FALSE
    /\ numRunning = 0
    /\ active = [a \in Accounts |-> 0]
    /\ leaked = [a \in Accounts |-> 0]
    /\ requests = 0
-----------------------------------------------------------------------------
(* async/priorityQueue *)
idle == queue = <<>> /\ numRunning = 0

InPriorityOrder(q) ==
    \A i, j \in DOMAIN q : i < j => q[i].priority <= q[j].priority

(* The number of tasks a task of that priority waits for.                   *)
ahead(q, priority) ==
    CHOOSE k \in 0..Len(q) : \A i \in DOMAIN q : q[i].priority <= priority <=> i <= k

push(q, ids, priority) ==
    SubSeq(q, 1, ahead(q, priority))
      \o [i \in DOMAIN ids |-> [account |-> ids[i], priority |-> priority]]
      \o SubSeq(q, ahead(q, priority) + 1, Len(q))

(* The tasks of one priority are next to each other.                        *)
remove(q, priority) ==
    SubSeq(q, 1, ahead(q, priority - 1)) \o SubSeq(q, ahead(q, priority) + 1, Len(q))

(* Mutant: the tasks are pushed with the requested priority. *)
stored_AsIs(priority) == priority

stored(priority) == -priority

(* The tasks to remove are the ones whose stored priority, the opposite of  *)
(* the requested one, is the requested one: those of priority 0.            *)
schedule(ids, priority) ==
    IF priority < skipUnderPriority'
    THEN UNCHANGED <<queue, immediate>>
    ELSE /\ queue' = push(remove(queue, priority), ids, stored(priority))
         /\ immediate' = (immediate \/ ids # <<>>)

shuffledAccountIds == SetToSeqs(seenAccounts)

(* A request is handled between two turns of the process() loop. *)
Request ==
    /\ ~processing
    /\ requests < MaxRequests
    /\ requests' = requests + 1
    /\ UNCHANGED <<refs, workers>>

BACKGROUND_TICK ==
    /\ Request
    /\ idle
    /\ UNCHANGED skipUnderPriority
    /\ \E ids \in shuffledAccountIds : schedule(ids, Background)

(* No task is removed: their priority is compared to the ref itself. Going  *)
(* back to the background priority schedules all the accounts if one is not *)
(* up to date.                                                              *)
SET_SKIP_UNDER_PRIORITY(priority) ==
    /\ Request
    /\ priority # skipUnderPriority
    /\ skipUnderPriority' = priority
    /\ \/ UNCHANGED <<queue, immediate>>
       \/ priority = Background /\ \E ids \in shuffledAccountIds : schedule(ids, Background)

SYNC_ALL_ACCOUNTS(priority) ==
    /\ Request
    /\ UNCHANGED skipUnderPriority
    /\ \E ids \in shuffledAccountIds : schedule(ids, priority)

(* SYNC_SOME_ACCOUNTS, from the application or from the loop on the pending *)
(* operations; with one id, SYNC_ONE_ACCOUNT.                               *)
SYNC_SOME_ACCOUNTS(S, priority) ==
    /\ Request
    /\ UNCHANGED skipUnderPriority
    /\ schedule(SetToSeq(S), priority)
-----------------------------------------------------------------------------
(* setBridgeSyncState renders at once; the passive effects of the render    *)
(* before have run by then, those of this one run later.                    *)
setAccountSyncState(a, s) ==
    /\ bridgeSyncState' = [bridgeSyncState EXCEPT ![a] = s]
    /\ seenState' = bridgeSyncState
    /\ seenAccounts' = accounts
    /\ UNCHANGED accounts

FlushEffects ==
    /\ ~processing
    /\ <<seenAccounts, seenState>> # <<accounts, bridgeSyncState>>
    /\ seenAccounts' = accounts
    /\ seenState' = bridgeSyncState
    /\ UNCHANGED <<accounts, bridgeSyncState, skipUnderPriority, queue, immediate, workers,
                   requests>>

(* The application adds and removes accounts. *)
SetAccounts(S) ==
    /\ ~processing
    /\ S # accounts
    /\ accounts' = S
    /\ seenAccounts' = accounts
    /\ seenState' = bridgeSyncState
    /\ UNCHANGED <<bridgeSyncState, skipUnderPriority, queue, immediate, workers, requests>>

(* The setImmediate of push fires. *)
ProcessImmediate ==
    /\ immediate
    /\ ~processing
    /\ immediate' = FALSE
    /\ processing' = TRUE
    /\ UNCHANGED <<refs, skipUnderPriority, queue, numRunning, active, leaked, requests>>

CanTake == processing /\ queue # <<>> /\ numRunning < SYNC_MAX_CONCURRENT

EndProcess ==
    /\ processing
    /\ ~CanTake
    /\ processing' = FALSE
    /\ UNCHANGED <<refs, skipUnderPriority, queue, immediate, numRunning, active, leaked,
                   requests>>

Skips(a) == seenState[a] = "pending" \/ a \notin seenAccounts

(* Mutant: next() is not called when the sync is skipped. *)
nextOfSkip_Forgotten == numRunning' = numRunning + 1

(* next() gives back the slot that the queue has just taken. *)
nextOfSkip == UNCHANGED numRunning

(* The worker of the queue on its next task: an account that is seen        *)
(* pending, or unknown, is skipped; getAccountBridge may throw, and so may  *)
(* prepareCurrency and sync once the account is shown as pending.           *)
synchronize ==
    LET a == Head(queue).account IN
    /\ CanTake
    /\ queue' = Tail(queue)
    /\ \/ /\ Skips(a)
          /\ nextOfSkip
          /\ UNCHANGED <<refs, active>>
       \/ /\ ~Skips(a)
          /\ numRunning' = numRunning + 1
          /\ active' = [active EXCEPT ![a] = @ + 1]
          /\ setAccountSyncState(a, "pending")
       \/ /\ ~Skips(a)
          /\ setAccountSyncState(a, "error")
          /\ UNCHANGED <<numRunning, active>>
       \/ /\ ~Skips(a)
          /\ bridgeSyncState' = [bridgeSyncState EXCEPT ![a] = "error"]
          /\ seenState' = [bridgeSyncState EXCEPT ![a] = "pending"]
          /\ seenAccounts' = accounts
          /\ UNCHANGED <<accounts, numRunning, active>>
    /\ UNCHANGED <<skipUnderPriority, immediate, processing, leaked, requests>>

(* Mutant: an error that is ignored leaves the account pending. *)
endStates_AlsoPending == {"idle", "error", "pending"}

(* recoverError decides whether an error is kept. *)
endStates == {"idle", "error"}

(* A sync completes or fails; next() gives the slot back and runs process().*)
SyncEnds(a) ==
    /\ ~processing
    /\ active[a] > 0
    /\ active' = [active EXCEPT ![a] = @ - 1]
    /\ numRunning' = numRunning - 1
    /\ processing' = TRUE
    /\ \E s \in endStates : setAccountSyncState(a, s)
    /\ UNCHANGED <<skipUnderPriority, queue, immediate, leaked, requests>>

(* updateAccountWithUpdater, recoverError or trackAnalytics throws in the   *)
(* subscriber: RxJS reports the error and closes the subscription.          *)
SubscriberThrows(a) ==
    /\ ~processing
    /\ active[a] > 0
    /\ active' = [active EXCEPT ![a] = @ - 1]
    /\ leaked' = [leaked EXCEPT ![a] = @ + 1]
    /\ UNCHANGED <<refs, skipUnderPriority, queue, immediate, processing, numRunning,
                   requests>>

Next ==
    \/ BACKGROUND_TICK
    \/ \E p \in Priorities \cup {Background} :
         \/ SET_SKIP_UNDER_PRIORITY(p)
         \/ SYNC_ALL_ACCOUNTS(p)
         \/ \E S \in SUBSET Accounts : SYNC_SOME_ACCOUNTS(S, p)
    \/ FlushEffects
    \/ \E S \in SUBSET Accounts : SetAccounts(S)
    \/ ProcessImmediate
    \/ synchronize
    \/ EndProcess
    \/ \E a \in Accounts : SyncEnds(a) \/ SubscriberThrows(a)

(* The event loop runs immediates and passive effects; a sync that is under *)
(* way ends, one way or another, because the requests it makes time out.    *)
Fairness ==
    /\ WF_vars(FlushEffects)
    /\ WF_vars(ProcessImmediate)
    /\ WF_vars(synchronize \/ EndProcess)
    /\ \A a \in Accounts : WF_vars(SyncEnds(a) \/ SubscriberThrows(a))

Spec == Init /\ [][Next]_vars
FairSpec == Spec /\ Fairness
-----------------------------------------------------------------------------
TypeOK ==
    /\ accounts \subseteq Accounts /\ seenAccounts \subseteq Accounts
    /\ bridgeSyncState \in [Accounts -> SyncStates]
    /\ seenState \in [Accounts -> SyncStates]
    /\ skipUnderPriority \in Priorities \cup {Background}
    /\ queue \in Seq(Tasks) /\ InPriorityOrder(queue)
    /\ immediate \in BOOLEAN /\ processing \in BOOLEAN
    /\ numRunning \in 0..SYNC_MAX_CONCURRENT
    /\ active \in [Accounts -> Nat] /\ leaked \in [Accounts -> Nat]
    /\ requests \in 0..MaxRequests

(* The syncs that f counts, those of an account numbered from 1. *)
Syncs(f) == UNION {{a} \X (1..f[a]) : a \in Accounts}

(* Every slot the queue believes taken is the one of a sync under way, or   *)
(* of one whose subscriber threw: no other path forgets to call next().     *)
SlotsAreExact == numRunning = Cardinality(Syncs(active)) + Cardinality(Syncs(leaked))

(* An account shown as pending is being synchronised, unless a subscriber   *)
(* threw.                                                                   *)
PendingIsTrue ==
    \A a \in Accounts : bridgeSyncState[a] = "pending" => active[a] + leaked[a] > 0

(* Tasks do not wait for ever: either the queue empties or every slot is    *)
(* lost to a subscriber that threw.                                         *)
QueueDrains == queue # <<>> ~> (queue = <<>> \/ Cardinality(Syncs(leaked)) = SYNC_MAX_CONCURRENT)

(* No account stays pending for ever, unless its subscriber threw.          *)
PendingEnds ==
    \A a \in Accounts :
      bridgeSyncState[a] = "pending" ~> (bridgeSyncState[a] # "pending" \/ leaked[a] > 0)

=============================================================================
