-------------------------- MODULE BridgeTransaction --------------------------
(* useBridgeTransaction of src/src/bridge/useBridgeTransaction.js: the state  *)
(* of a screen where the user edits a transaction while the bridge prepares   *)
(* it and computes its status, in calls that may end late, out of order or    *)
(* in error.                                                                  *)
(* Transactions are compared by reference: a ref stands for an object and is  *)
(* taken again when nothing holds the object. Dispatching renders at once,    *)
(* the passive effects of a render run later, but before the next render      *)
(* (React 17). The status is the one of statusOnTransaction; delays of the    *)
(* debounce and of the retries only order steps that are free here.           *)
EXTENDS Naturals, FiniteSets

CONSTANTS
    Accounts,       \* main accounts the user may choose
    BrokenAccounts, \* those for which createTransaction or its bridge throws
    NoAccount,
    Refs,           \* references of transaction objects
    NoTx,
    MaxEdits,       \* bound on what the user does
    MaxFailures     \* bound on the failed calls of the bridge

ASSUME AccountsAssumption == BrokenAccounts \subseteq Accounts /\ NoAccount \notin Accounts
ASSUME BoundsAssumption == MaxEdits \in Nat /\ MaxFailures \in Nat

(* A transaction carries the account it was created for and the last edit of *)
(* the user it contains.                                                     *)
Transactions == [ref : Refs, account : Accounts \cup {NoAccount}, edit : 0..MaxEdits]

ASSUME NoTxAssumption == NoTx \notin Transactions

VARIABLES
    s,               \* the state of the reducer, as rendered
    effect,          \* the passive effect of that render is still to run
    statusIsPending, \* the ref of the same name
    jobs,            \* the calls started by the effect that are not over
    wanted,          \* ghost: account and edit of what the user last asked for
    edits, failures, \* number of user actions and of failed calls so far
    raced            \* ghost: a call ended between a render and its effects

vars == <<s, effect, statusIsPending, jobs, wanted, edits, failures, raced>>

States == [account : Accounts \cup {NoAccount}, transaction : Transactions \cup {NoTx},
           statusOnTransaction : Transactions \cup {NoTx}, errorAccount : BOOLEAN,
           errorStatus : BOOLEAN]

Jobs == [tx : Transactions, account : Accounts, stage : {"waiting", "prepare", "status", "retry"},
         prepared : Transactions \cup {NoTx}, ignore : BOOLEAN]

Contents == [account : Accounts \cup {NoAccount}, edit : 0..MaxEdits] \cup {NoTx}

Content(t) == IF t = NoTx THEN NoTx ELSE [account |-> t.account, edit |-> t.edit]

initial == [account |-> NoAccount, transaction |-> NoTx, statusOnTransaction |-> NoTx,
            errorAccount |-> FALSE, errorStatus |-> FALSE]

bridgePending == s.transaction # s.statusOnTransaction

(* The references that something can still compare or dispatch. *)
Held == {t.ref : t \in {s.transaction, s.statusOnTransaction} \ {NoTx}}
          \cup {j.tx.ref : j \in jobs}
          \cup {j.prepared.ref : j \in {i \in jobs : i.prepared # NoTx}}

(* A new object: some reference nothing holds, always the same for TLC. *)
Fresh == {r \in Refs \ Held : r = CHOOSE q \in Refs \ Held : TRUE}
-----------------------------------------------------------------------------
dependencies(st) == <<st.transaction, st.account, st.transaction # st.statusOnTransaction>>

(* Mutant: the cleanup forgets to ignore the call it replaces. *)
cleanup_KeepsCall(js) == {j \in js : j.stage # "retry" \/ j.ignore}

(* The cleanup of the previous effect ignores its call and clears its timer; *)
(* the timer of a call that was already ignored is out of its reach.         *)
cleanup(js) == {[j EXCEPT !.ignore = TRUE] : j \in {i \in js : i.stage # "retry" \/ i.ignore}}

(* Mutant: a call is started only as long as no status is known. *)
startsCall_First == bridgePending /\ s.account # NoAccount /\ s.statusOnTransaction = NoTx

startsCall == bridgePending /\ s.account # NoAccount /\ s.transaction # NoTx

(* The first call is immediate, the ones that follow an edit made before its *)
(* end are debounced.                                                        *)
effectJobs(js, isPending) ==
    cleanup(js) \cup
      IF startsCall
      THEN {[tx |-> s.transaction, account |-> s.account,
             stage |-> IF isPending THEN "waiting" ELSE "prepare",
             prepared |-> NoTx, ignore |-> FALSE]}
      ELSE {}

(* A render with state st, js the calls that are left and isPending the ref: *)
(* the effect of the previous render runs first. The calls of after are set  *)
(* once the dispatch is over.                                                *)
Render(st, js, isPending, after) ==
    /\ s' = st
    /\ effect' = (dependencies(st) # dependencies(s))
    /\ jobs' = (IF effect THEN effectJobs(js, isPending) ELSE js) \cup after
    /\ statusIsPending' = (isPending \/ (effect /\ startsCall))

RunEffect ==
    /\ effect
    /\ effect' = FALSE
    /\ jobs' = effectJobs(jobs, statusIsPending)
    /\ statusIsPending' = (statusIsPending \/ startsCall)
    /\ UNCHANGED <<s, wanted, edits, failures, raced>>
-----------------------------------------------------------------------------
UserActs == edits < MaxEdits /\ edits' = edits + 1 /\ UNCHANGED <<failures, raced>>

(* The reducer's setAccount for an account whose bridge works, or throws.   *)
withAccount(a, r, e) ==
    IF a \in BrokenAccounts
    THEN [initial EXCEPT !.account = a, !.errorAccount = TRUE]
    ELSE [initial EXCEPT !.account = a, !.transaction = [ref |-> r, account |-> a, edit |-> e]]

setAccount(a) ==
    /\ UserActs
    /\ \E r \in Fresh :
         /\ Render(withAccount(a, r, edits'), jobs, statusIsPending, {})
         /\ wanted' = Content(withAccount(a, r, edits').transaction)

(* setTransaction with a new object, or updateTransaction with an updater   *)
(* that returns one: it is derived from the current transaction.            *)
setTransaction ==
    /\ UserActs
    /\ \E r \in Fresh :
         LET t == [ref |-> r, edit |-> edits',
                   account |-> IF s.transaction = NoTx THEN s.account ELSE s.transaction.account]
         IN /\ Render([s EXCEPT !.transaction = t], jobs, statusIsPending, {})
            /\ wanted' = Content(t)

(* setTransaction with an object the caller was given before, the one whose *)
(* status is known.                                                         *)
undoTransaction ==
    /\ UserActs
    /\ bridgePending
    /\ s.statusOnTransaction # NoTx
    /\ Render([s EXCEPT !.transaction = s.statusOnTransaction], jobs, statusIsPending, {})
    /\ wanted' = Content(s.statusOnTransaction)
-----------------------------------------------------------------------------
BridgeAnswers == UNCHANGED <<wanted, edits>>

(* A call that is ignored stops at its next test of the flag. *)
Stops(j) ==
    /\ j.ignore
    /\ j.stage # "retry"
    /\ jobs' = jobs \ {j}
    /\ UNCHANGED <<s, effect, statusIsPending, failures, raced>>

DebounceEnds(j) ==
    /\ j.stage = "waiting"
    /\ ~j.ignore
    /\ jobs' = (jobs \ {j}) \cup {[j EXCEPT !.stage = "prepare"]}
    /\ UNCHANGED <<s, effect, statusIsPending, failures, raced>>

(* prepareTransaction returns the transaction it was given or a new one.    *)
PrepareResolves(j) ==
    /\ j.stage = "prepare"
    /\ ~j.ignore
    /\ \E r \in {j.tx.ref} \cup Fresh :
         jobs' = (jobs \ {j}) \cup
                   {[j EXCEPT !.stage = "status", !.prepared = [j.tx EXCEPT !.ref = r]]}
    /\ UNCHANGED <<s, effect, statusIsPending, failures, raced>>

(* onStatus replaces the transaction by the one that was prepared. *)
StatusResolves(j) ==
    /\ j.stage = "status"
    /\ ~j.ignore
    /\ Render([s EXCEPT !.errorStatus = FALSE, !.transaction = j.prepared,
                        !.statusOnTransaction = j.prepared],
              jobs \ {j}, FALSE, {})
    /\ raced' = (raced \/ effect)
    /\ UNCHANGED failures

(* Mutant: nothing is tried again after an error. *)
retry_Never(j) == {}

(* The timer is set after onStatusError has rendered, and run the cleanup of *)
(* this call if it was due.                                                  *)
retry(j) == {[j EXCEPT !.stage = "retry", !.prepared = NoTx, !.ignore = effect]}

(* getAccountBridge, prepareTransaction or getTransactionStatus fails.      *)
CallFails(j) ==
    /\ j.stage \in {"prepare", "status"}
    /\ ~j.ignore
    /\ failures < MaxFailures
    /\ failures' = failures + 1
    /\ Render([s EXCEPT !.errorStatus = TRUE], jobs \ {j}, FALSE, retry(j))
    /\ raced' = (raced \/ effect)

copyOf(j, r) == [j.tx EXCEPT !.ref = r]

RetryFires(j) ==
    /\ j.stage = "retry"
    /\ \E r \in Fresh :
         Render([s EXCEPT !.transaction = copyOf(j, r)], jobs \ {j}, statusIsPending, {})
    /\ raced' = (raced \/ effect)
    /\ UNCHANGED failures

JobStep(j) ==
    /\ \/ Stops(j) \/ DebounceEnds(j) \/ PrepareResolves(j)
       \/ StatusResolves(j) \/ CallFails(j) \/ RetryFires(j)
    /\ BridgeAnswers
-----------------------------------------------------------------------------
(* makeInit may be given an account, and a transaction. *)
Init ==
    /\ \/ s = initial
       \/ \E a \in Accounts, r \in Refs :
            r = (CHOOSE q \in Refs : TRUE) /\ s = withAccount(a, r, 0)
    /\ wanted = Content(s.transaction)
    /\ effect = TRUE
    /\ statusIsPending = FALSE
    /\ jobs = {}
    /\ edits = 0 /\ failures = 0
    /\ raced = FALSE

Next ==
    \/ RunEffect
    \/ \E a \in Accounts : setAccount(a)
    \/ setTransaction
    \/ undoTransaction
    \/ \E j \in jobs : JobStep(j)

Spec == Init /\ [][Next]_vars

(* React runs passive effects, calls end because their requests time out,   *)
(* timers fire. The user may do nothing.                                     *)
Fairness ==
    /\ WF_vars(RunEffect)
    /\ WF_vars(\E j \in jobs : (~j.ignore \/ j.stage = "retry") /\ JobStep(j))

FairSpec == Spec /\ Fairness
-----------------------------------------------------------------------------
TypeOK ==
    /\ s \in States
    /\ effect \in BOOLEAN /\ statusIsPending \in BOOLEAN /\ raced \in BOOLEAN
    /\ jobs \subseteq Jobs
    /\ wanted \in Contents
    /\ edits \in 0..MaxEdits /\ failures \in 0..MaxFailures

(* No answer, error or retry of the bridge replaces what the user last asked *)
(* for, however late it comes, unless it comes between the render of an edit *)
(* and the effect that makes the calls of the previous edit ignored.         *)
EditsSurvive == ~raced => Content(s.transaction) = wanted

(* The screen never waits for nothing: when the status is not the one of the *)
(* transaction, a call or a retry that is not ignored is for this very       *)
(* transaction and account.                                                  *)
PendingIsWorkedOn ==
    bridgePending /\ ~effect /\ s.account # NoAccount /\ s.transaction # NoTx =>
        \E j \in jobs : ~j.ignore /\ j.tx = s.transaction /\ j.account = s.account

(* Whatever was edited and whatever failed, the status of the transaction   *)
(* shown is known in the end.                                                *)
Settles == []<>(bridgePending => s.account = NoAccount)
=============================================================================
