---------------------------- MODULE AccountHistory ----------------------------
(* The history of one account: the operations its synchronisations found and *)
(* the optimistic ones added when the user broadcasts (account/pending.js,    *)
(* bridge/jsHelpers.js makeSync, libcore/syncAccount.js sync, the families     *)
(* ethereum and, for js, polkadot). A synchronisation reads the blockchain     *)
(* once, from the account as it is then, and updates later the account as it   *)
(* has become. The blockchain, external, grows a block of at most one          *)
(* transaction of the account at a time and may replace its last block.        *)
EXTENDS Reconciliation

CONSTANTS
    Txs,        \* transactions of the account that will exist
    Own,        \* those the account sends
    Received,   \* Received[t]: rank in which they become known, their date
    Nonce,      \* Nonce[t]: sequence number of the account that sends t
    Bridges,    \* the bridges the account may have
    SafeReorg,  \* SAFE_REORG_THRESHOLD
    MaxHeight,  \* bound on the number of blocks
    MaxUndone   \* bound on what the network goes back on

ASSUME TxsAssumption ==
    /\ IsFiniteSet(Txs) /\ Own \subseteq Txs
    /\ Received \in [Txs -> Nat \ {0}] /\ Nonce \in [Txs -> Nat]
    /\ \A t, u \in Txs : Received[t] = Received[u] => t = u
    /\ Bridges \subseteq {"libcore", "ethereum", "js"}
(* The account numbers what it sends in the order in which it sends it.      *)
ASSUME NonceAssumption ==
    \A t, u \in Own : Received[t] < Received[u] => Nonce[t] <= Nonce[u]
ASSUME BoundAssumption == SafeReorg \in Nat /\ MaxHeight \in Nat /\ MaxUndone \in Nat

VARIABLES
    bridge,         \* the bridge of the account
    known,          \* transactions the network has heard of
    height, tip,    \* height[t]: block of t, 0 if none; height of the last block
    toAdd,          \* transactions broadcast and not yet added to the account
    expired,        \* those older than OPERATION_OPTIMISTIC_RETENTION
    operations, pendingOperations, blockHeight,     \* fields of the account
    sync,           \* the synchronisation that has read the blockchain, if any
    late,           \* ghost: transactions of Ethereum told too late for mergeOps
    undone

chain == <<known, height, tip, undone>>
account == <<operations, pendingOperations, blockHeight>>
vars == <<bridge, chain, toAdd, expired, account, sync, late>>

seq(t) == IF bridge = "libcore" THEN 0 ELSE Nonce[t]

(* The operation of t: the libcore gives no sequence number, and the date of *)
(* a js operation is the one of its block.                                   *)
operation(t) ==
    [id |-> t, date |-> IF bridge = "js" THEN height[t] ELSE Received[t],
     height |-> height[t], seq |-> seq(t)]

History(ts) == newerFirst({operation(t) : t \in ts})

(* Only the libcore reports what is not in a block (txToOps skips the        *)
(* transactions without gas_used).                                           *)
onChain == IF bridge = "libcore" THEN known ELSE {t \in known : height[t] > 0}
-----------------------------------------------------------------------------
(* The sequence numbers are compared when both are there and not 0, even if  *)
(* the last operation was sent by another account.                           *)
shouldRetainPendingOperation(ops, t) ==
    /\ \/ ops = <<>> \/ Head(ops).seq = 0 \/ seq(t) = 0
       \/ seq(t) > Head(ops).seq
    /\ t \notin expired

appendPendingOp(pending, t) == <<t>> \o Among(pending, {u \in Own : seq(u) # seq(t)})

retained(pending, ops) == Among(pending, {t \in Own : shouldRetainPendingOperation(ops, t)})

latestNonce(ops) ==
    LET own == Among(ops, {o \in ToSet(ops) : o.id \in Own}) IN IF own = <<>> THEN 0 ELSE Head(own).seq

(* Mutant: an optimistic operation is kept as any other, as long as it is    *)
(* young and no greater sequence number is known.                            *)
postSyncPatch_Generic(pending, ops) == retained(pending, ops)

(* Mutant: the operation of the latest nonce itself is kept. *)
postSyncPatch_OffByOne(pending, ops) ==
    Among(pending, {t \in Own :
        /\ seq(t) # 0 /\ seq(t) >= latestNonce(ops)
        /\ shouldRetainPendingOperation(ops, t) \/ t \notin ids(ops)})

(* A pending operation of Ethereum is kept until it or a later one of the    *)
(* account is in the history.                                                *)
postSyncPatch(pending, ops) ==
    Among(pending, {t \in Own :
        /\ seq(t) # 0 /\ seq(t) > latestNonce(ops)
        /\ shouldRetainPendingOperation(ops, t) \/ t \notin ids(ops)})

stableOperations ==
    Among(operations, {o \in ToSet(operations) :
        o.height > 0 /\ blockHeight - o.height > SafeReorg})

(* What getAccountShape or buildAccount makes of the operations found. The   *)
(* Ethereum explorer returns what follows the block of the newest stable      *)
(* operation; polkadot asks for what follows the newest operation.            *)
shapeOperations ==
    CASE bridge = "libcore" -> minimalOperationsBuilder(operations, History(onChain))
      [] bridge = "ethereum" ->
           LET stable == stableOperations
               from == IF stable = <<>> THEN 0 ELSE Head(stable).height
           IN mergeOps(stable, History({t \in onChain : height[t] > from}))
      [] bridge = "js" ->
           LET startAt == IF operations = <<>> THEN 0 ELSE Head(operations).height + 1
           IN mergeOps(operations, History({t \in onChain : height[t] >= startAt}))

(* t is no newer than the oldest operation that mergeOps starts from.        *)
ComesLate(t) ==
    LET kept == IF stableOperations # <<>> THEN stableOperations ELSE operations
    IN kept # <<>> /\ Received[t] <= Last(kept).date
-----------------------------------------------------------------------------
(* External: the network and its miners. *)
ChainStep == UNCHANGED <<bridge, toAdd, expired, account, sync, late>>

InOrder(t) == \A u \in Txs : Received[u] < Received[t] => u \in known

Receive(t) ==
    /\ t \in Txs \ (Own \cup known)
    /\ InOrder(t)
    /\ known' = known \cup {t}
    /\ UNCHANGED <<height, tip, undone>>
    /\ ChainStep

(* The transactions of an account are mined in the order of their nonces.    *)
Mine(t) ==
    /\ t \in known /\ height[t] = 0
    /\ t \in Own => \A u \in Own : Nonce[u] < Nonce[t] => height[u] > 0
    /\ tip < MaxHeight
    /\ tip' = tip + 1
    /\ height' = [height EXCEPT ![t] = tip + 1]
    /\ UNCHANGED <<known, undone>>
    /\ ChainStep

(* The last blocks are left for the transactions that have none. *)
EmptyBlock ==
    /\ tip + Cardinality({t \in Txs : height[t] = 0}) + (MaxUndone - undone) < MaxHeight
    /\ tip' = tip + 1
    /\ UNCHANGED <<known, height, undone>>
    /\ ChainStep

(* An unconfirmed transaction of somebody else is forgotten. *)
Drop(t) ==
    /\ bridge = "libcore"
    /\ t \in known \ Own /\ height[t] = 0
    /\ undone < MaxUndone /\ undone' = undone + 1
    /\ known' = known \ {t}
    /\ UNCHANGED <<height, tip>>
    /\ ChainStep

(* The last block is replaced by one without transactions of the account;    *)
(* what polkadot reports is final.                                           *)
Reorg ==
    /\ bridge # "js"
    /\ undone < MaxUndone /\ undone' = undone + 1
    /\ \E t \in Txs : height[t] = tip /\ tip > 0 /\ height' = [height EXCEPT ![t] = 0]
    /\ UNCHANGED <<known, tip>>
    /\ ChainStep
-----------------------------------------------------------------------------
(* The account can pay from its first operation on. *)
Broadcast(t) ==
    /\ t \in Own \ known
    /\ operations # <<>>
    /\ InOrder(t)
    /\ known' = known \cup {t}
    /\ toAdd' = toAdd \cup {t}
    /\ UNCHANGED <<bridge, height, tip, undone, expired, account, sync, late>>

(* Done when broadcast has answered. *)
addPendingOperation(t) ==
    /\ t \in toAdd
    /\ toAdd' = toAdd \ {t}
    /\ pendingOperations' = appendPendingOp(pendingOperations, t)
    /\ UNCHANGED <<bridge, chain, expired, operations, blockHeight, sync, late>>

Expire(t) ==
    /\ t \in ToSet(pendingOperations) \ expired
    /\ expired' = expired \cup {t}
    /\ UNCHANGED <<bridge, chain, toAdd, account, sync, late>>

(* The requests of a synchronisation; found is a ghost, what it was told. A  *)
(* synchronisation that fails leaves no trace.                               *)
Fetch ==
    /\ sync = <<>>
    /\ sync' = <<[operations |-> shapeOperations, found |-> History(onChain), blockHeight |-> tip]>>
    /\ UNCHANGED <<bridge, chain, toAdd, expired, account, late>>

(* The updater is applied to the account. *)
Update ==
    /\ sync # <<>>
    /\ sync' = <<>>
    /\ blockHeight' = Head(sync).blockHeight
    /\ operations' = IF bridge = "libcore" THEN Head(sync).operations
                     ELSE mergeOps(operations, Head(sync).operations)
    /\ pendingOperations' =
         CASE bridge = "libcore" -> retained(pendingOperations, operations')
           [] bridge = "ethereum" -> postSyncPatch(pendingOperations, operations')
           [] bridge = "js" -> retained(pendingOperations, operations)
    /\ late' = IF bridge # "ethereum" THEN late
               ELSE (late \cup {t \in ids(Head(sync).found) : ComesLate(t)}) \ ids(operations')
    /\ UNCHANGED <<bridge, chain, toAdd, expired>>
-----------------------------------------------------------------------------
Init ==
    /\ bridge \in Bridges
    /\ known = {} /\ height = [t \in Txs |-> 0] /\ tip = 0 /\ undone = 0
    /\ toAdd = {} /\ expired = {} /\ late = {}
    /\ operations = <<>> /\ pendingOperations = <<>> /\ blockHeight = 0
    /\ sync = <<>>

Next ==
    \/ \E t \in Txs : \/ Receive(t) \/ Mine(t) \/ Drop(t)
                     \/ Broadcast(t) \/ addPendingOperation(t) \/ Expire(t)
    \/ EmptyBlock \/ Reorg
    \/ Fetch \/ Update

Spec == Init /\ [][Next]_vars
-----------------------------------------------------------------------------
OperationsType ==
    [id : Txs, date : Nat, height : 0..MaxHeight, seq : Nat]

SyncsType ==
    [operations : Seq(OperationsType), found : Seq(OperationsType), blockHeight : 0..MaxHeight]

TypeOK ==
    /\ bridge \in Bridges
    /\ known \subseteq Txs /\ height \in [Txs -> 0..MaxHeight] /\ tip \in 0..MaxHeight
    /\ toAdd \subseteq Own /\ expired \subseteq Own /\ late \subseteq Txs
    /\ operations \in Seq(OperationsType) /\ pendingOperations \in Seq(Own)
    /\ blockHeight \in 0..MaxHeight
    /\ sync \in Seq(SyncsType) /\ Len(sync) <= 1
    /\ undone \in 0..MaxUndone

(* Whatever the synchronisations are told and whenever they end, the history *)
(* has one operation of each id, newer first (mergeOps: "deduped and sorted   *)
(* from newer to older").                                                     *)
DedupedAndSorted ==
    \A i, j \in DOMAIN operations :
        i < j => /\ operations[i].id # operations[j].id
                 /\ operations[i].date > operations[j].date

Unchanged(o, found) == o \in ToSet(found)

(* The libcore reports no news below an operation the account already has;   *)
(* the explorer of Ethereum has moved no operation and none comes, or came,   *)
(* too late.                                                                  *)
NewsAreNewer(found) ==
    LET news == {n \in ToSet(found) : n \notin ToSet(operations)}
    IN CASE bridge = "libcore" ->
              \A n \in news, o \in ToSet(operations) : Unchanged(o, found) => n.date > o.date
         [] bridge = "ethereum" ->
              /\ \A o \in ToSet(operations) : Unchanged(o, found)
              /\ \A n \in news : ~ComesLate(n.id) /\ n.id \notin late
         [] bridge = "js" -> TRUE

(* As long as the news are the newest operations, a synchronisation makes    *)
(* the history exactly what the blockchain was: the shortcuts of               *)
(* minimalOperationsBuilder, the incremental requests and the two merges of    *)
(* makeSync skip nothing, even when operations have disappeared (libcore).     *)
HistoryIsExact ==
    [][Update /\ NewsAreNewer(Head(sync).found) => operations' = Head(sync).found]_vars

(* What postSyncPatch.js says of Ethereum: a pending operation is preserved  *)
(* until it appears in the operations or a later one of the account does,      *)
(* unless its nonce is 0, which postSyncPatchGen takes for none; and in        *)
(* accounts of the libcore until it is too old.                                *)
PendingIsPreserved ==
    [][Update => \A t \in ToSet(pendingOperations) \ ToSet(pendingOperations') :
         CASE bridge = "ethereum" ->
                seq(t) = 0 \/ \E o \in ToSet(operations') : o.id \in Own /\ seq(t) <= o.seq
           [] bridge = "libcore" -> t \in expired
           [] bridge = "js" -> TRUE]_vars

(* What the same comment says next: a pending operation of Ethereum leaves   *)
(* the account with the first synchronisation that finds it in the blockchain,*)
(* unless it came too late for mergeOps, which may never let it in.            *)
PendingIsReleased ==
    [][Update /\ bridge = "ethereum" => \A t \in ToSet(pendingOperations') :
         t \in ids(Head(sync).found) => t \in late']_vars

=============================================================================
