---------------------------- MODULE BridgeSyncProofs ----------------------------
(***************************************************************************)
(* Proofs about BridgeSync, for any accounts, priorities and concurrency.  *)
(* The first two theorems suppose nothing of the queue: a task of an       *)
(* unknown account changes nothing. The last one is about the queue.       *)
(***************************************************************************)
EXTENDS BridgeSync, FiniteSetTheorems, SequenceTheorems, TLAPS

(* The part of TypeOK that the sync states depend on.                        *)
SyncsOK ==
    /\ bridgeSyncState \in [Accounts -> SyncStates]
    /\ seenState \in [Accounts -> SyncStates]
    /\ active \in [Accounts -> Nat] /\ leaked \in [Accounts -> Nat]

IInv == SyncsOK /\ PendingIsTrue

LEMMA Initial == Init => IInv
  BY DEF Init, IInv, SyncsOK, PendingIsTrue, SyncStates

(* The requests of the application and the event loop touch no sync.         *)
LEMMA QuietSteps ==
    ASSUME IInv, UNCHANGED <<bridgeSyncState, active, leaked>>,
           seenState' \in {seenState, bridgeSyncState}
    PROVE  IInv'
  BY DEF IInv, SyncsOK, PendingIsTrue

(* A worker shows an account as pending only with a sync under way.          *)
LEMMA SynchronizeStep == ASSUME IInv, synchronize PROVE IInv'
<1> DEFINE a == Head(queue).account
<1>1. UNCHANGED leaked /\ (Skips(a) => UNCHANGED <<refs, active>>)
  BY DEF synchronize
<1>2. CASE Skips(a)
  BY <1>1, <1>2, QuietSteps DEF refs
<1>3. CASE ~Skips(a) /\ active' = [active EXCEPT ![a] = @ + 1] /\ setAccountSyncState(a, "pending")
  <2>1. bridgeSyncState' = [bridgeSyncState EXCEPT ![a] = "pending"] /\ seenState' = bridgeSyncState
    BY <1>3 DEF setAccountSyncState
  <2>2. SyncsOK'
    <3>1. active' \in [Accounts -> Nat]
      <4>1. active \in [Accounts -> Nat]
        BY DEF IInv, SyncsOK
      <4>2. a \in Accounts => active[a] + 1 \in Nat
        BY <4>1
      <4> HIDE DEF a
      <4> QED
        BY <1>3, <4>1, <4>2
    <3>2. bridgeSyncState' \in [Accounts -> SyncStates]
      BY <2>1 DEF IInv, SyncsOK, SyncStates
    <3> QED
      BY <1>1, <2>1, <3>1, <3>2 DEF IInv, SyncsOK
  <2>3. ASSUME NEW b \in Accounts, bridgeSyncState'[b] = "pending"
        PROVE  active'[b] + leaked'[b] > 0
    <3>1. CASE b = a
      <4>1. active'[b] = active[b] + 1 /\ active[b] \in Nat /\ leaked[b] \in Nat
        BY <1>3, <3>1 DEF IInv, SyncsOK
      <4> QED
        BY <1>1, <4>1
    <3>2. CASE b # a
      <4>1. active'[b] = active[b] /\ bridgeSyncState'[b] = bridgeSyncState[b]
        BY <1>3, <2>1, <3>2 DEF IInv, SyncsOK
      <4> QED
        BY <1>1, <2>3, <4>1 DEF IInv, PendingIsTrue
    <3> QED
      BY <3>1, <3>2
  <2> QED
    BY <2>2, <2>3 DEF IInv, PendingIsTrue
<1>4. CASE /\ ~Skips(a) /\ UNCHANGED active
           /\ bridgeSyncState' = [bridgeSyncState EXCEPT ![a] = "error"]
           /\ seenState' \in {bridgeSyncState, [bridgeSyncState EXCEPT ![a] = "pending"]}
  <2>1. SyncsOK'
    BY <1>1, <1>4 DEF IInv, SyncsOK, SyncStates
  <2>2. \A b \in Accounts : bridgeSyncState'[b] = "pending" => bridgeSyncState[b] = "pending"
    BY <1>4 DEF IInv, SyncsOK
  <2> QED
    BY <1>1, <1>4, <2>1, <2>2 DEF IInv, PendingIsTrue
<1> QED
  BY <1>1, <1>2, <1>3, <1>4 DEF synchronize, setAccountSyncState

(* A sync that ends leaves its account idle or in error.                     *)
LEMMA SyncEndsStep == ASSUME IInv, NEW a \in Accounts, SyncEnds(a) PROVE IInv'
<1>1. PICK s \in {"idle", "error"} :
        /\ bridgeSyncState' = [bridgeSyncState EXCEPT ![a] = s]
        /\ seenState' = bridgeSyncState
  BY DEF SyncEnds, endStates, setAccountSyncState
<1>2. active[a] > 0 /\ active' = [active EXCEPT ![a] = @ - 1] /\ UNCHANGED leaked
  BY DEF SyncEnds
<1>3. active[a] - 1 \in Nat
  BY <1>2 DEF IInv, SyncsOK
<1>4. SyncsOK'
  BY <1>1, <1>2, <1>3 DEF IInv, SyncsOK, SyncStates
<1>5. ASSUME NEW b \in Accounts, bridgeSyncState'[b] = "pending"
      PROVE  b # a /\ active'[b] = active[b] /\ bridgeSyncState[b] = "pending"
  BY <1>1, <1>2, <1>5 DEF IInv, SyncsOK
<1> QED
  BY <1>2, <1>4, <1>5 DEF IInv, PendingIsTrue

(* One whose subscriber throws is counted as leaked.                         *)
LEMMA SubscriberThrowsStep == ASSUME IInv, NEW a \in Accounts, SubscriberThrows(a) PROVE IInv'
<1>1. /\ active[a] > 0 /\ active' = [active EXCEPT ![a] = @ - 1]
      /\ leaked' = [leaked EXCEPT ![a] = @ + 1] /\ UNCHANGED refs
  BY DEF SubscriberThrows
<1>2. active[a] - 1 \in Nat /\ leaked[a] + 1 \in Nat
  BY <1>1 DEF IInv, SyncsOK
<1>3. SyncsOK'
  BY <1>1, <1>2 DEF IInv, SyncsOK, refs
<1>4. \A b \in Accounts : active'[b] + leaked'[b] = active[b] + leaked[b]
  BY <1>1, <1>2 DEF IInv, SyncsOK
<1> QED
  BY <1>1, <1>3, <1>4 DEF IInv, PendingIsTrue, refs

LEMMA Step == IInv /\ [Next]_vars => IInv'
<1> SUFFICES ASSUME IInv, [Next]_vars PROVE IInv'
  OBVIOUS
<1>1. CASE BACKGROUND_TICK
  BY <1>1, QuietSteps DEF BACKGROUND_TICK, Request, refs, workers
<1>2. ASSUME NEW p \in Priorities \cup {Background},
             \/ SET_SKIP_UNDER_PRIORITY(p) \/ SYNC_ALL_ACCOUNTS(p)
             \/ \E S \in SUBSET Accounts : SYNC_SOME_ACCOUNTS(S, p)
      PROVE  IInv'
  BY <1>2, QuietSteps DEF SET_SKIP_UNDER_PRIORITY, SYNC_ALL_ACCOUNTS, SYNC_SOME_ACCOUNTS,
     Request, refs, workers
<1>3. CASE FlushEffects \/ ProcessImmediate \/ EndProcess \/ \E S \in SUBSET Accounts : SetAccounts(S)
  BY <1>3, QuietSteps DEF FlushEffects, ProcessImmediate, EndProcess, SetAccounts, refs, workers
<1>4. CASE synchronize
  BY <1>4, SynchronizeStep
<1>5. CASE \E a \in Accounts : SyncEnds(a) \/ SubscriberThrows(a)
  BY <1>5, SyncEndsStep, SubscriberThrowsStep
<1>6. CASE UNCHANGED vars
  BY <1>6, QuietSteps DEF vars
<1> QED
  BY <1>1, <1>2, <1>3, <1>4, <1>5, <1>6 DEF Next
-----------------------------------------------------------------------------
(* An account shown as pending is being synchronised, unless the subscriber *)
(* of its sync threw (BridgeSync.js:128-223), however late the refs are.      *)
THEOREM PendingIsReal == Spec => []PendingIsTrue
<1>1. IInv => PendingIsTrue
  BY DEF IInv
<1> QED
  BY <1>1, Initial, Step, PTL DEF Spec
-----------------------------------------------------------------------------
(* What SlotsAreExact needs: the syncs are finitely many, and what an effect *)
(* will see are accounts, so that each slot taken counts in `active`.        *)
SInv ==
    /\ IInv
    /\ accounts \subseteq Accounts /\ seenAccounts \subseteq Accounts
    /\ IsFiniteSet(Syncs(active)) /\ IsFiniteSet(Syncs(leaked))
    /\ SlotsAreExact

(* One more sync of an account.                                              *)
LEMMA OneMore ==
    ASSUME NEW f \in [Accounts -> Nat], NEW a \in Accounts, IsFiniteSet(Syncs(f))
    PROVE  LET g == [f EXCEPT ![a] = @ + 1] IN
           /\ IsFiniteSet(Syncs(g))
           /\ Cardinality(Syncs(g)) = Cardinality(Syncs(f)) + 1
<1> DEFINE g == [f EXCEPT ![a] = @ + 1]
           new == <<a, f[a] + 1>>
<1>1. \A b \in Accounts : g[b] = IF b = a THEN f[a] + 1 ELSE f[b]
  OBVIOUS
<1>2. Syncs(g) = Syncs(f) \cup {new}
  <2>1. ASSUME NEW b \in Accounts, NEW i
        PROVE  i \in 1..g[b] <=> i \in 1..f[b] \/ (b = a /\ i = f[a] + 1)
    BY <1>1
  <2> QED
    BY <2>1 DEF Syncs
<1>3. new \notin Syncs(f)
  BY DEF Syncs
<1>4. /\ IsFiniteSet(Syncs(f) \cup {new})
      /\ Cardinality(Syncs(f) \cup {new}) = Cardinality(Syncs(f)) + 1
  <2>1. IsFiniteSet(Syncs(f))
    OBVIOUS
  <2> HIDE DEF new
  <2> QED
    BY <2>1, <1>3, FS_AddElement
<1> QED
  BY <1>2, <1>4

(* One sync less.                                                            *)
LEMMA OneLess ==
    ASSUME NEW f \in [Accounts -> Nat], NEW a \in Accounts, f[a] > 0, IsFiniteSet(Syncs(f))
    PROVE  LET g == [f EXCEPT ![a] = @ - 1] IN
           /\ IsFiniteSet(Syncs(g))
           /\ Cardinality(Syncs(g)) = Cardinality(Syncs(f)) - 1
<1> DEFINE g == [f EXCEPT ![a] = @ - 1]
           old == <<a, f[a]>>
<1>1. \A b \in Accounts : g[b] = IF b = a THEN f[a] - 1 ELSE f[b]
  OBVIOUS
<1>2. Syncs(g) = Syncs(f) \ {old}
  <2>1. ASSUME NEW b \in Accounts, NEW i
        PROVE  i \in 1..g[b] <=> i \in 1..f[b] /\ ~(b = a /\ i = f[a])
    BY <1>1
  <2> QED
    BY <2>1 DEF Syncs
<1>3. old \in Syncs(f)
  BY DEF Syncs
<1> QED
  BY <1>2, <1>3, FS_RemoveElement
(* What leaves the slots, the syncs and the known accounts alone.            *)
LEMMA QuietForSlots ==
    ASSUME SInv, IInv', UNCHANGED <<numRunning, active, leaked>>,
           accounts' \subseteq Accounts, seenAccounts' \in {seenAccounts, accounts}
    PROVE  SInv'
  BY DEF SInv, SlotsAreExact, Syncs

LEMMA SlotsInitial == Init => SInv
<1> SUFFICES ASSUME Init PROVE SInv
  OBVIOUS
<1>1. IInv
  BY Initial
<1>2. Syncs(active) = {} /\ Syncs(leaked) = {}
  BY DEF Init, Syncs
<1>3. IsFiniteSet({}) /\ Cardinality({}) = 0
  BY FS_EmptySet
<1>4. accounts \subseteq Accounts /\ seenAccounts \subseteq Accounts /\ numRunning = 0
  BY DEF Init
<1> QED
  BY <1>1, <1>2, <1>3, <1>4 DEF SInv, SlotsAreExact

(* A worker that skips its task gives the slot back.                         *)
LEMMA SynchronizeSlots == ASSUME SInv, IInv', synchronize PROVE SInv'
<1> DEFINE a == Head(queue).account
<1>1. UNCHANGED leaked /\ (Skips(a) => UNCHANGED <<refs, active, numRunning>>)
  BY DEF synchronize, nextOfSkip
<1>2. CASE Skips(a)
  BY <1>1, <1>2, QuietForSlots DEF refs, SInv
<1>3. CASE ~Skips(a) /\ UNCHANGED <<numRunning, active>>
  BY <1>1, <1>3, QuietForSlots DEF synchronize, setAccountSyncState, SInv
<1>4. CASE /\ ~Skips(a)
           /\ numRunning' = numRunning + 1
           /\ active' = [active EXCEPT ![a] = @ + 1]
           /\ setAccountSyncState(a, "pending")
  <2>1. a \in Accounts
    BY <1>4 DEF Skips, SInv
  <2>2. active \in [Accounts -> Nat] /\ IsFiniteSet(Syncs(active))
    BY DEF SInv, IInv, SyncsOK
  <2>3. IsFiniteSet(Syncs(active')) /\ Cardinality(Syncs(active')) = Cardinality(Syncs(active)) + 1
    <3> HIDE DEF a
    <3> QED
      BY <1>4, <2>1, <2>2, OneMore
  <2>4. Cardinality(Syncs(active)) \in Nat /\ Cardinality(Syncs(leaked)) \in Nat
    BY FS_CardinalityType DEF SInv
  <2>5. Syncs(leaked') = Syncs(leaked) /\ Syncs(active)' = Syncs(active')
    BY <1>1 DEF Syncs
  <2>6. SlotsAreExact'
    BY <1>4, <2>3, <2>4, <2>5, <1>1 DEF SInv, SlotsAreExact
  <2> QED
    BY <1>1, <1>4, <2>3, <2>5, <2>6 DEF SInv, setAccountSyncState
<1> QED
  BY <1>2, <1>3, <1>4 DEF synchronize

LEMMA SyncEndsSlots == ASSUME SInv, IInv', NEW a \in Accounts, SyncEnds(a) PROVE SInv'
<1>1. /\ active[a] > 0 /\ active' = [active EXCEPT ![a] = @ - 1]
      /\ numRunning' = numRunning - 1 /\ UNCHANGED <<leaked, accounts>>
      /\ seenAccounts' = accounts
  BY DEF SyncEnds, endStates, setAccountSyncState
<1>2. active \in [Accounts -> Nat] /\ IsFiniteSet(Syncs(active))
  BY DEF SInv, IInv, SyncsOK
<1>3. IsFiniteSet(Syncs(active')) /\ Cardinality(Syncs(active')) = Cardinality(Syncs(active)) - 1
  BY <1>1, <1>2, OneLess
<1>4. Cardinality(Syncs(active)) \in Nat /\ Cardinality(Syncs(leaked)) \in Nat
  BY FS_CardinalityType DEF SInv
<1> QED
  BY <1>1, <1>3, <1>4 DEF SInv, SlotsAreExact

(* A sync whose subscriber throws keeps its slot.                            *)
LEMMA SubscriberThrowsSlots ==
    ASSUME SInv, IInv', NEW a \in Accounts, SubscriberThrows(a) PROVE SInv'
<1>1. /\ active[a] > 0 /\ active' = [active EXCEPT ![a] = @ - 1]
      /\ leaked' = [leaked EXCEPT ![a] = @ + 1] /\ UNCHANGED <<refs, numRunning>>
  BY DEF SubscriberThrows
<1>2. /\ active \in [Accounts -> Nat] /\ IsFiniteSet(Syncs(active))
      /\ leaked \in [Accounts -> Nat] /\ IsFiniteSet(Syncs(leaked))
  BY DEF SInv, IInv, SyncsOK
<1>3. IsFiniteSet(Syncs(active')) /\ Cardinality(Syncs(active')) = Cardinality(Syncs(active)) - 1
  BY <1>1, <1>2, OneLess
<1>4. IsFiniteSet(Syncs(leaked')) /\ Cardinality(Syncs(leaked')) = Cardinality(Syncs(leaked)) + 1
  BY <1>1, <1>2, OneMore
<1>5. Cardinality(Syncs(active)) \in Nat /\ Cardinality(Syncs(leaked)) \in Nat
  BY FS_CardinalityType DEF SInv
<1> QED
  BY <1>1, <1>3, <1>4, <1>5 DEF SInv, SlotsAreExact, refs

LEMMA SlotsStep == SInv /\ [Next]_vars => SInv'
<1> SUFFICES ASSUME SInv, [Next]_vars PROVE SInv'
  OBVIOUS
<1>0. IInv'
  BY Step DEF SInv
<1>1. CASE BACKGROUND_TICK
  BY <1>0, <1>1, QuietForSlots DEF BACKGROUND_TICK, Request, refs, workers, SInv
<1>2. ASSUME NEW p \in Priorities \cup {Background},
             \/ SET_SKIP_UNDER_PRIORITY(p) \/ SYNC_ALL_ACCOUNTS(p)
             \/ \E S \in SUBSET Accounts : SYNC_SOME_ACCOUNTS(S, p)
      PROVE  SInv'
  BY <1>0, <1>2, QuietForSlots DEF SET_SKIP_UNDER_PRIORITY, SYNC_ALL_ACCOUNTS,
     SYNC_SOME_ACCOUNTS, Request, refs, workers, SInv
<1>3. CASE FlushEffects \/ ProcessImmediate \/ EndProcess
  BY <1>0, <1>3, QuietForSlots DEF FlushEffects, ProcessImmediate, EndProcess, refs, workers, SInv
<1>4. ASSUME NEW S \in SUBSET Accounts, SetAccounts(S) PROVE SInv'
  BY <1>0, <1>4, QuietForSlots DEF SetAccounts, workers, SInv
<1>5. CASE synchronize
  BY <1>0, <1>5, SynchronizeSlots
<1>6. CASE \E a \in Accounts : SyncEnds(a) \/ SubscriberThrows(a)
  BY <1>0, <1>6, SyncEndsSlots, SubscriberThrowsSlots
<1>7. CASE UNCHANGED vars
  BY <1>0, <1>7, QuietForSlots DEF vars, refs, workers, SInv
<1> QED
  BY <1>1, <1>2, <1>3, <1>4, <1>5, <1>6, <1>7 DEF Next

(* Every slot the queue believes taken is that of a sync under way, or of one *)
(* whose subscriber threw (BridgeSync.js:100-223): no skip, error or end      *)
(* forgets to call next(), or calls it twice.                                *)
THEOREM SlotsAreAccountedFor == Spec => []SlotsAreExact
<1>1. SInv => SlotsAreExact
  BY DEF SInv
<1> QED
  BY <1>1, SlotsInitial, SlotsStep, PTL DEF Spec
-----------------------------------------------------------------------------
(* TypeOK needs the slots to be exact, so that giving one back leaves a      *)
(* natural number, and the queue in order, so that `ahead` is a position.    *)
LEMMA LeastOf ==
    ASSUME NEW S \in SUBSET Nat, S # {}
    PROVE  \E m \in S : \A n \in S : m <= n
<1>1. PICK m \in S : \A n \in S : ~(<<n, m>> \in OpToRel(<, Nat))
  BY NatLessThanWellFounded, WFMin
<1>2. ASSUME NEW n \in S PROVE m <= n
  <2>1. n \in Nat /\ m \in Nat /\ ~(n < m)
    BY <1>1 DEF OpToRel
  <2> QED
    BY <2>1
<1> QED
  BY <1>2

LEMMA TaskFacts ==
    /\ \A p \in Priorities \cup {Background} : p \in Int /\ stored(p) \in Int
    /\ \A o \in Tasks : o.priority \in Int
<1>1. \A p \in Priorities \cup {Background} : p \in Int /\ -p \in Int
  BY PrioritiesAssumption DEF Background
<1>2. ASSUME NEW o \in Tasks PROVE o.priority \in Int
  <2>1. o.priority \in {-p : p \in Priorities \cup {Background}}
    BY DEF Tasks
  <2>2. PICK p \in Priorities \cup {Background} : o.priority = -p
    BY <2>1
  <2> QED
    BY <1>1, <2>2
<1> QED
  BY <1>1, <1>2 DEF stored

LEMMA AheadFacts ==
    ASSUME NEW q \in Seq(Tasks), InPriorityOrder(q), NEW p \in Int
    PROVE  /\ ahead(q, p) \in 0..Len(q)
           /\ \A i \in 1..Len(q) : q[i].priority <= p <=> i <= ahead(q, p)
<1> DEFINE n == Len(q)
           after == {i \in 1..n : q[i].priority > p}
<1>1. n \in Nat /\ DOMAIN q = 1..n
  OBVIOUS
<1>2. \A i \in 1..n : q[i].priority \in Int
  BY TaskFacts
<1>3. \E k \in 0..n : \A i \in 1..n : q[i].priority <= p <=> i <= k
  <2>1. CASE after = {}
    <3>1. n \in 0..n /\ \A i \in 1..n : q[i].priority <= p /\ i <= n
      BY <1>1, <1>2, <2>1
    <3> QED
      BY <3>1
  <2>2. CASE after # {}
    <3>1. PICK m \in after : \A i \in after : m <= i
      <4>1. after \in SUBSET Nat
        BY <1>1
      <4> HIDE DEF after
      <4> QED
        BY <2>2, <4>1, LeastOf
    <3>2. m \in 1..n /\ m - 1 \in 0..n
      BY <1>1
    <3>3. ASSUME NEW i \in 1..n PROVE q[i].priority <= p <=> i <= m - 1
      <4>1. CASE i < m
        BY <1>2, <3>1, <3>2, <4>1
      <4>2. CASE i >= m
        <5>1. q[m].priority <= q[i].priority
          BY <1>1, <1>2, <3>2, <4>2 DEF InPriorityOrder
        <5>2. q[m].priority > p
          BY <3>1
        <5> QED
          BY <1>2, <3>2, <4>2, <5>1, <5>2
      <4> QED
        BY <3>2, <4>1, <4>2
    <3> QED
      BY <3>2, <3>3
  <2> QED
    BY <2>1, <2>2
<1> QED
  BY <1>1, <1>3 DEF ahead

(* Two pieces put together.                                                  *)
LEMMA JoinFacts ==
    ASSUME NEW a \in Seq(Tasks), InPriorityOrder(a), NEW b \in Seq(Tasks), InPriorityOrder(b),
           \A i \in 1..Len(a), j \in 1..Len(b) : a[i].priority <= b[j].priority
    PROVE  /\ a \o b \in Seq(Tasks) /\ InPriorityOrder(a \o b)
           /\ Len(a \o b) = Len(a) + Len(b)
           /\ \A i \in 1..Len(a \o b) :
                (a \o b)[i] = IF i <= Len(a) THEN a[i] ELSE b[i - Len(a)]
<1> DEFINE c == a \o b
<1>1. /\ Len(a) \in Nat /\ Len(b) \in Nat /\ c \in Seq(Tasks) /\ Len(c) = Len(a) + Len(b)
      /\ DOMAIN a = 1..Len(a) /\ DOMAIN b = 1..Len(b) /\ DOMAIN c = 1..Len(c)
  OBVIOUS
<1>2. \A i \in 1..Len(c) : c[i] = IF i <= Len(a) THEN a[i] ELSE b[i - Len(a)]
  BY <1>1
<1>3. ASSUME NEW i \in 1..Len(c), NEW j \in 1..Len(c), i < j
      PROVE  c[i].priority <= c[j].priority
  <2>1. CASE j <= Len(a)
    <3>1. i \in 1..Len(a) /\ j \in 1..Len(a) /\ c[i] = a[i] /\ c[j] = a[j]
      BY <1>1, <1>2, <1>3, <2>1
    <3> QED
      BY <1>1, <1>3, <3>1 DEF InPriorityOrder
  <2>2. CASE i <= Len(a) /\ j > Len(a)
    <3>1. i \in 1..Len(a) /\ j - Len(a) \in 1..Len(b) /\ c[i] = a[i] /\ c[j] = b[j - Len(a)]
      BY <1>1, <1>2, <1>3, <2>2
    <3> QED
      BY <3>1
  <2>3. CASE i > Len(a)
    <3>1. /\ i - Len(a) \in 1..Len(b) /\ j - Len(a) \in 1..Len(b) /\ i - Len(a) < j - Len(a)
          /\ c[i] = b[i - Len(a)] /\ c[j] = b[j - Len(a)]
      BY <1>1, <1>2, <1>3, <2>3
    <3> QED
      BY <1>1, <3>1 DEF InPriorityOrder
  <2> QED
    BY <1>1, <1>3, <2>1, <2>2, <2>3
<1>4. InPriorityOrder(c)
  BY <1>1, <1>3 DEF InPriorityOrder
<1> HIDE DEF c
<1> QED
  BY <1>1, <1>2, <1>4 DEF c

(* A queue cut after its first k tasks.                                      *)
LEMMA CutFacts ==
    ASSUME NEW q \in Seq(Tasks), InPriorityOrder(q), NEW k \in 0..Len(q)
    PROVE  /\ SubSeq(q, 1, k) \in Seq(Tasks) /\ InPriorityOrder(SubSeq(q, 1, k))
           /\ Len(SubSeq(q, 1, k)) = k /\ \A i \in 1..k : SubSeq(q, 1, k)[i] = q[i]
           /\ SubSeq(q, k + 1, Len(q)) \in Seq(Tasks)
           /\ InPriorityOrder(SubSeq(q, k + 1, Len(q)))
           /\ Len(SubSeq(q, k + 1, Len(q))) = Len(q) - k
           /\ \A i \in 1..(Len(q) - k) : SubSeq(q, k + 1, Len(q))[i] = q[k + i]
<1> DEFINE a == SubSeq(q, 1, k)
           b == SubSeq(q, k + 1, Len(q))
<1>1. k \in Nat /\ Len(q) \in Nat /\ Len(q) - k \in Nat /\ DOMAIN q = 1..Len(q)
  OBVIOUS
<1>2. a \in Seq(Tasks) /\ Len(a) = k /\ DOMAIN a = 1..k /\ \A i \in 1..k : a[i] = q[i]
  BY <1>1
<1>3. /\ b \in Seq(Tasks) /\ Len(b) = Len(q) - k /\ DOMAIN b = 1..(Len(q) - k)
      /\ \A i \in 1..(Len(q) - k) : b[i] = q[k + i]
  <2>1. k + 1 \in Int /\ Len(q) \in Int /\ \A i \in (k + 1)..Len(q) : q[i] \in Tasks
    BY <1>1
  <2>2. /\ b \in Seq(Tasks) /\ Len(b) = IF k + 1 <= Len(q) THEN Len(q) - (k + 1) + 1 ELSE 0
        /\ \A i \in 1..(Len(q) - (k + 1) + 1) : b[i] = q[(k + 1) + i - 1]
    BY <2>1, SubSeqProperties, SMTT(60)
  <2> HIDE DEF b
  <2>3. Len(b) = Len(q) - k /\ Len(q) - (k + 1) + 1 = Len(q) - k
    <3>1. k \in Nat /\ Len(q) \in Nat /\ k <= Len(q)
      BY <1>1
    <3>2. Len(q) - (k + 1) + 1 = Len(q) - k /\ (~(k + 1 <= Len(q)) => Len(q) - k = 0)
      BY <3>1
    <3>3. Len(b) = IF k + 1 <= Len(q) THEN Len(q) - (k + 1) + 1 ELSE 0
      BY <2>2
    <3> QED
      BY <3>2, <3>3
  <2>4. \A i \in 1..(Len(q) - k) : (k + 1) + i - 1 = k + i
    BY <1>1
  <2> QED
    BY <2>2, <2>3, <2>4
<1>5. 1..k \subseteq 1..Len(q) /\ \A i \in 1..(Len(q) - k) : k + i \in 1..Len(q)
  BY <1>1
<1> HIDE DEF a, b
<1>6. InPriorityOrder(a)
  BY <1>1, <1>2, <1>5 DEF InPriorityOrder
<1>7. InPriorityOrder(b)
  <2>1. ASSUME NEW i \in 1..(Len(q) - k), NEW j \in 1..(Len(q) - k), i < j
        PROVE  b[i].priority <= b[j].priority
    <3>1. k + i \in 1..Len(q) /\ k + j \in 1..Len(q) /\ k + i < k + j
      BY <1>1, <1>5, <2>1
    <3>2. q[k + i].priority <= q[k + j].priority
      BY <1>1, <3>1 DEF InPriorityOrder
    <3> QED
      BY <1>3, <3>2
  <2> QED
    BY <1>3, <2>1 DEF InPriorityOrder
<1> QED
  BY <1>2, <1>3, <1>6, <1>7 DEF a, b

LEMMA RemoveFacts ==
    ASSUME NEW q \in Seq(Tasks), InPriorityOrder(q), NEW p \in Int
    PROVE  remove(q, p) \in Seq(Tasks) /\ InPriorityOrder(remove(q, p))
<1> DEFINE k == ahead(q, p - 1)
           l == ahead(q, p)
           a == SubSeq(q, 1, k)
           b == SubSeq(q, l + 1, Len(q))
<1>1. Len(q) \in Nat /\ \A i \in 1..Len(q) : q[i].priority \in Int
  BY TaskFacts
<1>2. k \in 0..Len(q) /\ \A i \in 1..Len(q) : q[i].priority <= p - 1 <=> i <= k
  <2>1. p - 1 \in Int
    OBVIOUS
  <2> QED
    BY <2>1, AheadFacts
<1>3. l \in 0..Len(q) /\ \A i \in 1..Len(q) : q[i].priority <= p <=> i <= l
  BY AheadFacts
<1> HIDE DEF k, l
<1>4. /\ a \in Seq(Tasks) /\ InPriorityOrder(a) /\ Len(a) = k /\ \A i \in 1..k : a[i] = q[i]
      /\ b \in Seq(Tasks) /\ InPriorityOrder(b) /\ Len(b) = Len(q) - l
      /\ \A i \in 1..(Len(q) - l) : b[i] = q[l + i]
  BY <1>2, <1>3, CutFacts
<1> HIDE DEF a, b
<1>5. ASSUME NEW i \in 1..Len(a), NEW j \in 1..Len(b) PROVE a[i].priority <= b[j].priority
  <2>1. /\ i \in 1..Len(q) /\ i <= k /\ a[i] = q[i]
        /\ l + j \in 1..Len(q) /\ ~(l + j <= l) /\ b[j] = q[l + j]
    BY <1>1, <1>2, <1>3, <1>4
  <2>2. q[i].priority <= p - 1 /\ ~(q[l + j].priority <= p)
    BY <1>2, <1>3, <2>1
  <2>3. q[i].priority \in Int /\ q[l + j].priority \in Int
    BY <1>1, <2>1
  <2> QED
    BY <2>1, <2>2, <2>3
<1>6. a \o b \in Seq(Tasks) /\ InPriorityOrder(a \o b)
  BY <1>4, <1>5, JoinFacts
<1> QED
  BY <1>6 DEF remove, a, b, k, l

LEMMA PushFacts ==
    ASSUME NEW q \in Seq(Tasks), InPriorityOrder(q), NEW list \in Seq(Accounts),
           NEW r \in Priorities \cup {Background}, NEW p, p = stored(r)
    PROVE  push(q, list, p) \in Seq(Tasks) /\ InPriorityOrder(push(q, list, p))
<1> DEFINE k == ahead(q, p)
           a == SubSeq(q, 1, k)
           m == [i \in DOMAIN list |-> [account |-> list[i], priority |-> p]]
           b == SubSeq(q, k + 1, Len(q))
<1>1. p \in Int /\ Len(q) \in Nat /\ \A i \in 1..Len(q) : q[i].priority \in Int
  BY TaskFacts
<1>2. k \in 0..Len(q) /\ \A i \in 1..Len(q) : q[i].priority <= p <=> i <= k
  BY <1>1, AheadFacts
<1> HIDE DEF k
<1>3. /\ a \in Seq(Tasks) /\ InPriorityOrder(a) /\ Len(a) = k /\ \A i \in 1..k : a[i] = q[i]
      /\ b \in Seq(Tasks) /\ InPriorityOrder(b) /\ Len(b) = Len(q) - k
      /\ \A i \in 1..(Len(q) - k) : b[i] = q[k + i]
  BY <1>2, CutFacts
<1>4. /\ m \in Seq(Tasks) /\ Len(m) = Len(list) /\ Len(m) \in Nat /\ DOMAIN m = 1..Len(m)
      /\ \A i \in 1..Len(m) : m[i].priority = p
  <2>1. Len(list) \in Nat /\ DOMAIN list = 1..Len(list) /\ \A i \in 1..Len(list) : list[i] \in Accounts
    OBVIOUS
  <2>2. \A i \in 1..Len(list) : [account |-> list[i], priority |-> p] \in Tasks
    BY <2>1 DEF Tasks, stored
  <2> QED
    BY <2>1, <2>2
<1> HIDE DEF a, m, b
<1>5. InPriorityOrder(m)
  BY <1>1, <1>4 DEF InPriorityOrder
<1>6. ASSUME NEW i \in 1..Len(a), NEW j \in 1..Len(m) PROVE a[i].priority <= m[j].priority
  <2>1. i \in 1..Len(q) /\ i <= k /\ a[i] = q[i]
    BY <1>1, <1>2, <1>3
  <2> QED
    BY <1>2, <1>4, <2>1
<1>7. /\ a \o m \in Seq(Tasks) /\ InPriorityOrder(a \o m) /\ Len(a \o m) = Len(a) + Len(m)
      /\ \A i \in 1..Len(a \o m) : (a \o m)[i] = IF i <= Len(a) THEN a[i] ELSE m[i - Len(a)]
  BY <1>3, <1>4, <1>5, <1>6, JoinFacts
<1> DEFINE c == a \o m
<1>8. /\ c \in Seq(Tasks) /\ InPriorityOrder(c) /\ Len(c) = Len(a) + Len(m)
      /\ \A i \in 1..Len(c) : c[i] = IF i <= Len(a) THEN a[i] ELSE m[i - Len(a)]
  BY <1>7
<1> HIDE DEF c
<1>9. ASSUME NEW i \in 1..Len(c), NEW j \in 1..Len(b) PROVE c[i].priority <= b[j].priority
  <2>1. k + j \in 1..Len(q) /\ ~(k + j <= k) /\ b[j] = q[k + j]
    BY <1>1, <1>2, <1>3
  <2>2. q[k + j].priority \in Int /\ q[k + j].priority > p
    BY <1>1, <1>2, <2>1
  <2>3. c[i].priority <= p
    <3>1. CASE i <= Len(a)
      <4>1. i \in 1..Len(q) /\ i <= k /\ i \in 1..k /\ c[i] = q[i]
        BY <1>1, <1>2, <1>3, <1>8, <3>1
      <4> QED
        BY <1>2, <4>1
    <3>2. CASE i > Len(a)
      <4>1. i - Len(a) \in 1..Len(m) /\ c[i] = m[i - Len(a)]
        BY <1>2, <1>3, <1>4, <1>8, <3>2
      <4>2. c[i].priority = p
        BY <1>4, <4>1
      <4> QED
        BY <1>1, <4>2
    <3> QED
      BY <1>2, <1>3, <3>1, <3>2
  <2>4. c[i].priority \in Int
    BY <1>8, TaskFacts
  <2> QED
    BY <1>1, <2>1, <2>2, <2>3, <2>4
<1>10. c \o b \in Seq(Tasks) /\ InPriorityOrder(c \o b)
  BY <1>3, <1>8, <1>9, JoinFacts
<1> QED
  BY <1>10 DEF push, c, a, m, b, k

LEMMA ListFacts ==
    ASSUME NEW S \in SUBSET Accounts
    PROVE  /\ SetToSeq(S) \in Seq(Accounts)
           /\ \A list \in SetToSeqs(S) : list \in Seq(Accounts)
<1> DEFINE n == Cardinality(S)
<1>1. IsFiniteSet(S)
  BY AccountsAssumption, FS_Subset
<1>2. n \in Nat /\ ExistsBijection(1..n, S)
  BY <1>1, FS_CardinalityType
<1>3. PICK f \in [1..n -> S] : IsInjective(f)
  BY <1>2 DEF ExistsBijection, Bijection, Injection
<1>4. SetToSeq(S) \in [1..n -> S]
  BY <1>3 DEF SetToSeq
<1>5. \A list \in SetToSeqs(S) : list \in [1..n -> S]
  BY DEF SetToSeqs
<1>6. [1..n -> S] \subseteq Seq(Accounts)
  BY <1>2
<1> QED
  BY <1>4, <1>5, <1>6

(* The part of TypeOK the requests change.                                   *)
QueueOK == queue \in Seq(Tasks) /\ InPriorityOrder(queue) /\ immediate \in BOOLEAN

LEMMA ScheduleFacts ==
    ASSUME QueueOK, NEW list \in Seq(Accounts), NEW p \in Priorities \cup {Background},
           schedule(list, p)
    PROVE  QueueOK'
<1>1. CASE UNCHANGED <<queue, immediate>>
  BY <1>1 DEF QueueOK, InPriorityOrder
<1>2. CASE /\ queue' = push(remove(queue, p), list, stored(p))
           /\ immediate' = (immediate \/ list # <<>>)
  <2>1. p \in Int
    BY TaskFacts
  <2>2. remove(queue, p) \in Seq(Tasks) /\ InPriorityOrder(remove(queue, p))
    BY <2>1, RemoveFacts DEF QueueOK
  <2>3. \A q : q \in Seq(Tasks) /\ InPriorityOrder(q) =>
          push(q, list, stored(p)) \in Seq(Tasks) /\ InPriorityOrder(push(q, list, stored(p)))
    BY PushFacts
  <2>4. queue' \in Seq(Tasks) /\ InPriorityOrder(queue')
    BY <1>2, <2>2, <2>3
  <2>5. immediate' \in BOOLEAN
    BY <1>2 DEF QueueOK
  <2> QED
    BY <2>4, <2>5 DEF QueueOK
<1> QED
  BY <1>1, <1>2 DEF schedule

(* TypeOK, with what it rests on.                                            *)
TInv == SInv /\ TypeOK

LEMMA TypeInitial == Init => TInv
<1> SUFFICES ASSUME Init PROVE TInv
  OBVIOUS
<1>1. SInv
  BY SlotsInitial
<1>2. InPriorityOrder(<<>>)
  BY DEF InPriorityOrder
<1>3. /\ accounts \subseteq Accounts /\ seenAccounts \subseteq Accounts
      /\ skipUnderPriority \in Priorities \cup {Background}
      /\ queue = <<>> /\ immediate \in BOOLEAN /\ processing \in BOOLEAN
      /\ numRunning \in 0..SYNC_MAX_CONCURRENT /\ requests \in 0..MaxRequests
  <2>1. 0 \in 0..SYNC_MAX_CONCURRENT /\ 0 \in 0..MaxRequests
    BY ConcurrencyAssumption, BoundAssumption
  <2>2. numRunning = 0 /\ requests = 0
    BY DEF Init
  <2>3. /\ accounts \subseteq Accounts /\ seenAccounts \subseteq Accounts
        /\ skipUnderPriority \in Priorities \cup {Background}
        /\ queue = <<>> /\ immediate \in BOOLEAN /\ processing \in BOOLEAN
    BY DEF Init
  <2> QED
    BY <2>1, <2>2, <2>3
<1>4. queue \in Seq(Tasks)
  BY <1>3
<1>5. SyncsOK
  BY <1>1 DEF SInv, IInv
<1> QED
  BY <1>1, <1>2, <1>3, <1>4, <1>5 DEF TInv, TypeOK, SyncsOK

(* The sync states and the syncs are typed by SInv.                          *)
LEMMA TypeFromParts ==
    ASSUME SInv', QueueOK', skipUnderPriority' \in Priorities \cup {Background},
           processing' \in BOOLEAN, numRunning' \in 0..SYNC_MAX_CONCURRENT,
           requests' \in 0..MaxRequests
    PROVE  TInv'
  BY DEF TInv, TypeOK, SInv, IInv, SyncsOK, QueueOK

LEMMA RequestType ==
    ASSUME TypeOK, Request
    PROVE  /\ processing' \in BOOLEAN /\ numRunning' \in 0..SYNC_MAX_CONCURRENT
           /\ requests' \in 0..MaxRequests
  BY BoundAssumption DEF TypeOK, Request, workers

(* A request schedules some accounts or leaves the queue alone.              *)
LEMMA RequestsType ==
    ASSUME TInv, SInv', NEW p \in Priorities \cup {Background},
           \/ BACKGROUND_TICK
           \/ SET_SKIP_UNDER_PRIORITY(p) \/ SYNC_ALL_ACCOUNTS(p)
           \/ \E S \in SUBSET Accounts : SYNC_SOME_ACCOUNTS(S, p)
    PROVE  TInv'
<1>1. QueueOK /\ seenAccounts \in SUBSET Accounts /\ Background \in Priorities \cup {Background}
  BY DEF TInv, TypeOK, QueueOK
<1>2. UNCHANGED <<queue, immediate>> => QueueOK'
  BY <1>1 DEF QueueOK, InPriorityOrder
<1>3. \A list \in shuffledAccountIds : list \in Seq(Accounts)
  BY <1>1, ListFacts DEF shuffledAccountIds
<1>4. \A S \in SUBSET Accounts : SetToSeq(S) \in Seq(Accounts)
  BY ListFacts
<1>5. CASE BACKGROUND_TICK
  BY <1>1, <1>3, <1>5, ScheduleFacts, RequestType, TypeFromParts
  DEF BACKGROUND_TICK, TInv, TypeOK
<1>6. CASE SET_SKIP_UNDER_PRIORITY(p)
  BY <1>1, <1>2, <1>3, <1>6, ScheduleFacts, RequestType, TypeFromParts
  DEF SET_SKIP_UNDER_PRIORITY, TInv, TypeOK
<1>7. CASE SYNC_ALL_ACCOUNTS(p)
  BY <1>1, <1>3, <1>7, ScheduleFacts, RequestType, TypeFromParts
  DEF SYNC_ALL_ACCOUNTS, TInv, TypeOK
<1>8. CASE \E S \in SUBSET Accounts : SYNC_SOME_ACCOUNTS(S, p)
  BY <1>1, <1>4, <1>8, ScheduleFacts, RequestType, TypeFromParts
  DEF SYNC_SOME_ACCOUNTS, TInv, TypeOK
<1> QED
  BY <1>5, <1>6, <1>7, <1>8

(* A worker takes the first task; a slot is only taken when one is free.     *)
LEMMA SynchronizeType == ASSUME TInv, SInv', synchronize PROVE TInv'
<1>1. queue \in Seq(Tasks) /\ queue # <<>> /\ InPriorityOrder(queue)
  BY DEF TInv, TypeOK, synchronize, CanTake
<1>2. /\ Tail(queue) \in Seq(Tasks) /\ Len(Tail(queue)) = Len(queue) - 1
      /\ \A i \in 1..Len(Tail(queue)) : Tail(queue)[i] = queue[i + 1]
  BY <1>1, HeadTailProperties
<1>3. InPriorityOrder(Tail(queue))
  <2> DEFINE q == Tail(queue)
  <2>1. Len(queue) \in Nat /\ DOMAIN queue = 1..Len(queue) /\ DOMAIN q = 1..(Len(queue) - 1)
    BY <1>1, <1>2
  <2>2. ASSUME NEW i \in DOMAIN q, NEW j \in DOMAIN q, i < j PROVE q[i].priority <= q[j].priority
    <3>1. i + 1 \in 1..Len(queue) /\ j + 1 \in 1..Len(queue) /\ i + 1 < j + 1
      BY <2>1, <2>2
    <3>2. q[i] = queue[i + 1] /\ q[j] = queue[j + 1]
      BY <1>2, <2>1
    <3> QED
      BY <1>1, <2>1, <3>1, <3>2 DEF InPriorityOrder
  <2> QED
    BY <2>2 DEF InPriorityOrder
<1>4. queue' = Tail(queue) /\ UNCHANGED <<skipUnderPriority, immediate, processing, requests>>
  BY DEF synchronize
<1>5. numRunning' = numRunning \/ (numRunning < SYNC_MAX_CONCURRENT /\ numRunning' = numRunning + 1)
  BY DEF synchronize, CanTake, nextOfSkip
<1>6. numRunning' \in 0..SYNC_MAX_CONCURRENT
  BY <1>5, ConcurrencyAssumption DEF TInv, TypeOK
<1>7. QueueOK'
  BY <1>2, <1>3, <1>4 DEF QueueOK, TInv, TypeOK
<1> QED
  BY <1>4, <1>6, <1>7, TypeFromParts DEF TInv, TypeOK

(* The slot given back had been counted: numRunning was not 0.               *)
LEMMA SyncEndsType == ASSUME TInv, SInv', NEW a \in Accounts, SyncEnds(a) PROVE TInv'
<1>1. /\ numRunning' = numRunning - 1 /\ processing' = TRUE
      /\ UNCHANGED <<skipUnderPriority, queue, immediate, requests>>
  BY DEF SyncEnds
<1>2. Cardinality(Syncs(active))' \in Nat /\ Cardinality(Syncs(leaked))' \in Nat
  BY FS_CardinalityType DEF SInv
<1>3. numRunning' \in Nat
  BY <1>2 DEF SInv, SlotsAreExact
<1>4. numRunning' \in 0..SYNC_MAX_CONCURRENT
  BY <1>1, <1>3, ConcurrencyAssumption DEF TInv, TypeOK
<1>5. QueueOK'
  BY <1>1 DEF QueueOK, InPriorityOrder, TInv, TypeOK
<1> QED
  BY <1>1, <1>4, <1>5, TypeFromParts DEF TInv, TypeOK

LEMMA TypeStep == TInv /\ [Next]_vars => TInv'
<1> SUFFICES ASSUME TInv, [Next]_vars PROVE TInv'
  OBVIOUS
<1>0. SInv'
  BY SlotsStep DEF TInv
<1>1. CASE BACKGROUND_TICK
  BY <1>0, <1>1, RequestsType
<1>2. ASSUME NEW p \in Priorities \cup {Background},
             \/ SET_SKIP_UNDER_PRIORITY(p) \/ SYNC_ALL_ACCOUNTS(p)
             \/ \E S \in SUBSET Accounts : SYNC_SOME_ACCOUNTS(S, p)
      PROVE  TInv'
  BY <1>0, <1>2, RequestsType
<1>3. ASSUME UNCHANGED <<skipUnderPriority, queue, numRunning, requests>>,
             immediate' \in BOOLEAN, processing' \in BOOLEAN
      PROVE  TInv'
  BY <1>0, <1>3, TypeFromParts DEF QueueOK, InPriorityOrder, TInv, TypeOK
<1>4. CASE FlushEffects \/ (\E S \in SUBSET Accounts : SetAccounts(S)) \/ ProcessImmediate
           \/ EndProcess \/ (\E a \in Accounts : SubscriberThrows(a)) \/ UNCHANGED vars
  BY <1>3, <1>4 DEF FlushEffects, SetAccounts, ProcessImmediate, EndProcess, SubscriberThrows,
     vars, refs, workers, TInv, TypeOK
<1>5. CASE synchronize
  BY <1>0, <1>5, SynchronizeType
<1>6. CASE \E a \in Accounts : SyncEnds(a)
  BY <1>0, <1>6, SyncEndsType
<1> QED
  BY <1>1, <1>2, <1>4, <1>5, <1>6 DEF Next

(* At most SYNC_MAX_CONCURRENT accounts are synchronised at once and no slot *)
(* is given back twice (numRunning stays between 0 and the limit); the queue *)
(* keeps known priorities, the lowest first.                                 *)
THEOREM TypeCorrect == Spec => []TypeOK
<1>1. TInv => TypeOK
  BY DEF TInv
<1> QED
  BY <1>1, TypeInitial, TypeStep, PTL DEF Spec
=================================================================================
