CONSTANTS
    in1 = in1
    out1 = out1
    in2 = in2
    out2 = out2
    Txs <- MCTxs
    Own <- MCOwn
    Received <- MCReceived
    Nonce <- MCNonce
    Bridges <- MCBridges
    SafeReorg = 0
    MaxHeight = 5
    MaxUndone = 1
SPECIFICATION Spec
INVARIANTS
    DedupedAndSorted
PROPERTIES
    HistoryIsExact
    PendingIsPreserved
    PendingIsReleased
CHECK_DEADLOCK FALSE
