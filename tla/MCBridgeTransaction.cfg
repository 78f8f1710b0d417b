CONSTANTS
    eth = eth
    btc = btc
    NoAccount = NoAccount
    NoTx = NoTx
    Accounts <- MCAccounts
    BrokenAccounts <- MCBroken
    Refs <- MCRefs
    MaxEdits = 3
    MaxFailures = 1
SPECIFICATION FairSpec
INVARIANTS
    EditsSurvive
    PendingIsWorkedOn
PROPERTIES
    Settles
CHECK_DEADLOCK FALSE
