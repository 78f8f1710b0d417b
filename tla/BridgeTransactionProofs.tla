------------------------ MODULE BridgeTransactionProofs ------------------------
(***************************************************************************)
(* Proofs about BridgeTransaction, for any accounts, any number of edits,  *)
(* of failures and of references.                                          *)
(***************************************************************************)
EXTENDS BridgeTransaction, TLAPS

(* Once the effects of the render have run, the only call that is not       *)
(* ignored is the one for the transaction and the account shown.            *)
LiveIsCurrent ==
    ~effect => \A j \in jobs : ~j.ignore => j.tx = s.transaction /\ j.account = s.account

(* A timer that its cleanup missed was set between a render and its effects. *)
LostTimersRaced == \A j \in jobs : j.stage = "retry" /\ j.ignore => raced

(* prepareTransaction keeps what the user asked for. *)
PreparedKeepsContent ==
    \A j \in jobs : j.stage = "status" => j.prepared # NoTx /\ Content(j.prepared) = Content(j.tx)

IInv ==
    /\ TypeOK
    /\ LiveIsCurrent /\ LostTimersRaced /\ PreparedKeepsContent
    /\ EditsSurvive /\ PendingIsWorkedOn

USE AccountsAssumption, BoundsAssumption, NoTxAssumption

LEMMA ContentType == ASSUME NEW t \in Transactions \cup {NoTx} PROVE Content(t) \in Contents
  BY DEF Content, Contents, Transactions

LEMMA WithAccountType ==
    ASSUME NEW a \in Accounts, NEW r \in Refs, NEW e \in 0..MaxEdits
    PROVE  withAccount(a, r, e) \in States
<1>1. [ref |-> r, account |-> a, edit |-> e] \in Transactions
  BY DEF Transactions
<1>2. CASE a \in BrokenAccounts
  BY <1>2 DEF withAccount, initial, States
<1>3. CASE a \notin BrokenAccounts
  BY <1>1, <1>3 DEF withAccount, initial, States
<1> QED
  BY <1>2, <1>3

LEMMA Initial == Init => IInv
<1> SUFFICES ASSUME Init PROVE IInv
  OBVIOUS
<1>1. s \in States
  <2>1. 0 \in 0..MaxEdits
    OBVIOUS
  <2>2. initial \in States
    BY DEF initial, States
  <2> QED
    BY <2>1, <2>2, WithAccountType DEF Init
<1>2. wanted = Content(s.transaction) /\ wanted \in Contents
  <2>1. s.transaction \in Transactions \cup {NoTx}
    BY <1>1 DEF States
  <2>2. wanted = Content(s.transaction)
    BY DEF Init
  <2> QED
    BY <2>1, <2>2, ContentType
<1>3. TypeOK
  <2>1. /\ effect = TRUE /\ statusIsPending = FALSE /\ jobs = {} /\ raced = FALSE
        /\ edits = 0 /\ failures = 0
    BY DEF Init
  <2>2. 0 \in 0..MaxEdits /\ 0 \in 0..MaxFailures
    OBVIOUS
  <2> QED
    BY <1>1, <1>2, <2>1, <2>2, Zenon DEF TypeOK
<1>4. LiveIsCurrent /\ LostTimersRaced /\ PreparedKeepsContent
  BY DEF Init, LiveIsCurrent, LostTimersRaced, PreparedKeepsContent
<1>5. EditsSurvive /\ PendingIsWorkedOn
  BY <1>2 DEF Init, EditsSurvive, PendingIsWorkedOn
<1> QED
  BY <1>3, <1>4, <1>5 DEF IInv

(* The effects of a render leave calls of which only the one for the        *)
(* rendered transaction is not ignored.                                      *)
LEMMA EffectJobs ==
    ASSUME s \in States, NEW js \in SUBSET Jobs, NEW p \in BOOLEAN
    PROVE  /\ effectJobs(js, p) \subseteq Jobs
           /\ \A j \in effectJobs(js, p) :
                /\ ~j.ignore => j.tx = s.transaction /\ j.account = s.account
                /\ j.stage = "retry" => j.ignore /\ j \in js
                /\ j.stage = "status" =>
                     \E i \in js : i.stage = "status" /\ j.tx = i.tx /\ j.prepared = i.prepared
           /\ startsCall => \E j \in effectJobs(js, p) :
                ~j.ignore /\ j.tx = s.transaction /\ j.account = s.account
<1> DEFINE call == [tx |-> s.transaction, account |-> s.account,
                    stage |-> IF p THEN "waiting" ELSE "prepare",
                    prepared |-> NoTx, ignore |-> FALSE]
<1>1. cleanup(js) \subseteq Jobs
  BY ZenonT(60) DEF cleanup, Jobs
<1>2. \A j \in cleanup(js) :
        /\ j.ignore
        /\ j.stage = "retry" => j \in js
        /\ j.stage = "status" =>
             \E i \in js : i.stage = "status" /\ j.tx = i.tx /\ j.prepared = i.prepared
  <2> SUFFICES ASSUME NEW j \in cleanup(js)
               PROVE  /\ j.ignore
                      /\ j.stage = "retry" => j \in js
                      /\ j.stage = "status" =>
                           \E i \in js : i.stage = "status" /\ j.tx = i.tx /\ j.prepared = i.prepared
    OBVIOUS
  <2>1. PICK i \in js : (i.stage # "retry" \/ i.ignore) /\ j = [i EXCEPT !.ignore = TRUE]
    BY DEF cleanup
  <2>2. j.ignore /\ j.stage = i.stage /\ j.tx = i.tx /\ j.prepared = i.prepared
    BY <2>1 DEF Jobs
  <2>3. j.stage = "retry" => j = i
    BY <2>1, <2>2 DEF Jobs
  <2> QED
    BY <2>2, <2>3
<1>3. startsCall => call \in Jobs
  BY DEF startsCall, Jobs, States
<1>4. effectJobs(js, p) = cleanup(js) \cup (IF startsCall THEN {call} ELSE {})
  BY DEF effectJobs
<1>5. effectJobs(js, p) \subseteq Jobs
  BY <1>1, <1>3, <1>4
<1>6. startsCall => call \in effectJobs(js, p)
  BY <1>4
<1>7. /\ ~call.ignore /\ call.tx = s.transaction /\ call.account = s.account
      /\ call.stage \notin {"retry", "status"}
  OBVIOUS
<1>8. \A j \in effectJobs(js, p) : j \in cleanup(js) \/ j = call
  BY <1>4
<1> HIDE DEF call
<1> QED
  BY <1>2, <1>5, <1>6, <1>7, <1>8

(* What a render preserves, when the calls that end or fail are the ones the *)
(* hypotheses say.                                                           *)
LEMMA RenderInv ==
    ASSUME IInv,
           NEW st \in States, NEW js \in SUBSET jobs, NEW p \in BOOLEAN, NEW after \in SUBSET Jobs,
           Render(st, js, p, after),
           \A j \in after : /\ j.tx = s.transaction \/ j.ignore
                            /\ j.account = s.account \/ j.ignore
                            /\ j.ignore = effect /\ j.stage = "retry",
           raced' = (raced \/ effect) \/ (after = {} /\ raced' = raced),
           st.transaction # st.statusOnTransaction =>
             \/ dependencies(st) # dependencies(s)
             \/ js = jobs
             \/ effect
             \/ after # {}
    PROVE  /\ s' \in States /\ effect' \in BOOLEAN /\ statusIsPending' \in BOOLEAN
           /\ jobs' \subseteq Jobs /\ raced' \in BOOLEAN
           /\ LiveIsCurrent' /\ LostTimersRaced' /\ PreparedKeepsContent' /\ PendingIsWorkedOn'
<1> DEFINE rest == IF effect THEN effectJobs(js, p) ELSE js
<1>0. /\ s \in States /\ js \in SUBSET Jobs /\ effect \in BOOLEAN /\ raced \in BOOLEAN
      /\ jobs \subseteq Jobs
  BY DEF IInv, TypeOK
<1>1. /\ s' = st /\ jobs' = rest \cup after
      /\ effect' = (dependencies(st) # dependencies(s))
      /\ statusIsPending' = (p \/ (effect /\ startsCall))
  BY DEF Render
<1>2. effect =>
        /\ rest \subseteq Jobs
        /\ \A j \in rest :
             /\ ~j.ignore => j.tx = s.transaction /\ j.account = s.account
             /\ j.stage = "retry" => j.ignore /\ j \in js
             /\ j.stage = "status" =>
                  \E i \in js : i.stage = "status" /\ j.tx = i.tx /\ j.prepared = i.prepared
        /\ startsCall => \E j \in rest :
             ~j.ignore /\ j.tx = s.transaction /\ j.account = s.account
  BY <1>0, EffectJobs
<1>3. /\ s' \in States /\ effect' \in BOOLEAN /\ raced' \in BOOLEAN
      /\ jobs' \subseteq Jobs
  BY <1>0, <1>1, <1>2
<1>4. statusIsPending' \in BOOLEAN
  BY <1>1
<1>5. \A j \in rest : ~j.ignore => j.tx = s.transaction /\ j.account = s.account
  BY <1>0, <1>2 DEF IInv, LiveIsCurrent
<1>6. dependencies(st) = dependencies(s) =>
        st.transaction = s.transaction /\ st.account = s.account
        /\ (st.transaction # st.statusOnTransaction <=> s.transaction # s.statusOnTransaction)
  BY DEF dependencies
<1>7. LiveIsCurrent'
  BY <1>1, <1>5, <1>6 DEF LiveIsCurrent
<1>8. LostTimersRaced'
  <2> SUFFICES ASSUME NEW j \in jobs', j.stage = "retry", j.ignore PROVE raced'
    BY DEF LostTimersRaced
  <2>1. CASE j \in after
    BY <2>1, <1>0
  <2>2. CASE j \in rest
    BY <2>2, <1>0, <1>2 DEF IInv, LostTimersRaced
  <2> QED
    BY <2>1, <2>2, <1>1
<1>9. PreparedKeepsContent'
  <2> SUFFICES ASSUME NEW j \in jobs', j.stage = "status"
               PROVE  j.prepared # NoTx /\ Content(j.prepared) = Content(j.tx)
    BY DEF PreparedKeepsContent, Content
  <2>1. j \in rest
    BY <1>1
  <2>2. \E i \in js : i.stage = "status" /\ j.tx = i.tx /\ j.prepared = i.prepared
    BY <2>1, <1>2
  <2> QED
    BY <2>2 DEF IInv, PreparedKeepsContent, Content
<1>10. PendingIsWorkedOn'
  <2> SUFFICES ASSUME st.transaction # st.statusOnTransaction, ~effect',
                      st.account # NoAccount, st.transaction # NoTx
               PROVE  \E j \in jobs' : ~j.ignore /\ j.tx = st.transaction /\ j.account = st.account
    BY <1>1 DEF PendingIsWorkedOn, bridgePending
  <2>1. /\ st.transaction = s.transaction /\ st.account = s.account
        /\ s.transaction # s.statusOnTransaction
    BY <1>1, <1>6
  <2>2. CASE effect
    BY <2>1, <2>2, <1>1, <1>2 DEF startsCall, bridgePending
  <2>3. CASE ~effect /\ js = jobs
    BY <2>1, <2>3, <1>1 DEF IInv, PendingIsWorkedOn, bridgePending
  <2>4. CASE ~effect /\ after # {}
    BY <2>1, <2>4, <1>1
  <2> QED
    BY <2>1, <2>2, <2>3, <2>4, <1>1
<1> QED
  BY <1>3, <1>4, <1>7, <1>8, <1>9, <1>10
-----------------------------------------------------------------------------
(* The actions of the user, each a render of a new state.                    *)
LEMMA UserSteps ==
    ASSUME IInv, (\E a \in Accounts : setAccount(a)) \/ setTransaction \/ undoTransaction
    PROVE  IInv'
<1>1. /\ s \in States /\ jobs \subseteq Jobs /\ statusIsPending \in BOOLEAN
      /\ edits < MaxEdits /\ edits' = edits + 1 /\ edits \in 0..MaxEdits
      /\ failures' = failures /\ raced' = raced /\ failures \in 0..MaxFailures
  BY DEF IInv, TypeOK, setAccount, setTransaction, undoTransaction, UserActs
<1>2. edits' \in 0..MaxEdits /\ failures' \in 0..MaxFailures
  BY <1>1
<1>3. PICK st \in States :
        Render(st, jobs, statusIsPending, {}) /\ wanted' = Content(st.transaction)
  <2>1. ASSUME NEW a \in Accounts, setAccount(a)
        PROVE  \E st \in States :
                 Render(st, jobs, statusIsPending, {}) /\ wanted' = Content(st.transaction)
    <3>1. PICK r \in Refs : /\ Render(withAccount(a, r, edits'), jobs, statusIsPending, {})
                            /\ wanted' = Content(withAccount(a, r, edits').transaction)
      BY <2>1 DEF setAccount, Fresh
    <3> QED
      BY <3>1, <1>2, WithAccountType
  <2>2. ASSUME setTransaction
        PROVE  \E st \in States :
                 Render(st, jobs, statusIsPending, {}) /\ wanted' = Content(st.transaction)
    <3> DEFINE t(r) == [ref |-> r, edit |-> edits',
                        account |-> IF s.transaction = NoTx THEN s.account
                                    ELSE s.transaction.account]
    <3>1. PICK r \in Refs : /\ Render([s EXCEPT !.transaction = t(r)], jobs, statusIsPending, {})
                            /\ wanted' = Content(t(r))
      BY <2>2 DEF setTransaction, Fresh
    <3>2. t(r) \in Transactions
      BY <1>1, <1>2 DEF Transactions, States
    <3> HIDE DEF t
    <3>3. /\ [s EXCEPT !.transaction = t(r)] \in States
          /\ [s EXCEPT !.transaction = t(r)].transaction = t(r)
      BY <1>1, <3>2 DEF States
    <3> QED
      BY <3>1, <3>3
  <2>3. ASSUME undoTransaction
        PROVE  \E st \in States :
                 Render(st, jobs, statusIsPending, {}) /\ wanted' = Content(st.transaction)
    <3> DEFINE st == [s EXCEPT !.transaction = s.statusOnTransaction]
    <3>1. st \in States /\ st.transaction = s.statusOnTransaction
      BY <1>1 DEF States
    <3>2. Render(st, jobs, statusIsPending, {}) /\ wanted' = Content(s.statusOnTransaction)
      BY <2>3 DEF undoTransaction
    <3> HIDE DEF st
    <3> QED
      BY <3>1, <3>2
  <2> QED
    BY <2>1, <2>2, <2>3
<1>4. /\ s' \in States /\ effect' \in BOOLEAN /\ statusIsPending' \in BOOLEAN
      /\ jobs' \subseteq Jobs /\ raced' \in BOOLEAN
      /\ LiveIsCurrent' /\ LostTimersRaced' /\ PreparedKeepsContent' /\ PendingIsWorkedOn'
  BY <1>1, <1>3, RenderInv
<1>5. s' = st
  BY <1>3 DEF Render
<1>6. wanted' \in Contents /\ wanted' = Content(s.transaction)'
  <2>1. st.transaction \in Transactions \cup {NoTx}
    BY DEF States
  <2> QED
    BY <2>1, <1>3, <1>5, ContentType DEF Content
<1> QED
  BY <1>2, <1>4, <1>6 DEF IInv, TypeOK, EditsSurvive

(* The ends of a call that do not render. *)
LEMMA QuietSteps ==
    ASSUME IInv, NEW j \in jobs, BridgeAnswers,
           Stops(j) \/ DebounceEnds(j) \/ PrepareResolves(j)
    PROVE  IInv'
<1>1. /\ UNCHANGED <<s, effect, statusIsPending, failures, raced, wanted, edits>>
      /\ j \in Jobs /\ s \in States /\ jobs \subseteq Jobs
  BY DEF IInv, TypeOK, BridgeAnswers, Stops, DebounceEnds, PrepareResolves
<1>2. PICK new \in SUBSET Jobs :
        /\ jobs' = (jobs \ {j}) \cup new
        /\ j.ignore \/ new # {}
        /\ \A i \in new : /\ i.tx = j.tx /\ i.account = j.account /\ i.ignore = j.ignore
                          /\ i.stage # "retry"
                          /\ i.stage = "status" =>
                               i.prepared # NoTx /\ Content(i.prepared) = Content(i.tx)
  <2> DEFINE Fits(new) ==
        /\ jobs' = (jobs \ {j}) \cup new
        /\ j.ignore \/ new # {}
        /\ \A i \in new : /\ i.tx = j.tx /\ i.account = j.account /\ i.ignore = j.ignore
                          /\ i.stage # "retry"
                          /\ i.stage = "status" =>
                               i.prepared # NoTx /\ Content(i.prepared) = Content(i.tx)
  <2> SUFFICES \E new \in SUBSET Jobs : Fits(new)
    OBVIOUS
  <2> HIDE DEF Fits
  <2>1. CASE Stops(j)
    <3>1. Fits({})
      BY <2>1 DEF Stops, Fits
    <3> QED
      BY <3>1
  <2>2. CASE DebounceEnds(j)
    <3> DEFINE i == [j EXCEPT !.stage = "prepare"]
    <3>1. /\ i \in Jobs /\ i.tx = j.tx /\ i.account = j.account /\ i.ignore = j.ignore
          /\ i.stage = "prepare"
      BY <1>1 DEF Jobs
    <3>2. jobs' = (jobs \ {j}) \cup {i}
      BY <2>2 DEF DebounceEnds
    <3> HIDE DEF i
    <3>3. Fits({i})
      BY <3>1, <3>2 DEF Fits
    <3> QED
      BY <3>1, <3>3
  <2>3. CASE PrepareResolves(j)
    <3>1. PICK r \in Refs \cup {j.tx.ref} :
            jobs' = (jobs \ {j}) \cup
              {[j EXCEPT !.stage = "status", !.prepared = [j.tx EXCEPT !.ref = r]]}
      BY <2>3 DEF PrepareResolves, Fresh
    <3> DEFINE t == [j.tx EXCEPT !.ref = r]
               i == [j EXCEPT !.stage = "status", !.prepared = t]
    <3>2. j.tx \in Transactions
      BY <1>1 DEF Jobs
    <3>3. t \in Transactions /\ t.account = j.tx.account /\ t.edit = j.tx.edit
      BY <3>2 DEF Transactions
    <3>4. jobs' = (jobs \ {j}) \cup {i}
      BY <3>1
    <3> HIDE DEF t
    <3>5. /\ i \in Jobs /\ i.tx = j.tx /\ i.account = j.account /\ i.ignore = j.ignore
          /\ i.stage = "status" /\ i.prepared = t
      BY <1>1, <3>3 DEF Jobs
    <3>6. t # NoTx /\ j.tx # NoTx
      BY <3>2, <3>3
    <3>7. Content(t) = Content(j.tx)
      BY <3>3, <3>6 DEF Content
    <3> HIDE DEF i
    <3>8. Fits({i})
      BY <3>4, <3>5, <3>6, <3>7 DEF Fits
    <3> QED
      BY <3>5, <3>8
  <2> QED
    BY <2>1, <2>2, <2>3
<1>3. /\ \A k \in jobs' : k \in jobs \/ k \in new
      /\ \A k \in new : k \in jobs'
      /\ \A k \in jobs : k # j => k \in jobs'
  BY <1>2
<1>4. \A k \in new :
        /\ k.tx = j.tx /\ k.account = j.account /\ k.ignore = j.ignore
        /\ k.stage # "retry"
        /\ k.stage = "status" => k.prepared # NoTx /\ Content(k.prepared) = Content(k.tx)
  BY <1>2
<1>5. TypeOK'
  BY <1>1, <1>3 DEF IInv, TypeOK
<1>6. LiveIsCurrent'
  <2> SUFFICES ASSUME ~effect, NEW k \in jobs', ~k.ignore
               PROVE  k.tx = s.transaction /\ k.account = s.account
    BY <1>1 DEF LiveIsCurrent
  <2>1. \A i \in jobs : ~i.ignore => i.tx = s.transaction /\ i.account = s.account
    BY DEF IInv, LiveIsCurrent
  <2> QED
    BY <1>3, <1>4, <2>1
<1>7. LostTimersRaced'
  <2>1. raced' = raced
    BY <1>1
  <2> QED
    BY <1>3, <1>4, <2>1 DEF IInv, LostTimersRaced
<1>8. PreparedKeepsContent'
  BY <1>3, <1>4 DEF IInv, PreparedKeepsContent, Content
<1>9. EditsSurvive'
  BY <1>1 DEF IInv, EditsSurvive, Content
<1>10. PendingIsWorkedOn'
  <2> SUFFICES ASSUME bridgePending, ~effect, s.account # NoAccount, s.transaction # NoTx
               PROVE  \E k \in jobs' : ~k.ignore /\ k.tx = s.transaction /\ k.account = s.account
    BY <1>1 DEF PendingIsWorkedOn, bridgePending
  <2>1. PICK k \in jobs : ~k.ignore /\ k.tx = s.transaction /\ k.account = s.account
    BY DEF IInv, PendingIsWorkedOn
  <2>2. CASE k # j
    BY <1>3, <2>1, <2>2
  <2>3. CASE k = j
    <3>1. PICK i \in new : TRUE
      BY <1>2, <2>1, <2>3
    <3> QED
      BY <1>3, <1>4, <2>1, <2>3, <3>1
  <2> QED
    BY <2>2, <2>3
<1> QED
  BY <1>5, <1>6, <1>7, <1>8, <1>9, <1>10 DEF IInv

(* The answers of the bridge, its failures and the retries. *)
LEMMA AnswerSteps ==
    ASSUME IInv, NEW j \in jobs, BridgeAnswers,
           StatusResolves(j) \/ CallFails(j) \/ RetryFires(j)
    PROVE  IInv'
<1>1. /\ j \in Jobs /\ s \in States /\ jobs \subseteq Jobs
      /\ effect \in BOOLEAN /\ statusIsPending \in BOOLEAN /\ raced \in BOOLEAN
      /\ jobs \ {j} \in SUBSET jobs
      /\ wanted' = wanted /\ wanted \in Contents
      /\ edits' = edits /\ edits \in 0..MaxEdits /\ failures \in 0..MaxFailures
  BY DEF IInv, TypeOK, BridgeAnswers
<1>2. Content(s.transaction) = wanted \/ raced
  BY DEF IInv, EditsSurvive
<1>3. j.tx \in Transactions /\ j.tx # NoTx
  BY <1>1 DEF Jobs
<1>4. CASE StatusResolves(j)
  <2> DEFINE st == [s EXCEPT !.errorStatus = FALSE, !.transaction = j.prepared,
                             !.statusOnTransaction = j.prepared]
  <2>1. /\ j.stage = "status" /\ ~j.ignore /\ Render(st, jobs \ {j}, FALSE, {})
        /\ raced' = (raced \/ effect) /\ failures' = failures
    BY <1>4 DEF StatusResolves
  <2>2. st \in States /\ st.transaction = j.prepared /\ st.statusOnTransaction = j.prepared
    BY <1>1 DEF States, Jobs
  <2> HIDE DEF st
  <2>p. PICK p \in BOOLEAN : Render(st, jobs \ {j}, p, {})
    BY <2>1
  <2>3. /\ s' \in States /\ effect' \in BOOLEAN /\ statusIsPending' \in BOOLEAN
        /\ jobs' \subseteq Jobs /\ raced' \in BOOLEAN
        /\ LiveIsCurrent' /\ LostTimersRaced' /\ PreparedKeepsContent' /\ PendingIsWorkedOn'
    BY <1>1, <2>1, <2>2, <2>p, RenderInv
  <2>4. ASSUME ~raced' PROVE Content(st.transaction) = wanted
    <3>1. ~raced /\ ~effect
      BY <2>1, <2>4
    <3>2. j.tx = s.transaction
      BY <2>1, <3>1 DEF IInv, LiveIsCurrent
    <3>3. Content(j.prepared) = Content(j.tx)
      BY <2>1 DEF IInv, PreparedKeepsContent
    <3> QED
      BY <1>2, <2>2, <3>1, <3>2, <3>3
  <2>5. s' = st
    BY <2>1 DEF Render
  <2>6. EditsSurvive'
    BY <1>1, <2>4, <2>5 DEF EditsSurvive, Content
  <2> QED
    BY <1>1, <2>1, <2>3, <2>6 DEF IInv, TypeOK
<1>5. CASE CallFails(j)
  <2> DEFINE st == [s EXCEPT !.errorStatus = TRUE]
             timer == [j EXCEPT !.stage = "retry", !.prepared = NoTx, !.ignore = effect]
  <2>1. /\ ~j.ignore /\ Render(st, jobs \ {j}, FALSE, {timer})
        /\ raced' = (raced \/ effect) /\ failures < MaxFailures /\ failures' = failures + 1
    BY <1>5 DEF CallFails, retry
  <2>2. /\ st \in States /\ st.transaction = s.transaction
        /\ st.statusOnTransaction = s.statusOnTransaction
    BY <1>1 DEF States
  <2>3. /\ timer \in Jobs /\ timer.tx = j.tx /\ timer.account = j.account
        /\ timer.ignore = effect /\ timer.stage = "retry"
    BY <1>1 DEF Jobs
  <2>4. ~effect => j.tx = s.transaction /\ j.account = s.account
    BY <2>1 DEF IInv, LiveIsCurrent
  <2>5. failures' \in 0..MaxFailures
    BY <1>1, <2>1
  <2> HIDE DEF st, timer
  <2>6. \A i \in {timer} : /\ i.tx = s.transaction \/ i.ignore
                           /\ i.account = s.account \/ i.ignore
                           /\ i.ignore = effect /\ i.stage = "retry"
    BY <1>1, <2>3, <2>4
  <2>7. {timer} \in SUBSET Jobs /\ {timer} # {}
    BY <2>3
  <2>8. /\ s' \in States /\ effect' \in BOOLEAN /\ statusIsPending' \in BOOLEAN
        /\ jobs' \subseteq Jobs /\ raced' \in BOOLEAN
        /\ LiveIsCurrent' /\ LostTimersRaced' /\ PreparedKeepsContent' /\ PendingIsWorkedOn'
    BY <1>1, <2>1, <2>2, <2>6, <2>7, RenderInv
  <2>9. s' = st
    BY <2>1 DEF Render
  <2>10. EditsSurvive'
    BY <1>1, <1>2, <2>1, <2>2, <2>9 DEF EditsSurvive, Content
  <2> QED
    BY <1>1, <2>5, <2>8, <2>10 DEF IInv, TypeOK
<1>6. CASE RetryFires(j)
  <2>1. PICK r \in Refs \ Held : Render([s EXCEPT !.transaction = copyOf(j, r)], jobs \ {j},
                                       statusIsPending, {})
    BY <1>6 DEF RetryFires, Fresh
  <2>2. j.stage = "retry" /\ raced' = (raced \/ effect) /\ failures' = failures
    BY <1>6 DEF RetryFires
  <2> DEFINE t == [j.tx EXCEPT !.ref = r]
             st == [s EXCEPT !.transaction = t]
  <2>3. t \in Transactions /\ t.ref = r /\ t.account = j.tx.account /\ t.edit = j.tx.edit
    BY <1>3 DEF Transactions
  <2>4. Render(st, jobs \ {j}, statusIsPending, {})
    BY <2>1 DEF copyOf
  <2> HIDE DEF t
  <2>5. st \in States /\ st.transaction = t
    BY <1>1, <2>3 DEF States
  <2> HIDE DEF st
  <2>6. t # s.transaction
    <3>1. CASE s.transaction = NoTx
      BY <2>3, <3>1
    <3>2. CASE s.transaction # NoTx
      <4>1. s.transaction.ref \in Held
        BY <3>2 DEF Held
      <4> QED
        BY <2>3, <4>1
    <3> QED
      BY <3>1, <3>2
  <2>7. dependencies(st) # dependencies(s)
    BY <2>5, <2>6 DEF dependencies
  <2>8. /\ s' \in States /\ effect' \in BOOLEAN /\ statusIsPending' \in BOOLEAN
        /\ jobs' \subseteq Jobs /\ raced' \in BOOLEAN
        /\ LiveIsCurrent' /\ LostTimersRaced' /\ PreparedKeepsContent' /\ PendingIsWorkedOn'
    BY <1>1, <2>2, <2>4, <2>5, <2>7, RenderInv
  <2>9. s' = st
    BY <2>4 DEF Render
  <2>10. ASSUME ~raced' PROVE Content(t) = wanted
    <3>1. ~raced /\ ~effect
      BY <2>2, <2>10
    <3>2. ~j.ignore
      BY <2>2, <3>1 DEF IInv, LostTimersRaced
    <3>3. j.tx = s.transaction
      BY <3>1, <3>2 DEF IInv, LiveIsCurrent
    <3>4. t # NoTx
      BY <2>3
    <3>5. Content(t) = Content(j.tx)
      BY <1>3, <2>3, <3>4 DEF Content
    <3> QED
      BY <1>2, <3>1, <3>3, <3>5
  <2>11. EditsSurvive'
    BY <1>1, <2>5, <2>9, <2>10 DEF EditsSurvive, Content
  <2> QED
    BY <1>1, <2>2, <2>8, <2>11 DEF IInv, TypeOK
<1> QED
  BY <1>4, <1>5, <1>6

(* The passive effects that run on their own. *)
LEMMA EffectStep == ASSUME IInv, RunEffect PROVE IInv'
<1>1. /\ s \in States /\ jobs \in SUBSET Jobs /\ statusIsPending \in BOOLEAN
      /\ raced \in BOOLEAN /\ jobs' = effectJobs(jobs, statusIsPending)
      /\ UNCHANGED <<s, wanted, edits, failures, raced>> /\ effect' = FALSE
      /\ statusIsPending' = (statusIsPending \/ startsCall)
  BY DEF IInv, TypeOK, RunEffect
<1>2. /\ jobs' \subseteq Jobs
      /\ \A k \in jobs' :
           /\ ~k.ignore => k.tx = s.transaction /\ k.account = s.account
           /\ k.stage = "retry" => k.ignore /\ k \in jobs
           /\ k.stage = "status" =>
                \E i \in jobs : i.stage = "status" /\ k.tx = i.tx /\ k.prepared = i.prepared
      /\ startsCall => \E k \in jobs' :
           ~k.ignore /\ k.tx = s.transaction /\ k.account = s.account
  BY <1>1, EffectJobs
<1>3. TypeOK'
  <2>1. effect' \in BOOLEAN /\ statusIsPending' \in BOOLEAN
    BY <1>1
  <2> QED
    BY <1>1, <1>2, <2>1 DEF IInv, TypeOK
<1>4. LiveIsCurrent'
  BY <1>1, <1>2 DEF LiveIsCurrent
<1>5. LostTimersRaced'
  BY <1>1, <1>2 DEF IInv, LostTimersRaced
<1>6. PreparedKeepsContent'
  BY <1>2 DEF IInv, PreparedKeepsContent, Content
<1>7. EditsSurvive'
  BY <1>1 DEF IInv, EditsSurvive, Content
<1>8. PendingIsWorkedOn'
  BY <1>1, <1>2 DEF PendingIsWorkedOn, bridgePending, startsCall
<1> QED
  BY <1>3, <1>4, <1>5, <1>6, <1>7, <1>8 DEF IInv

LEMMA Step == IInv /\ [Next]_vars => IInv'
<1> SUFFICES ASSUME IInv, [Next]_vars PROVE IInv'
  OBVIOUS
<1>1. CASE RunEffect
  BY <1>1, EffectStep
<1>2. CASE (\E a \in Accounts : setAccount(a)) \/ setTransaction \/ undoTransaction
  BY <1>2, UserSteps
<1>3. CASE \E j \in jobs : JobStep(j)
  BY <1>3, QuietSteps, AnswerSteps DEF JobStep
<1>4. CASE UNCHANGED vars
  BY <1>4 DEF vars, IInv, TypeOK, LiveIsCurrent, LostTimersRaced, PreparedKeepsContent,
     EditsSurvive, PendingIsWorkedOn, bridgePending, Content
<1> QED
  BY <1>1, <1>2, <1>3, <1>4 DEF Next
-----------------------------------------------------------------------------
(* The variables of the hook keep their types (useBridgeTransaction).        *)
THEOREM TypeCorrect == Spec => []TypeOK
<1>1. IInv => TypeOK
  BY DEF IInv
<1> QED
  BY <1>1, Initial, Step, PTL DEF Spec

(* No late answer, error or retry overwrites what the user last asked for,  *)
(* as long as none ended between a render and its effects.                   *)
THEOREM NoEditIsLost == Spec => []EditsSurvive
<1>1. IInv => EditsSurvive
  BY DEF IInv
<1> QED
  BY <1>1, Initial, Step, PTL DEF Spec

(* A status that is awaited is being computed, for the transaction and the  *)
(* account shown, or its computation will be tried again.                    *)
THEOREM NoPendingIsForgotten == Spec => []PendingIsWorkedOn
<1>1. IInv => PendingIsWorkedOn
  BY DEF IInv
<1> QED
  BY <1>1, Initial, Step, PTL DEF Spec
================================================================================
