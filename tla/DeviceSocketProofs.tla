--------------------------- MODULE DeviceSocketProofs ---------------------------
(***************************************************************************)
(* Proofs about DeviceSocket, for any lengths of the bulks and any number  *)
(* of exchanges.                                                           *)
(***************************************************************************)
EXTENDS DeviceSocket, TLAPS

(* As long as the observer listens, nothing has ended, and what the handler *)
(* waits for tells the mode: a bulk is one of at least one APDU, its        *)
(* connection closed; a server that is ready waits for no answer.           *)
Listening ==
    ~unsubscribed =>
      /\ result = "running" /\ ~marked
      /\ ~correctlyFinished /\ ~deviceError
      /\ inBulk <=> handler = "bulk"
      /\ inBulk => remaining > 0 /\ ws \in {"closing", "closed"}
      /\ handler \in {"exchange", "allowManager"} => server = "waiting"

Ended == unsubscribed => result # "running" /\ (marked => result # "complete")

IInv == TypeOK /\ Listening /\ Ended /\ TimeoutIsOfThePrompt /\ HalfBulkIsMarked

USE BulkAssumption, FlagsAssumption, BoundAssumption
USE DEF dialogue, flags, end, vars, IInv, TypeOK, Listening, Ended,
        TimeoutIsOfThePrompt, HalfBulkIsMarked, Goes, End, EndInError, LeavesSeries,
        ClosedByClient

LEMMA Initial == Init => IInv
<1> SUFFICES ASSUME Init PROVE IInv
  OBVIOUS
<1>1. 0 \in Nat /\ 0 \in 0..MaxExchanges
  OBVIOUS
<1>2. TypeOK
  BY <1>1, Zenon DEF Init
<1>3. Listening /\ Ended
  BY Zenon DEF Init
<1>4. TimeoutIsOfThePrompt /\ HalfBulkIsMarked
  BY Zenon DEF Init
<1> QED
  BY <1>2, <1>3, <1>4, Zenon

(* The steps of the network leave the handler alone.                        *)
LEMMA NetworkSteps == IInv /\ (onopen \/ onerror \/ onclose) => IInv'
<1> SUFFICES ASSUME IInv PROVE onopen \/ onerror \/ onclose => IInv'
  OBVIOUS
<1>1. CASE onopen
  BY <1>1 DEF onopen
<1>2. CASE onerror
  BY <1>2 DEF onerror, NeedsConnection
<1>3. CASE onclose
  BY <1>3 DEF onclose, NeedsConnection
<1> QED
  BY <1>1, <1>2, <1>3

(* The messages of the server. *)
LEMMA ServerSteps ==
  ASSUME IInv,
         \/ \E kind \in {"exchange", "allowManager"} : exchange(kind)
         \/ AllowManagerTimeout \/ bulk \/ success \/ error
  PROVE  IInv'
<1>1. ASSUME NEW kind \in {"exchange", "allowManager"}, exchange(kind) PROVE IInv'
  BY <1>1 DEF exchange, onmessage
<1>2. CASE AllowManagerTimeout
  BY <1>2 DEF AllowManagerTimeout
<1>3. CASE bulk
  <2>1. PICK length \in BulkLengths :
          /\ remaining' = length
          /\ IF length = 0
             THEN /\ correctlyFinished' = TRUE
                  /\ UNCHANGED <<handler, deviceError>>
                  /\ End("complete", "device", "closing")
             ELSE /\ handler' = "bulk"
                  /\ UNCHANGED <<correctlyFinished, deviceError>>
                  /\ Goes("closing")
    BY <1>3, Zenon DEF bulk, NothingToSend
  <2>2. /\ inBulk' = TRUE /\ ~unsubscribed /\ server = "ready"
        /\ UNCHANGED <<server, timeoutForAllowManager, exchanges>>
    BY <1>3, Zenon DEF bulk, onmessage
  <2>3. length \in Nat
    OBVIOUS
  <2>4. CASE length = 0
    BY <2>1, <2>2, <2>4
  <2>5. CASE length # 0
    <3>1. /\ handler' = "bulk" /\ UNCHANGED <<correctlyFinished, deviceError>>
          /\ Goes("closing") /\ remaining' = length
      BY <2>1, <2>5, Zenon
    <3>2. TypeOK'
      BY <3>1, <2>2, <2>3
    <3>3. Listening'
      BY <3>1, <2>2, <2>3, <2>5
    <3>4. Ended' /\ TimeoutIsOfThePrompt' /\ HalfBulkIsMarked'
      BY <3>1, <2>2
    <3> QED
      BY <3>2, <3>3, <3>4, Zenon
  <2> QED
    BY <2>4, <2>5
<1>4. CASE success
  BY <1>4 DEF success, onmessage
<1>5. CASE error
  BY <1>5 DEF error, onmessage
<1> QED
  BY <1>1, <1>2, <1>3, <1>4, <1>5

(* The answers and the events of the device, and the observer. *)
LEMMA DeviceSteps ==
  ASSUME IInv, DeviceSettles \/ onDisconnect \/ onUnresponsiveDevice \/ Unsubscribe
  PROVE  IInv'
<1>1. CASE ExchangeAnswers
  <2> USE <1>1 DEF ExchangeAnswers, TimeoutCleared
  <2>1. TypeOK'
    OBVIOUS
  <2>2. Listening' /\ Ended'
    OBVIOUS
  <2>3. TimeoutIsOfThePrompt' /\ HalfBulkIsMarked'
    OBVIOUS
  <2> QED
    BY <2>1, <2>2, <2>3, Zenon
<1>2. CASE ExchangeFails
  BY <1>2 DEF ExchangeFails
<1>3. CASE BulkAnswers
  <2> USE <1>3 DEF BulkAnswers, LoopStops
  <2>1. CASE unsubscribed
    <3>1. UNCHANGED <<result, marked, cause, unsubscribed, remaining, flags, ws, server,
                      timeoutForAllowManager, exchanges>>
      BY <2>1
    <3>2. handler' = "none"
      BY <2>1
    <3> QED
      BY <2>1, <3>1, <3>2
  <2>2. CASE ~unsubscribed /\ remaining = 1
    BY <2>2
  <2>3. CASE ~unsubscribed /\ remaining # 1
    BY <2>3
  <2> QED
    BY <2>1, <2>2, <2>3, Zenon
<1>4. CASE onDisconnect
  BY <1>4 DEF onDisconnect
<1>5. CASE onUnresponsiveDevice
  BY <1>5 DEF onUnresponsiveDevice
<1>6. CASE Unsubscribe
  BY <1>6 DEF Unsubscribe
<1> QED
  BY <1>1, <1>2, <1>3, <1>4, <1>5, <1>6 DEF DeviceSettles

LEMMA Inductive == Spec => []IInv
<1>1. Init => IInv
  BY Initial
<1>2. IInv /\ [Next]_vars => IInv'
  <2> SUFFICES ASSUME IInv, [Next]_vars PROVE IInv'
    OBVIOUS
  <2>1. CASE Next
    BY <2>1, NetworkSteps, ServerSteps, DeviceSteps DEF Next
  <2>2. CASE UNCHANGED vars
    BY <2>2
  <2> QED
    BY <2>1, <2>2
<1> QED
  BY <1>1, <1>2, PTL DEF Spec

(* Every reachable state of the socket has its type. *)
THEOREM TypeCorrect == Spec => []TypeOK
<1> HIDE DEF TypeOK, Listening, Ended, TimeoutIsOfThePrompt, HalfBulkIsMarked
<1>1. IInv => TypeOK
  OBVIOUS
<1> HIDE DEF IInv
<1> QED
  BY <1>1, Inductive, PTL

(* A device is marked for a flush when, and only when, a bulk was left      *)
(* half-way otherwise than by the device or by a message of the server.     *)
THEOREM MarkIsRight == Spec => []HalfBulkIsMarked
<1>1. IInv => HalfBulkIsMarked
  OBVIOUS
<1> QED
  BY <1>1, Inductive, PTL

(* An unresponsive device is taken for one that waits for the user only     *)
(* during an exchange that may wait for the user.                           *)
THEOREM PromptTimeout == Spec => []TimeoutIsOfThePrompt
<1>1. IInv => TimeoutIsOfThePrompt
  OBVIOUS
<1> QED
  BY <1>1, Inductive, PTL

(* Once the observable has ended no APDU is sent to the device. *)
THEOREM Silence == Spec => StopsWithObserver
<1>1. [Next]_vars => (unsubscribed => remaining' = remaining /\ handler' \in {handler, "none"})
  BY DEF Next, onopen, onerror, onclose, exchange, onmessage, AllowManagerTimeout, bulk,
         success, error, DeviceSettles, ExchangeAnswers, ExchangeFails, BulkAnswers,
         LoopStops, onDisconnect, onUnresponsiveDevice, Unsubscribe, NeedsConnection
<1>2. [Next]_vars =>
        [unsubscribed => remaining' = remaining /\ handler' \in {handler, "none"}]_vars
  BY <1>1
<1> QED
  BY <1>2, PTL DEF Spec, StopsWithObserver

(* A step of the socket either leaves its observer and the mark alone, or   *)
(* ends the job: with a completion it leaves no mark.                       *)
LEMMA EndsAsAJob ==
  ASSUME IInv, IInv', Next
  PROVE  Job!Next \/ UNCHANGED Job!vars
<1>1. \/ UNCHANGED <<result, marked, unsubscribed>>
      \/ ~unsubscribed /\ unsubscribed' /\ result' \in {"complete", "failed", "left"}
  BY DEF Next, onopen, onerror, onclose, exchange, AllowManagerTimeout, bulk,
         success, error, DeviceSettles, ExchangeAnswers, ExchangeFails, BulkAnswers,
         LoopStops, onDisconnect, onUnresponsiveDevice, Unsubscribe, NeedsConnection
<1> QED
  BY <1>1 DEF Job!Next, Job!vars, Job!Complete, Job!Fail, Job!Leave

(* The socket is a job such as DeviceAccess supposes: it ends once, and     *)
(* leaves a mark only with an end that is not a completion.                 *)
THEOREM SocketIsAJob == Spec => ImplementsTransportJob
<1>1. Init => Job!Init
  BY DEF Init, Job!Init
<1>2. IInv /\ IInv' /\ [Next]_vars => [Job!Next]_(Job!vars)
  BY EndsAsAJob DEF Job!vars
<1> QED
  BY <1>1, <1>2, Inductive, PTL DEF Spec, ImplementsTransportJob, Job!Spec
=============================================================================
