------------------------------ MODULE DeviceSocket ------------------------------
(***************************************************************************)
(* The socket between the manager's server and the device (src/src/api/    *)
(* socket.js): a job of withDevice that passes APDUs one by one, or a whole*)
(* bulk of them once the connection is not needed any more.                *)
(*                                                                         *)
(* The observer may leave at any time, but not while it is being told of   *)
(* an event. The server sends the next message after the answer to the     *)
(* last; it may report an error at any time.                               *)
(***************************************************************************)
EXTENDS Naturals

CONSTANTS
    BulkLengths,                         \* the numbers of APDUs a bulk may have
    unresponsiveExpectedDuringBulk,
    DEVICE_CANCEL_APDU_FLUSH_MECHANISM,
    MaxExchanges                         \* bound: single exchanges of a behaviour

ASSUME BulkAssumption == BulkLengths \subseteq Nat

ASSUME FlagsAssumption ==
    /\ unresponsiveExpectedDuringBulk \in BOOLEAN
    /\ DEVICE_CANCEL_APDU_FLUSH_MECHANISM \in BOOLEAN

ASSUME BoundAssumption == MaxExchanges \in Nat

VARIABLES
    ws,                      \* readyState; "forgotten": left while connecting
    server,                  \* "ready" to send, or "waiting" for an answer
    handler,                 \* what onmessage waits for: "none", "exchange",
                             \*   "allowManager" (an exchange e051) or "bulk"
    timeoutForAllowManager,  \* "null", "set" or "fired": the prompt is shown
    remaining,               \* APDUs of the bulk whose success is not known
    inBulk, correctlyFinished, deviceError, unsubscribed,
    result,                  \* what the observer got
    marked,                  \* cancelDeviceAction has been called
    cause,                   \* history: who ended it
    exchanges                \* number of single exchanges

dialogue == <<server, handler, timeoutForAllowManager, exchanges>>
flags == <<inBulk, correctlyFinished, deviceError>>
end == <<ws, unsubscribed, result, marked, cause>>
vars == <<dialogue, remaining, flags, end>>

Init ==
    /\ ws = "connecting"
    /\ server = "ready"
    /\ handler = "none"
    /\ timeoutForAllowManager = "null"
    /\ remaining = 0
    /\ inBulk = FALSE /\ correctlyFinished = FALSE /\ deviceError = FALSE
    /\ unsubscribed = FALSE
    /\ result = "running"
    /\ marked = FALSE
    /\ cause = "nobody"
    /\ exchanges = 0
-----------------------------------------------------------------------------
(* Mutant: the device is also marked when it has done all it was sent. *)
LeavesSeries_EvenFinished == ~deviceError' /\ inBulk'

LeavesSeries == ~correctlyFinished' /\ ~deviceError' /\ inBulk'

(* Mutant: the connection is left open. *)
ClosedByClient_Never(readyState) ==
    IF readyState = "connecting" THEN "forgotten" ELSE readyState

(* An open connection is closed, but not one that is still opening.         *)
ClosedByClient(readyState) ==
    IF readyState = "open" THEN "closing"
    ELSE IF readyState = "connecting" THEN "forgotten" ELSE readyState

(* o.complete(), o.error() or the observer's unsubscription, the socket     *)
(* being in readyState: the first one tears the observable down, the others *)
(* do nothing.                                                              *)
End(r, by, readyState) ==
    IF unsubscribed THEN ws' = readyState /\ UNCHANGED <<unsubscribed, result, marked, cause>>
    ELSE /\ result' = r
         /\ cause' = by
         /\ unsubscribed' = TRUE
         /\ marked' = (LeavesSeries /\ DEVICE_CANCEL_APDU_FLUSH_MECHANISM)
         /\ ws' = ClosedByClient(readyState)

(* The error is kept as deviceError, even if nobody listens any more.       *)
EndInError(by) ==
    /\ deviceError' = TRUE
    /\ UNCHANGED <<inBulk, correctlyFinished>>
    /\ End("failed", by, ws)

Goes(readyState) == ws' = readyState /\ UNCHANGED <<unsubscribed, result, marked, cause>>
-----------------------------------------------------------------------------
onopen ==
    /\ ws = "connecting"
    /\ Goes("open")
    /\ UNCHANGED <<dialogue, remaining, flags>>

(* Mutant: the network matters in a bulk too. *)
NeedsConnection_Always == TRUE

NeedsConnection == ~inBulk

(* The connection is closing when its failure is reported. *)
onerror ==
    /\ ws \in {"connecting", "open"}
    /\ UNCHANGED <<dialogue, remaining, flags>>
    /\ IF NeedsConnection THEN End("failed", "network", "closing") ELSE Goes("closing")

onclose ==
    /\ ws \in {"open", "closing", "forgotten"}
    /\ UNCHANGED <<dialogue, remaining, flags>>
    /\ IF NeedsConnection
       THEN End(IF correctlyFinished THEN "complete" ELSE "failed", "network", "closed")
       ELSE Goes("closed")
-----------------------------------------------------------------------------
(* A message is handled unless the observer has left. After ws.close(), one *)
(* that was on its way still arrives.                                       *)
onmessage == ~unsubscribed /\ (ws = "open" \/ (inBulk /\ ws = "closing"))

exchange(kind) ==
    /\ onmessage /\ ws = "open" /\ server = "ready"
    /\ exchanges < MaxExchanges
    /\ exchanges' = exchanges + 1
    /\ server' = "waiting"
    /\ handler' = kind
    /\ timeoutForAllowManager' = IF kind = "allowManager" THEN "set" ELSE timeoutForAllowManager
    /\ UNCHANGED <<remaining, flags, end>>

(* After ALLOW_MANAGER_DELAY the user is asked to look at the device. *)
AllowManagerTimeout ==
    /\ timeoutForAllowManager = "set"
    /\ ~unsubscribed
    /\ timeoutForAllowManager' = "fired"
    /\ UNCHANGED <<server, handler, remaining, flags, end, exchanges>>

(* Mutant: the timeout of the prompt is cleared only if it was too late. *)
TimeoutCleared_IfFired == IF timeoutForAllowManager = "fired" THEN "null" ELSE timeoutForAllowManager

TimeoutCleared == "null"

(* The device answers a single exchange, and the answer goes to the server. *)
(* The user who was asked may refuse.                                       *)
ExchangeAnswers ==
    /\ handler \in {"exchange", "allowManager"}
    /\ handler' = "none"
    /\ timeoutForAllowManager' = TimeoutCleared
    /\ UNCHANGED <<remaining, flags, exchanges>>
    /\ \/ /\ server' = IF unsubscribed THEN server ELSE "ready"
          /\ UNCHANGED end
       \/ /\ ~unsubscribed
          /\ timeoutForAllowManager = "fired"
          /\ End("failed", "device", ws)
          /\ UNCHANGED server

NothingToSend(length) == length = 0

(* The first APDU of a bulk is sent and the connection closed. *)
bulk ==
    /\ onmessage /\ ws = "open" /\ server = "ready"
    /\ inBulk' = TRUE
    /\ \E length \in BulkLengths :
         /\ remaining' = length
         /\ IF NothingToSend(length)
            THEN /\ correctlyFinished' = TRUE
                 /\ UNCHANGED <<handler, deviceError>>
                 /\ End("complete", "device", "closing")
            ELSE /\ handler' = "bulk"
                 /\ UNCHANGED <<correctlyFinished, deviceError>>
                 /\ Goes("closing")
    /\ UNCHANGED <<server, timeoutForAllowManager, exchanges>>

(* Mutant: the loop goes on when the observer has left. *)
LoopStops_Never == FALSE

LoopStops == unsubscribed

(* The device accepts an APDU of the bulk: the next one, or the end. *)
BulkAnswers ==
    /\ handler = "bulk"
    /\ IF LoopStops
       THEN handler' = "none" /\ UNCHANGED <<remaining, correctlyFinished>>
       ELSE /\ remaining' = remaining - 1
            /\ handler' = IF remaining = 1 THEN "none" ELSE "bulk"
            /\ correctlyFinished' = (correctlyFinished \/ remaining = 1)
    /\ UNCHANGED <<server, timeoutForAllowManager, inBulk, deviceError, exchanges>>
    /\ IF handler' = "none" THEN End("complete", "device", ws) ELSE Goes(ws)

(* An exchange rejects, or the status of an APDU of the bulk is no success. *)
ExchangeFails ==
    /\ handler # "none"
    /\ handler' = "none"
    /\ UNCHANGED <<server, timeoutForAllowManager, remaining, exchanges>>
    /\ EndInError("device")

success ==
    /\ onmessage /\ server = "ready"
    /\ correctlyFinished' = TRUE
    /\ UNCHANGED <<dialogue, remaining, inBulk, deviceError>>
    /\ End("complete", "server", ws)

error ==
    /\ onmessage
    /\ UNCHANGED <<dialogue, remaining>>
    /\ EndInError("server")
-----------------------------------------------------------------------------
onDisconnect ==
    /\ ~unsubscribed
    /\ UNCHANGED <<dialogue, remaining>>
    /\ EndInError("device")

(* A device that does not answer is locked, unless it is waiting for the    *)
(* user, or known to be busy with the bulk.                                 *)
onUnresponsiveDevice ==
    /\ ~unsubscribed
    /\ timeoutForAllowManager = "null"
    /\ ~(inBulk /\ unresponsiveExpectedDuringBulk)
    /\ UNCHANGED <<dialogue, remaining, flags>>
    /\ End("failed", "locked", ws)

Unsubscribe ==
    /\ ~unsubscribed
    /\ UNCHANGED <<dialogue, remaining, flags>>
    /\ End("left", "observer", ws)
-----------------------------------------------------------------------------
DeviceSettles == ExchangeAnswers \/ ExchangeFails \/ BulkAnswers

Next ==
    \/ onopen \/ onerror \/ onclose
    \/ \E kind \in {"exchange", "allowManager"} : exchange(kind)
    \/ AllowManagerTimeout
    \/ bulk \/ success \/ error
    \/ DeviceSettles
    \/ onDisconnect \/ onUnresponsiveDevice \/ Unsubscribe

Spec == Init /\ [][Next]_vars

(* A closing connection closes, and an exchange with the device settles. *)
FairSpec == Spec /\ WF_vars(ws = "closing" /\ onclose) /\ WF_vars(DeviceSettles)
-----------------------------------------------------------------------------
TypeOK ==
    /\ ws \in {"connecting", "open", "closing", "closed", "forgotten"}
    /\ server \in {"ready", "waiting"}
    /\ handler \in {"none", "exchange", "allowManager", "bulk"}
    /\ timeoutForAllowManager \in {"null", "set", "fired"}
    /\ remaining \in Nat
    /\ inBulk \in BOOLEAN /\ correctlyFinished \in BOOLEAN /\ deviceError \in BOOLEAN
    /\ unsubscribed \in BOOLEAN
    /\ result \in {"running", "complete", "failed", "left"}
    /\ marked \in BOOLEAN
    /\ cause \in {"nobody", "network", "server", "device", "locked", "observer"}
    /\ exchanges \in 0..MaxExchanges

(* A device is marked for a flush when, and only when, a bulk was left      *)
(* half-way by the observer, or because the device looked locked. Its own   *)
(* failures end the series, and the network does not end a bulk. A message  *)
(* that arrives during the bulk is the exception: it is taken for an error  *)
(* of the device, or for the end.                                           *)
HalfBulkIsMarked ==
    unsubscribed /\ inBulk /\ DEVICE_CANCEL_APDU_FLUSH_MECHANISM =>
      IF marked THEN remaining > 0 /\ cause \in {"observer", "locked"}
      ELSE remaining = 0 \/ cause \in {"device", "server"}

(* The timeout that makes an unresponsive device look busy is the one of an *)
(* exchange that is waiting for the user.                                   *)
TimeoutIsOfThePrompt ==
    timeoutForAllowManager # "null" /\ ~unsubscribed => handler = "allowManager"

(* Nothing is sent to the device once the observable has ended: of a bulk,  *)
(* at most the APDU that was on its way.                                    *)
StopsWithObserver ==
    [][unsubscribed => remaining' = remaining /\ handler' \in {handler, "none"}]_vars

(* The connection does not outlive the observer, unless the observer left   *)
(* while it was opening: then nobody closes it but the server.              *)
ConnectionCloses == unsubscribed ~> ws \in {"closed", "forgotten"}

Job == INSTANCE TransportJob WITH job <- result

(* The socket is the job DeviceAccess supposes: one end, and a mark only    *)
(* with an end that is not a completion.                                    *)
ImplementsTransportJob == Job!Spec
=============================================================================
