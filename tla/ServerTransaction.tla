-------------------------- MODULE ServerTransaction --------------------------
(***************************************************************************)
(* A server transaction (spec 4.4.3 non-INVITE, 4.4.4 INVITE) and the      *)
(* network layer's dispatch of incoming requests to it.  The state        *)
(* machine follows the spec (its implementation is not under src/); the   *)
(* dispatch follows NetworkLayer::OnIncomingMessage / HandleIncomingRequest*)
(* (src/sippet/transport/network_layer.cc).                                *)
(*                                                                         *)
(* Timers: "provisional" (automatic 100 Trying), "retransmit" (G),        *)
(* "timeout" (H) and "linger" (J / I).  sstate "none" means no server     *)
(* transaction matches the request yet.  Messages reach the transaction   *)
(* through the layer's lookup by ServerTransactionId (TransactionIds).    *)
(***************************************************************************)
EXTENDS Naturals, TransactionIds

CONSTANT MaxRetransmits   \* bound on timer G firings

VARIABLES
  method, reliable, toServer, toClient,   \* shared with the client side
  request,     \* the request the client sent (a TransactionIds message)
  sstate,      \* none, Trying, Proceeding, Completed, Confirmed, Terminated
  stimers,     \* armed timers of the server transaction
  sretx,       \* timer G firings so far
  lastResp,    \* last response sent: "none", "1xx", "2xx", "3xx"
  uasRequests, \* OnIncomingRequest calls for this exchange
  tuFinal,     \* has the TU sent a final response (SendResponse)?
  uasTimedOut, \* was a timerH failure reported to the TU?
  snotices     \* OnTransactionTerminated calls to the network layer

svars == <<sstate, stimers, sretx, lastResp, uasRequests, tuFinal, uasTimedOut,
           snotices>>

SIsInvite == method = "INVITE"

SDeliver(set, m) == IF reliable THEN set \ {m} ELSE set

SInit ==
  /\ sstate = "none"
  /\ stimers = {}
  /\ sretx = 0
  /\ lastResp = "none"
  /\ uasRequests = 0
  /\ tuFinal = FALSE
  /\ uasTimedOut = FALSE
  /\ snotices = 0

\* The TU's responses copy Via, From, Call-ID and CSeq of the request and
\* add a To tag when the request had none (RFC 3261 8.2.6.2).
ResponseTo(req) == [req EXCEPT !.totag = IF @ = None THEN "u" ELSE @]

\* The client's ACK to a non-2xx final: the request's topmost Via, From,
\* Call-ID and CSeq number, the To of the response (RFC 3261 17.1.1.3).
AckTo(req) == [req EXCEPT !.method = "ACK", !.totag = ResponseTo(req).totag,
                          !.cseq.method = "ACK"]

\* The id the transaction is stored under: that of the request creating it.
Sid == ServerTransactionIdOfRequest(request)

\* HandleIncomingRequest: a request that no server transaction matches
\* creates one (and is passed to the TU); one that matches is handed to it.
CreatesTransaction(s) == s = "none"

\* A request arrives.  New: Proceeding (INVITE, with the automatic 100
\* Trying timer) or Trying, TU notified.  A retransmission is absorbed; it
\* makes the transaction resend its last response in Proceeding (and, for
\* non-INVITE, in Completed).  A copy arriving after the transaction
\* terminated would start a new server transaction, outside this pair.
ServerReceiveRequest ==
  /\ "req" \in toServer
  /\ sstate # "Terminated"
  /\ toServer' = SDeliver(toServer, "req")
  /\ IF CreatesTransaction(sstate)
       THEN /\ sstate' = IF SIsInvite THEN "Proceeding" ELSE "Trying"
            /\ stimers' = IF SIsInvite THEN {"provisional"} ELSE {}
            /\ uasRequests' = uasRequests + 1
            /\ UNCHANGED toClient
       ELSE /\ toClient' =
                 IF \/ sstate = "Proceeding"
                    \/ ~SIsInvite /\ sstate = "Completed"
                 THEN toClient \cup ({lastResp} \ {"none"}) ELSE toClient
            /\ UNCHANGED <<sstate, stimers, uasRequests>>
  /\ UNCHANGED <<method, reliable, sretx, lastResp, tuFinal, uasTimedOut,
                 snotices>>

\* GetServerTransaction(request) finds this transaction: it is live and
\* the message's id is the one it is stored under.
Matches(msg) ==
  /\ sstate \notin {"none", "Terminated"}
  /\ ServerTransactionIdOfRequest(msg) = Sid

MutNoTimerOnAck == {}

\* Timer I, armed when the ACK confirms a non-2xx final.
TimersOnAck == {"linger"}

\* The ACK for a non-2xx final.  Found by its id: in Completed it confirms
\* the transaction (timers G and H cancelled, timer I armed); anywhere
\* else it is absorbed.  Not found: HandleIncomingRequest creates a server
\* transaction for the ACK (outside this pair) and passes it to the TU.
ServerReceiveAck ==
  /\ "ack" \in toServer
  /\ sstate # "Terminated"
  /\ toServer' = SDeliver(toServer, "ack")
  /\ IF Matches(AckTo(request))
       THEN /\ IF SIsInvite /\ sstate = "Completed"
                 THEN sstate' = "Confirmed" /\ stimers' = TimersOnAck
                 ELSE UNCHANGED <<sstate, stimers>>
            /\ UNCHANGED uasRequests
       ELSE /\ uasRequests' = uasRequests + 1
            /\ UNCHANGED <<sstate, stimers>>
  /\ UNCHANGED <<method, reliable, toClient, sretx, lastResp, tuFinal,
                 uasTimedOut, snotices>>

\* The provisional-response timer: 100 Trying unless the TU has answered.
ServerProvisionalTimer ==
  /\ "provisional" \in stimers
  /\ stimers' = stimers \ {"provisional"}
  /\ IF lastResp = "none"
       THEN toClient' = toClient \cup {"1xx"} /\ lastResp' = "1xx"
       ELSE UNCHANGED <<toClient, lastResp>>
  /\ UNCHANGED <<method, reliable, toServer, sstate, sretx, uasRequests,
                 tuFinal, uasTimedOut, snotices>>

\* The TU sends response k (NetworkLayer::SendResponse).  When
\* GetServerTransaction(response) finds the transaction, it sends it
\* (ServerTransaction::Send): 1xx: Proceeding.  2xx to an INVITE:
\* Terminated.  3xx-6xx to an INVITE: Completed with timers G (unreliable
\* only) and H.  A non-INVITE final: Completed with timer J.  Otherwise the
\* response goes straight to the channel and the transaction is untouched.
ServerSend(k) ==
  /\ ~tuFinal
  /\ sstate \in (IF SIsInvite THEN {"Proceeding"} ELSE {"Trying", "Proceeding"})
  /\ toClient' = toClient \cup {k}
  /\ tuFinal' = (k # "1xx")
  /\ IF ServerTransactionIdOfResponse(ResponseTo(request)) = Sid
       THEN /\ lastResp' = k
            /\ \/ /\ k = "1xx"
                  /\ sstate' = "Proceeding"
                  /\ UNCHANGED <<stimers, snotices>>
               \/ /\ k = "2xx" /\ SIsInvite
                  /\ sstate' = "Terminated"
                  /\ stimers' = {}
                  /\ snotices' = snotices + 1
               \/ /\ k = "3xx" /\ SIsInvite
                  /\ sstate' = "Completed"
                  /\ stimers' = IF reliable THEN {"timeout"}
                                ELSE {"retransmit", "timeout"}
                  /\ UNCHANGED snotices
               \/ /\ k # "1xx" /\ ~SIsInvite
                  /\ sstate' = "Completed"
                  /\ stimers' = {"linger"}
                  /\ UNCHANGED snotices
       ELSE UNCHANGED <<lastResp, sstate, stimers, snotices>>
  /\ UNCHANGED <<method, reliable, toServer, sretx, uasRequests, uasTimedOut>>

\* Timer G: retransmit the final response.
ServerRetransmit ==
  /\ sstate = "Completed"
  /\ "retransmit" \in stimers
  /\ sretx < MaxRetransmits
  /\ toClient' = toClient \cup {lastResp}
  /\ sretx' = sretx + 1
  /\ UNCHANGED <<method, reliable, toServer, sstate, stimers, lastResp,
                 uasRequests, tuFinal, uasTimedOut, snotices>>

\* Timer H: no ACK came; report the failure to the TU and terminate.
ServerTimeout ==
  /\ sstate = "Completed"
  /\ "timeout" \in stimers
  /\ sstate' = "Terminated"
  /\ stimers' = {}
  /\ uasTimedOut' = TRUE
  /\ snotices' = snotices + 1
  /\ UNCHANGED <<method, reliable, toServer, toClient, sretx, lastResp,
                 uasRequests, tuFinal>>

\* Timer J (Completed) or I (Confirmed): terminate.
ServerLinger ==
  /\ sstate \in {"Completed", "Confirmed"}
  /\ "linger" \in stimers
  /\ sstate' = "Terminated"
  /\ stimers' = {}
  /\ snotices' = snotices + 1
  /\ UNCHANGED <<method, reliable, toServer, toClient, sretx, lastResp,
                 uasRequests, tuFinal, uasTimedOut>>

SNext ==
  \/ ServerReceiveRequest
  \/ ServerReceiveAck
  \/ ServerProvisionalTimer
  \/ \E k \in {"1xx", "2xx", "3xx"} : ServerSend(k)
  \/ ServerRetransmit
  \/ ServerTimeout
  \/ ServerLinger

\* Timer callbacks are tasks of the executor (spec 5).
SFairness ==
  /\ WF_svars(ServerProvisionalTimer)
  /\ WF_svars(ServerTimeout)
  /\ WF_svars(ServerLinger)
====
