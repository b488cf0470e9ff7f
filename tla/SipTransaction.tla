--------------------------- MODULE SipTransaction ---------------------------
(***************************************************************************)
(* A client transaction and the server transaction it creates at the      *)
(* other end, talking over one channel.  The method (INVITE or not) and   *)
(* whether the channel is reliable are chosen at start.  An unreliable    *)
(* channel may lose any message in flight and deliver one many times, in  *)
(* any order; retransmission timers are how the transactions cope.        *)
(* The request's identifying headers take one of a few shapes, which     *)
(* decide what the server side's id lookups find.                         *)
(***************************************************************************)
EXTENDS Naturals

CONSTANTS
  MaxRetransmits,
  None,     \* model value: no such header or tag
  Shapes    \* request shapes: "rfc3261" (magic-cookie branch, no To tag),
            \* "rfc2543_dialog" (no cookie, To tag of a dialog), "rfc2543"
            \* (no cookie, no To tag: a request outside a dialog)

ASSUME Shapes \subseteq {"rfc3261", "rfc2543_dialog", "rfc2543"} /\ Shapes # {}

VARIABLES
  method, reliable, toServer, toClient,
  cstate, ctimers, cretx, uacLast, uacReports, cnotices, registered,
  request, sstate, stimers, sretx, lastResp, uasRequests, tuFinal,
  uasTimedOut, snotices

C == INSTANCE ClientTransaction
S == INSTANCE ServerTransaction

clientVars == <<cstate, ctimers, cretx, uacLast, uacReports, cnotices, registered>>
serverVars == <<sstate, stimers, sretx, lastResp, uasRequests, tuFinal,
                uasTimedOut, snotices>>
vars == <<method, reliable, toServer, toClient, request, clientVars, serverVars>>

\* The request a peer of the given shape sends, with CSeq 1.
ShapedRequest(m, sh) ==
  [method |-> m,
   via |-> [branch |-> [cookie |-> sh = "rfc3261", text |-> "b1"],
            sentby |-> "uac"],
   totag |-> IF sh = "rfc2543_dialog" THEN "t" ELSE None,
   fromtag |-> "f", callid |-> "cid", cseq |-> [seq |-> 1, method |-> m]]

Init ==
  /\ method \in {"INVITE", "OPTIONS"}
  /\ reliable \in BOOLEAN
  /\ \E sh \in Shapes : request = ShapedRequest(method, sh)
  /\ toServer = {"req"}
  /\ toClient = {}
  /\ C!CInit
  /\ S!SInit

\* The unreliable channel drops a message in flight.
Lose ==
  /\ ~reliable
  /\ \/ \E m \in toServer : toServer' = toServer \ {m} /\ UNCHANGED toClient
     \/ \E m \in toClient : toClient' = toClient \ {m} /\ UNCHANGED toServer
  /\ UNCHANGED <<method, reliable, request, clientVars, serverVars>>

\* The client's network layer destroys the context of the channel under
\* the client transaction (the peer closed it, or a send failed).  The
\* server's side is a different layer and is not affected.
ChannelClosed == C!Close /\ UNCHANGED serverVars

Next ==
  \/ C!CNext /\ UNCHANGED <<request, serverVars>>
  \/ S!SNext /\ UNCHANGED <<request, clientVars>>
  \/ Lose
  \/ ChannelClosed /\ UNCHANGED request

Spec == Init /\ [][Next]_vars

FairSpec == Spec /\ C!CFairness /\ S!SFairness

\* The abstract transaction the client side implements.
CA == INSTANCE TransactionSpec
        WITH lastUp <- uacLast, reports <- uacReports,
             terminated <- ~registered, notices <- cnotices

-----------------------------------------------------------------------------
(* Properties.                                                             *)

\* The client transaction keeps the promise of TransactionSpec whatever the
\* channel loses or duplicates, and even when the layer closes it: the TU
\* gets provisionals, then one final outcome and nothing after it, and the
\* network layer is told at most once that the transaction terminated,
\* never after it was erased, when GetClientTransaction would return null
\* and DestroyClientTransaction dereference it (network_layer.cc:830).
ClientImplementsSpec == CA!Spec

\* However many copies of the request arrive (retransmitted by timer E / A,
\* duplicated by the channel), and whatever copies of the ACK to a non-2xx
\* final follow, the server TU is handed one request: every later copy,
\* the ACK included, is found by its ServerTransactionId and absorbed by
\* the transaction instead of creating another (HandleIncomingRequest).
UasSeesRequestOnce == uasRequests <= 1

\* Every client transaction is eventually erased from the layer's map, so
\* the reference it holds on its channel is released: before its final
\* outcome timerF / timerB stays armed, after it timerK / timerD is, and a
\* closed channel erases it at once.
ClientReleased == <>(~registered)

\* Once the server TU has answered with a final response (SendResponse),
\* its server transaction terminates, and so is erased and releases its
\* channel, whether or not the ACK or the response gets through (timers
\* H, I and J): the response must have reached the transaction, which
\* GetServerTransaction(response) finds by ServerTransactionId.
ServerTransactionEnds == tuFinal ~> (sstate = "Terminated")
====
