---------------------------- MODULE NetworkLayer ----------------------------
(***************************************************************************)
(* The network layer of sippet (src/sippet/transport/network_layer.cc):    *)
(* the destination -> ChannelContext map, the client and server           *)
(* transaction maps, reference counting of channels with the idle-release  *)
(* timer, the initial request stashed while a channel connects, the       *)
(* cascade that terminates every transaction of a destroyed channel, and  *)
(* the SSL certificate-error handling.                                     *)
(*                                                                         *)
(* Every method runs on the layer's single task runner, so each action    *)
(* below is one handler run to completion.  The transactions themselves   *)
(* are abstract here: a live transaction may at any time report that it   *)
(* terminated (OnTransactionTerminated), which is what its timers,        *)
(* responses and transport errors amount to at this layer.                 *)
(*                                                                         *)
(* Messages are data-abstracted: a request is a model value with a next   *)
(* hop and a method, a response names its server transaction and the next *)
(* hop of its top Via.  A transaction id is a tuple whose first element   *)
(* is the "c"/"s" prefix the code puts in front of the id string.          *)
(***************************************************************************)
EXTENDS Integers, FiniteSets, Sequences, FiniteSetsExt, SequencesExt, ViaRouting

CONSTANTS
  Dests,          \* destinations (channels_ keys)
  DestEndPoint,   \* the endpoint (host, port, protocol) of each destination
  TlsDests,       \* the destinations whose channels do a TLS handshake
  Requests,       \* outgoing requests the transaction user may Send
  ReqDest,        \* next hop of each request (GetMessageEndPoint)
  ReqMethod,      \* method of each request
  Responses,      \* outgoing responses the transaction user may Send
  RespServerId,   \* server transaction id a response matches
  RespDest,       \* next hop of a response (top Via, received/rport)
  ServerIds,      \* server transaction ids of incoming requests
  SslHandlerConfigs, \* with / without an ssl_cert_error_handler_factory
  MaxHolds,       \* bound on RequestChannel holds per destination
  MaxCertErrors,  \* bound on SSL certificate errors in a behaviour
  HandlerErrors,  \* may HandleSSLCertError return an error other than IO_PENDING?
  DelegateReenters, \* may the delegate Send from its OnChannelConnected?
  MaxResends,     \* bound on the TU's Sends of a request whose Send failed
  MayShutdown     \* may the layer be destroyed (~NetworkLayer)?
\* None (from ViaRouting) also stands for no context / transaction / request.

ASSUME TlsDests \subseteq Dests
ASSUME /\ DestEndPoint \in [Dests -> EndPoints]
       /\ \A d, e \in Dests : DestEndPoint[d] = DestEndPoint[e] => d = e
       /\ \A d \in Dests : (DestEndPoint[d].protocol = "TLS") <=> d \in TlsDests
ASSUME \A r \in Requests : ReqDest[r] \in Dests /\
                           ReqMethod[r] \in {"INVITE", "OPTIONS", "ACK"}
ASSUME \A p \in Responses : RespDest[p] \in Dests /\ RespServerId[p] \in ServerIds
ASSUME SslHandlerConfigs \subseteq BOOLEAN /\ SslHandlerConfigs # {}
ASSUME HandlerErrors \in BOOLEAN /\ DelegateReenters \in BOOLEAN
ASSUME MaxHolds \in Nat /\ MaxCertErrors \in Nat /\ MaxResends \in Nat
ASSUME MayShutdown \in BOOLEAN

Methods == {"INVITE", "OPTIONS", "ACK"}
Branches == 1..Cardinality(Requests)
\* ClientTransactionId: "c:" + branch + ":" + method.
ClientIds == {<<"c", b, m>> : b \in Branches, m \in Methods}
\* ServerTransactionId: "s:" + ...; the rest of the id is abstract here
\* (TransactionIds.tla translates it).
ServerTxIds == {<<"s", s>> : s \in ServerIds}
TxIds == ClientIds \cup ServerTxIds
Msgs == Requests \cup Responses

\* What Channel::Send returns: OK, ERR_IO_PENDING (the channel then owns
\* the callback) or an error.
ChannelResults == {"ok", "pending", "error"}
\* Channel states visible to the layer: connecting, waiting on a decision
\* about a certificate error, connected (is_connected()).
ChannelStates == {"connecting", "cert_error", "connected"}
\* Decisions of an SSLCertErrorTransaction: provide a client certificate,
\* accept the server certificate, or reject it.
Decisions == {"cert", "accept", "reject"}

\* wire: the requests this context's channel accepted from Channel::Send,
\* in the order it was called (a history variable of the model).
Context == [channel: ChannelStates, refs: Int, timer: BOOLEAN,
            initial: Requests \cup {None}, transactions: SUBSET TxIds,
            wire: Seq(Requests)]

\* States of an SSLCertErrorTransaction in the list: waiting on a handler
\* that returned ERR_IO_PENDING, left behind by a handler that returned
\* another error, or decided with a reconnect that returned early.
SslStates == {"waiting", "stuck", "decided"}

VARIABLES
  sslHandlerFactory,    \* is a handler factory configured (set at construction)?
  channels,             \* channels_: destination -> ChannelContext or None
  clientTransactions,   \* client_transactions_: id -> destination or None
  serverTransactions,   \* server_transactions_: id -> destination or None
  nextBranch,           \* the branch factory's next fresh branch
  viaBranch,            \* branch of each request's top Via, None: no Via
  resends,              \* Sends of requests whose earlier Send failed
  holds,                \* RequestChannel holds of the TU on each context
  sendResult,           \* what Send returned to the caller of each message
  sendOrder,            \* history: position of each request's Send call
  callbackRuns,         \* times each message's completion callback was run
                        \* or handed to a channel that returned IO_PENDING
  sslTransactions,      \* ssl_cert_error_transactions_ (dest, state)
  certErrors,           \* SSL certificate errors so far (bounded)
  alive                 \* the layer object exists (not yet destroyed)

branchVars == <<nextBranch, viaBranch, resends>>

vars == <<sslHandlerFactory, channels, clientTransactions, serverTransactions,
          branchVars, holds, sendResult, sendOrder, callbackRuns,
          sslTransactions, certErrors, alive>>

-----------------------------------------------------------------------------
(* Helpers over the layer's maps.  A "system" record st bundles the three *)
(* maps so that a handler can be written as a composition of the code's   *)
(* helper methods.                                                         *)

Sys == [ch |-> channels, ct |-> clientTransactions, stx |-> serverTransactions]

SetSys(st) ==
  /\ channels' = st.ch
  /\ clientTransactions' = st.ct
  /\ serverTransactions' = st.stx

\* ChannelContext(channel, initial_request, initial_callback): refs_ = 0.
NewContext(initial) ==
  [channel |-> "connecting", refs |-> 0, timer |-> FALSE,
   initial |-> initial, transactions |-> {}, wire |-> <<>>]

MutRequestKeepTimer(c) == [c EXCEPT !.refs = @ + 1]

\* RequestChannelInternal: add a use and stop the idle timer.
RequestChannelInternal(c) == [c EXCEPT !.refs = @ + 1, !.timer = FALSE]

MutReleaseTwice(c) ==
  [c EXCEPT !.refs = @ - 2, !.timer = IF c.refs - 2 = 0 THEN TRUE ELSE @]

\* ReleaseChannelInternal: drop a use; at zero, (re)start the idle timer.
ReleaseChannelInternal(c) ==
  [c EXCEPT !.refs = @ - 1, !.timer = IF c.refs - 1 = 0 THEN TRUE ELSE @]

\* DestroyClientTransaction / DestroyServerTransaction, reached through
\* OnTransactionTerminated, which picks the map by the "c:" prefix.
OnTransactionTerminated(st, id) ==
  LET isClient == id[1] = "c"
      d == IF isClient THEN st.ct[id] ELSE st.stx[id]
  IN [ch  |-> IF d # None /\ st.ch[d] # None
                THEN [st.ch EXCEPT ![d] =
                        ReleaseChannelInternal([@ EXCEPT !.transactions = @ \ {id}])]
                ELSE st.ch,
      ct  |-> IF isClient THEN [st.ct EXCEPT ![id] = None] ELSE st.ct,
      stx |-> IF isClient THEN st.stx ELSE [st.stx EXCEPT ![id] = None]]

MutDestroyNoCascade(st, d) == [st EXCEPT !.ch[d] = None]

\* DestroyChannelContext: erase the context first, then terminate every
\* transaction still registered with it (the "cascade on delete").
DestroyChannelContext(st, d) ==
  FoldSet(LAMBDA id, s : OnTransactionTerminated(s, id),
          [st EXCEPT !.ch[d] = None], st.ch[d].transactions)

MutDestroyOneContext(st) ==
  IF \E d \in Dests : st.ch[d] # None
  THEN DestroyChannelContext(st, CHOOSE d \in Dests : st.ch[d] # None)
  ELSE st

\* The destructor's loop: while channels_ is not empty, destroy its first
\* context (each destruction erases that context from channels_).
DestroyAllChannelContexts(st) ==
  FoldSet(LAMBDA d, acc : IF acc.ch[d] = None THEN acc
                          ELSE DestroyChannelContext(acc, d),
          st, Dests)

MutServerNoRef(st, d, id) ==
  [st EXCEPT !.stx[id] = d,
             !.ch[d] = [@ EXCEPT !.transactions = @ \cup {id}]]

\* CreateServerTransaction: register the id in the map and the context,
\* and take a reference on the channel.
CreateServerTransaction(st, d, id) ==
  [st EXCEPT !.stx[id] = d,
             !.ch[d] = RequestChannelInternal([@ EXCEPT !.transactions = @ \cup {id}])]

\* CreateClientTransaction: the same for the client map.
CreateClientTransaction(st, d, id) ==
  [st EXCEPT !.ct[id] = d,
             !.ch[d] = RequestChannelInternal([@ EXCEPT !.transactions = @ \cup {id}])]

\* channel_->Send(request): the channel takes the request unless it fails
\* at once.
Transmit(c, r, res) == IF res = "error" THEN c ELSE [c EXCEPT !.wire = Append(@, r)]

\* SendRequestUsingChannelContext stamps a top Via (StampClientTopmostVia,
\* with the fresh branch b from CreateBranch) only when the request carries
\* none; a request that went through it before keeps the Via it was given.
Stamps(r) == viaBranch[r] = None

BranchOf(r, b) == IF Stamps(r) THEN b ELSE viaBranch[r]

\* How many fresh branches sending x (a request or None) takes.
FreshBranches(x) == IF x = None THEN 0 ELSE IF Stamps(x) THEN 1 ELSE 0

\* SendRequestUsingChannelContext on a connected channel: stamp the Via,
\* create a client transaction unless ACK (its id: the Via's branch and
\* the method), then channel_->Send, whose result res the caller chooses.
SendRequestUsingChannelContext(st, r, d, b, res) ==
  LET withTx == IF ReqMethod[r] = "ACK" THEN st
                ELSE CreateClientTransaction(st, d, <<"c", BranchOf(r, b), ReqMethod[r]>>)
  IN [withTx EXCEPT !.ch[d] = Transmit(@, r, res)]

\* The position the next Send call takes in the order of calls.
NextOrder == Cardinality({q \in Requests : sendOrder[q] # 0}) + 1

\* f with f[x] set to v, or f itself when x is None.
SetIfSome(f, x, v) == IF x \in DOMAIN f THEN [f EXCEPT ![x] = v] ELSE f

\* The TU's holds die with the context they were taken on.
HoldsAfter(st) == [d \in Dests |-> IF st.ch[d] = None THEN 0 ELSE holds[d]]

MutClearOnlyPending(res, r) == IF res = "pending" THEN None ELSE r

\* OnChannelConnected: after sending the initial request, the context
\* forgets it when the send completed or is pending.
InitialAfterSend(res, r) == IF res \in {"ok", "pending"} THEN None ELSE r

\* Callback runs of the initial send in OnChannelConnected: handed to the
\* channel when its Send returned IO_PENDING, run by the layer with OK when
\* the send completed, or with the error once the context is destroyed.
InitialCallbackRuns(res) ==
  (IF res = "pending" THEN 1 ELSE 0) +
  (IF res \in {"ok", "error"} THEN 1 ELSE 0)

-----------------------------------------------------------------------------
(* Operations of the transaction user.                                    *)

\* The layer's lookups: a destination's context, a transaction by id; each
\* answers null (None) when the map has no entry.
GetChannelContext(d) == channels[d]

GetClientTransaction(id) == clientTransactions[id]

GetServerTransaction(id) == serverTransactions[id]

\* The next hop of an outgoing message: for a request its first Route or
\* else its Request-URI, for a response its topmost Via's sent-by with the
\* received / rport parameters applied; both are fixed per message here.
GetMessageEndPoint(m) == IF m \in Requests THEN ReqDest[m] ELSE RespDest[m]

\* Send(request) -> SendRequest: the first Send of r, or the TU sending the
\* same request object again after Send returned an error (bounded).
SendRequest(r) ==
  LET d == GetMessageEndPoint(r)
      Reply(v) == sendResult' = [sendResult EXCEPT ![r] = v]
  IN
  /\ \/ sendResult[r] = "none" /\ UNCHANGED resends
     \/ /\ sendResult[r] = "error"
        /\ resends < MaxResends
        /\ resends' = resends + 1
  /\ \/ /\ GetChannelContext(d) # None
        /\ channels[d].channel # "connected"
        /\ Reply("error")                    \* ERR_SOCKET_NOT_CONNECTED
        /\ UNCHANGED <<channels, clientTransactions, serverTransactions,
                       nextBranch, viaBranch, callbackRuns>>
     \/ /\ GetChannelContext(d) # None
        /\ channels[d].channel = "connected"
        /\ nextBranch' = nextBranch + FreshBranches(r)
        /\ viaBranch' = [viaBranch EXCEPT ![r] = BranchOf(r, nextBranch)]
        /\ \E res \in ChannelResults :
             /\ SetSys(SendRequestUsingChannelContext(Sys, r, d, nextBranch, res))
             /\ Reply(res)
             /\ callbackRuns' = [callbackRuns EXCEPT ![r] =
                                   IF res = "pending" THEN 1 ELSE 0]
     \/ /\ GetChannelContext(d) = None
        /\ ReqMethod[r] # "ACK"
        /\ channels' = [channels EXCEPT ![d] = NewContext(r)]
        /\ Reply("pending")                  \* ERR_IO_PENDING, Connect()
        /\ UNCHANGED <<clientTransactions, serverTransactions, nextBranch, viaBranch,
                       callbackRuns>>
     \/ /\ GetChannelContext(d) = None
        /\ Reply("error")    \* ACK cannot open a connection, or no factory
        /\ UNCHANGED <<channels, clientTransactions, serverTransactions,
                       nextBranch, viaBranch, callbackRuns>>
  /\ sendOrder' = [sendOrder EXCEPT ![r] = IF @ = 0 THEN NextOrder ELSE @]
  /\ UNCHANGED <<sslHandlerFactory, holds, sslTransactions, certErrors>>

\* Send(response) -> SendResponse.
SendResponse(p) ==
  LET id == <<"s", RespServerId[p]>>
      d == GetMessageEndPoint(p)
  IN
  /\ sendResult[p] = "none"
  /\ \/ /\ GetServerTransaction(id) # None   \* server_transaction->Send
        /\ sendResult' = [sendResult EXCEPT ![p] = "ok"]
        /\ UNCHANGED callbackRuns
     \/ /\ GetServerTransaction(id) = None
        /\ GetChannelContext(d) # None
        \* channel_->Send(response, callback); its result is ignored.
        /\ \E res \in ChannelResults :
             callbackRuns' = [callbackRuns EXCEPT ![p] =
                                IF res = "pending" THEN 1 ELSE 0]
        /\ sendResult' = [sendResult EXCEPT ![p] = "ok"]
     \/ /\ GetServerTransaction(id) = None
        /\ GetChannelContext(d) = None
        /\ sendResult' = [sendResult EXCEPT ![p] = "error"]
        /\ UNCHANGED callbackRuns
  /\ UNCHANGED <<sslHandlerFactory, channels, clientTransactions,
                 serverTransactions, branchVars,
                 holds, sendOrder, sslTransactions, certErrors>>

\* Connect(destination) when no context exists yet.
Connect(d) ==
  /\ GetChannelContext(d) = None
  /\ channels' = [channels EXCEPT ![d] = NewContext(None)]
  /\ UNCHANGED <<sslHandlerFactory, clientTransactions, serverTransactions,
                 branchVars, holds,
                 sendResult, sendOrder, callbackRuns, sslTransactions, certErrors>>

\* RequestChannel(destination).
RequestChannel(d) ==
  /\ GetChannelContext(d) # None
  /\ holds[d] < MaxHolds
  /\ channels' = [channels EXCEPT ![d] = RequestChannelInternal(@)]
  /\ holds' = [holds EXCEPT ![d] = @ + 1]
  /\ UNCHANGED <<sslHandlerFactory, clientTransactions, serverTransactions, branchVars,
                 sendResult, sendOrder, callbackRuns, sslTransactions, certErrors>>

\* ReleaseChannel(destination), by a TU that holds the channel.
ReleaseChannel(d) ==
  /\ GetChannelContext(d) # None
  /\ holds[d] > 0
  /\ channels' = [channels EXCEPT ![d] = ReleaseChannelInternal(@)]
  /\ holds' = [holds EXCEPT ![d] = @ - 1]
  /\ UNCHANGED <<sslHandlerFactory, clientTransactions, serverTransactions, branchVars,
                 sendResult, sendOrder, callbackRuns, sslTransactions, certErrors>>

\* DismissLastConnectionAttempt(destination): destroy the context, close
\* the channel, post OnChannelClosed.  The stashed initial request, if
\* any, is dropped with the context.
DismissLastConnectionAttempt(d) ==
  /\ GetChannelContext(d) # None
  /\ LET st == DestroyChannelContext(Sys, d)
     IN SetSys(st) /\ holds' = HoldsAfter(st)
  /\ UNCHANGED <<sslHandlerFactory, branchVars, sendResult, sendOrder,
                 callbackRuns, sslTransactions, certErrors>>

-----------------------------------------------------------------------------
(* Events the channels raise, and the idle timer.                         *)

\* OnChannelConnected(channel, result).  The delegate is told first
\* (delegate_->OnChannelConnected); it may re-enter Send with a request q
\* of its own, which, the channel being connected already, goes straight
\* through SendRequestUsingChannelContext.  Then, on success, the stashed
\* initial request is sent the same way; when the connect or that send
\* fails, the context is destroyed, the channel closed and the stashed
\* callback run with the error.  q = None: the delegate sends nothing.
OnChannelConnected(d, q) ==
  LET c == channels[d]
      r == c.initial
  IN
  /\ c # None
  /\ c.channel = "connecting"
  /\ \/ /\ IF q = None THEN TRUE
           ELSE DelegateReenters /\ sendResult[q] = "none" /\ ReqDest[q] = d
        /\ \E resq, res \in ChannelResults :              \* result == OK
             LET up == [Sys EXCEPT !.ch[d].channel = "connected"]
                 byDelegate == IF q = None THEN up
                               ELSE SendRequestUsingChannelContext(up, q, d, nextBranch, resq)
                 b == nextBranch + FreshBranches(q)
                 sent == IF r = None THEN byDelegate
                         ELSE SendRequestUsingChannelContext(byDelegate, r, d, b, res)
                 kept == [sent EXCEPT !.ch[d].initial = InitialAfterSend(res, r)]
                 st == IF r # None /\ res = "error" THEN DestroyChannelContext(sent, d)
                                                   ELSE kept
                 runs == IF r = None THEN callbackRuns
                         ELSE [callbackRuns EXCEPT ![r] = @ + InitialCallbackRuns(res)]
             IN /\ SetSys(st)
                /\ holds' = HoldsAfter(st)
                /\ nextBranch' = b + FreshBranches(r)
                /\ viaBranch' = SetIfSome(SetIfSome(viaBranch, q, BranchOf(q, nextBranch)),
                                          r, BranchOf(r, b))
                /\ UNCHANGED resends
                /\ callbackRuns' = SetIfSome(runs, q, IF resq = "pending" THEN 1 ELSE 0)
                /\ sendResult' = SetIfSome(sendResult, q, resq)
                /\ sendOrder' = SetIfSome(sendOrder, q, NextOrder)
     \/ /\ q = None
        /\ LET st == DestroyChannelContext(Sys, d)     \* result != OK
           IN SetSys(st) /\ holds' = HoldsAfter(st)
        /\ callbackRuns' = IF r = None THEN callbackRuns
                           ELSE [callbackRuns EXCEPT ![r] = @ + 1]
        /\ UNCHANGED <<branchVars, sendResult, sendOrder>>
  /\ UNCHANGED <<sslHandlerFactory, sslTransactions, certErrors>>

\* OnIncomingMessage with a request no server transaction matches:
\* HandleIncomingRequest creates the server transaction, then notifies the
\* delegate.  (A request that matches a live server transaction is handed
\* to it and changes nothing at this layer.)
OnIncomingRequest(d, s) ==
  /\ GetChannelContext(d) # None
  /\ channels[d].channel = "connected"
  /\ GetServerTransaction(<<"s", s>>) = None
  /\ SetSys(CreateServerTransaction(Sys, d, <<"s", s>>))
  /\ UNCHANGED <<sslHandlerFactory, branchVars, holds, sendResult, sendOrder,
                 callbackRuns, sslTransactions, certErrors>>

\* A live transaction reaches its terminated state (timer, final response,
\* transport error) and calls OnTransactionTerminated(id).
TransactionTerminated(id) ==
  /\ IF id[1] = "c" THEN GetClientTransaction(id) # None
                    ELSE GetServerTransaction(id) # None
  /\ SetSys(OnTransactionTerminated(Sys, id))
  /\ UNCHANGED <<sslHandlerFactory, branchVars, holds, sendResult, sendOrder,
                 callbackRuns, sslTransactions, certErrors>>

\* OnChannelClosed(channel, error) raised by a connected channel, and
\* OnIdleChannelTimedOut, which calls it with ERR_TIMED_OUT when the idle
\* timer of an unused context fires.
CloseContext(d) ==
  /\ LET st == DestroyChannelContext(Sys, d)
     IN SetSys(st) /\ holds' = HoldsAfter(st)
  /\ UNCHANGED <<sslHandlerFactory, branchVars, sendResult, sendOrder,
                 callbackRuns, sslTransactions, certErrors>>

OnChannelClosed(d) ==
  /\ GetChannelContext(d) # None
  /\ channels[d].channel = "connected"
  /\ CloseContext(d)

OnIdleChannelTimedOut(d) ==
  /\ GetChannelContext(d) # None
  /\ channels[d].timer
  /\ CloseContext(d)

-----------------------------------------------------------------------------
(* SSL certificate errors (TLS channels, while connecting).               *)

MutReconnectNoRestart(c) == c

\* ReconnectWithCertificate / ReconnectIgnoringLastError on the context of
\* a destination: the channel resumes its handshake.
Reconnect(c) == [c EXCEPT !.channel = "connecting"]

\* OnSSLCertErrorTransactionComplete(transaction i, rv = OK) with the
\* handler's decision.  ReconnectWithCertificate / ReconnectIgnoringLastError
\* look the context up by destination; the channel accepts a reconnect only
\* while it waits on a certificate decision (ERR_IO_PENDING), and the
\* method returns early, leaving the transaction in the list.  Every other
\* outcome dismisses the connection attempt and erases the transaction.
SslComplete(i, decision) ==
  LET d == sslTransactions[i].dest
      reconnects == /\ decision \in {"cert", "accept"}
                    /\ GetChannelContext(d) # None
                    /\ channels[d].channel = "cert_error"
  IN
  /\ IF reconnects
       THEN /\ channels' = [channels EXCEPT ![d] = Reconnect(@)]
            /\ sslTransactions' = [sslTransactions EXCEPT ![i].state = "decided"]
            /\ UNCHANGED <<clientTransactions, serverTransactions, holds>>
       ELSE /\ IF GetChannelContext(d) # None
                 THEN LET st == DestroyChannelContext(Sys, d)
                      IN SetSys(st) /\ holds' = HoldsAfter(st)
                 ELSE UNCHANGED <<channels, clientTransactions,
                                  serverTransactions, holds>>
            /\ sslTransactions' = RemoveAt(sslTransactions, i)
  /\ UNCHANGED <<sslHandlerFactory, branchVars, sendResult, sendOrder, callbackRuns>>

MutCertErrorIgnored(d) ==
  /\ channels' = [channels EXCEPT ![d].channel = "cert_error"]
  /\ UNCHANGED <<clientTransactions, serverTransactions, holds,
                 sslTransactions>>

\* Without a handler factory, OnSSLCertificateError dismisses the attempt.
CertErrorWithoutHandler(d) ==
  /\ LET st == DestroyChannelContext(Sys, d)
     IN SetSys(st) /\ holds' = HoldsAfter(st)
  /\ UNCHANGED sslTransactions

\* OnSSLCertificateError(channel, ssl_info, fatal).  Without a handler
\* factory the attempt is dismissed.  Otherwise a new SSLCertErrorTransaction
\* is appended to the list and asked to HandleSSLCertError: rv OK completes
\* it at once, ERR_IO_PENDING waits for the handler; any other rv falls
\* out of the if/else-if: the transaction stays in the list and the channel
\* waits on a decision, with nothing further scheduled (HandlerErrors).
\* What an SSLCertErrorTransaction becomes when HandleSSLCertError does not
\* answer OK: ERR_IO_PENDING leaves it waiting for its callback; any other
\* rv (when HandlerErrors) leaves it stuck, the context waiting all the same.
HandlerPending == IF HandlerErrors THEN {"waiting", "stuck"} ELSE {"waiting"}

OnSSLCertificateError(d) ==
  /\ d \in TlsDests
  /\ GetChannelContext(d) # None
  /\ channels[d].channel = "connecting"
  /\ certErrors < MaxCertErrors
  /\ certErrors' = certErrors + 1
  /\ \/ /\ ~sslHandlerFactory
        /\ CertErrorWithoutHandler(d)
     \/ /\ sslHandlerFactory
        /\ LET waiting == [Sys EXCEPT !.ch[d].channel = "cert_error"]
               Added(st) == Append(sslTransactions, [dest |-> d, state |-> st])
           IN \/ \E decision \in Decisions :                  \* rv == OK
                   /\ LET again == decision \in {"cert", "accept"}
                      IN IF again
                           THEN /\ channels' = channels
                                /\ sslTransactions' = Added("decided")
                                /\ UNCHANGED <<clientTransactions,
                                               serverTransactions, holds>>
                           ELSE /\ LET st == DestroyChannelContext(Sys, d)
                                   IN SetSys(st) /\ holds' = HoldsAfter(st)
                                /\ sslTransactions' = sslTransactions
              \/ /\ SetSys(waiting)     \* rv == ERR_IO_PENDING, or any other rv
                 /\ \E outcome \in HandlerPending : sslTransactions' = Added(outcome)
                 /\ UNCHANGED holds
  /\ UNCHANGED <<sslHandlerFactory, branchVars, sendResult, sendOrder, callbackRuns>>

\* The handler runs the callback of an SSLCertErrorTransaction for which
\* HandleSSLCertError returned ERR_IO_PENDING.
OnSSLCertErrorTransactionComplete(i) ==
  /\ i \in DOMAIN sslTransactions
  /\ sslTransactions[i].state = "waiting"
  /\ \E decision \in Decisions : SslComplete(i, decision)
  /\ UNCHANGED certErrors

\* ~NetworkLayer: the owner destroys the layer.  Every channel context is
\* destroyed, cascading the termination of its transactions; the vector of
\* SSLCertErrorTransactions is deleted with the layer.  Nothing runs on the
\* layer afterwards.
Shutdown ==
  /\ MayShutdown
  /\ alive
  /\ alive' = FALSE
  /\ LET st == DestroyAllChannelContexts(Sys)
     IN SetSys(st) /\ holds' = HoldsAfter(st)
  /\ sslTransactions' = <<>>
  /\ UNCHANGED <<sslHandlerFactory, branchVars, sendResult, sendOrder,
                 callbackRuns, certErrors>>

-----------------------------------------------------------------------------
(* The specification.                                                      *)

Init ==
  /\ sslHandlerFactory \in SslHandlerConfigs
  /\ channels = [d \in Dests |-> None]
  /\ clientTransactions = [id \in ClientIds |-> None]
  /\ serverTransactions = [id \in ServerTxIds |-> None]
  /\ nextBranch = 1
  /\ viaBranch = [r \in Requests |-> None]
  /\ resends = 0
  /\ holds = [d \in Dests |-> 0]
  /\ sendResult = [m \in Msgs |-> "none"]
  /\ sendOrder = [q \in Requests |-> 0]
  /\ callbackRuns = [m \in Msgs |-> 0]
  /\ sslTransactions = <<>>
  /\ certErrors = 0
  /\ alive = TRUE

\* The transaction user, the channels, the transactions, the idle timer
\* and the certificate-error handler, each step one task of the runner.
LayerStep ==
  \/ \E r \in Requests : SendRequest(r)
  \/ \E p \in Responses : SendResponse(p)
  \/ \E d \in Dests : \/ Connect(d)
                      \/ RequestChannel(d)
                      \/ ReleaseChannel(d)
                      \/ DismissLastConnectionAttempt(d)
                      \/ \E q \in Requests \cup {None} : OnChannelConnected(d, q)
                      \/ OnChannelClosed(d)
                      \/ OnIdleChannelTimedOut(d)
                      \/ OnSSLCertificateError(d)
  \/ \E d \in Dests, s \in ServerIds : OnIncomingRequest(d, s)
  \/ \E id \in TxIds : TransactionTerminated(id)
  \/ \E i \in DOMAIN sslTransactions : OnSSLCertErrorTransactionComplete(i)

\* Every handler runs only on a live layer; destroying it is the last step.
Next ==
  \/ alive /\ LayerStep /\ UNCHANGED alive
  \/ Shutdown

Spec == Init /\ [][Next]_vars

\* A channel always reports the end of a connection attempt: a socket
\* connect or TLS handshake completes or fails (it has its own timeout),
\* and UDP reports success on the next loop iteration.
Fairness ==
  \A d \in Dests : WF_vars(\E q \in Requests \cup {None} : OnChannelConnected(d, q) /\ UNCHANGED alive)

LiveSpec == Spec /\ Fairness

\* A handler that returned ERR_IO_PENDING from HandleSSLCertError runs its
\* completion callback later (the net::CompletionCallback contract).
HandlerFairness ==
  WF_vars(\E i \in DOMAIN sslTransactions :
            OnSSLCertErrorTransactionComplete(i) /\ UNCHANGED alive)

HandlerLiveSpec == Spec /\ Fairness /\ HandlerFairness

-----------------------------------------------------------------------------
(* Properties.                                                             *)

\* Every variable keeps its type; in particular no reference count of a
\* live context ever drops below zero (ReleaseChannelInternal).
TypeOK ==
  /\ sslHandlerFactory \in BOOLEAN
  /\ \A d \in Dests : channels[d] = None \/
        (channels[d] \in Context /\ channels[d].refs \in Nat)
  /\ clientTransactions \in [ClientIds -> Dests \cup {None}]
  /\ serverTransactions \in [ServerTxIds -> Dests \cup {None}]
  /\ nextBranch \in 1..(Cardinality(Requests) + 1)
  /\ viaBranch \in [Requests -> Branches \cup {None}]
  /\ resends \in 0..MaxResends
  /\ holds \in [Dests -> 0..MaxHolds]
  /\ sendResult \in [Msgs -> {"none", "ok", "pending", "error"}]
  /\ sendOrder \in [Requests -> 0..Cardinality(Requests)]
  /\ sslTransactions \in Seq([dest: TlsDests, state: SslStates])
  /\ callbackRuns \in [Msgs -> 0..2]
  /\ certErrors \in 0..MaxCertErrors
  /\ alive \in BOOLEAN

\* No transaction outlives its channel: every transaction in the client or
\* server map is registered with the live context of its channel, and
\* every id a context lists is a live transaction of that channel.  This is
\* what the cascade in DestroyChannelContext must maintain on every path
\* that destroys a context (close, idle timeout, failed connect or send,
\* dismissal, certificate rejection).
TransactionsBoundToChannels ==
  /\ \A id \in ClientIds : clientTransactions[id] # None =>
        /\ channels[clientTransactions[id]] # None
        /\ id \in channels[clientTransactions[id]].transactions
  /\ \A id \in ServerTxIds : serverTransactions[id] # None =>
        /\ channels[serverTransactions[id]] # None
        /\ id \in channels[serverTransactions[id]].transactions
  /\ \A d \in Dests : channels[d] # None =>
        \A id \in channels[d].transactions :
          IF id[1] = "c" THEN clientTransactions[id] = d
                         ELSE serverTransactions[id] = d

\* The reference count of a live context equals the number of transactions
\* using it plus the RequestChannel holds of the transaction user
\* (Create*Transaction / Destroy*Transaction / Request/ReleaseChannel).
RefsCountUsers ==
  \A d \in Dests : channels[d] # None =>
    channels[d].refs = Cardinality(channels[d].transactions) + holds[d]

\* The idle-release timer runs only on a context nobody uses, so its
\* firing (OnIdleChannelTimedOut) never closes a channel under a live
\* transaction or a holder.
IdleTimerOnlyWhenUnused ==
  \A d \in Dests : channels[d] # None /\ channels[d].timer =>
    /\ channels[d].refs = 0
    /\ channels[d].transactions = {}

\* A context keeps a stashed initial request only while its channel has not
\* connected: once OnChannelConnected succeeds the request is sent (and the
\* context forgets it), or the context is gone.
InitialOnlyBeforeConnected ==
  \A d \in Dests : channels[d] # None /\ channels[d].initial # None =>
    channels[d].channel \in {"connecting", "cert_error"}

\* A Send that returned ERR_IO_PENDING is never forgotten: until its
\* callback has run (or been handed to the channel), the request is still
\* stashed as the initial request of a live context.
PendingCallbackNotLost ==
  \A r \in Requests : sendResult[r] = "pending" /\ callbackRuns[r] = 0 =>
    \E d \in Dests : channels[d] # None /\ channels[d].initial = r

\* Every SSLCertErrorTransaction in ssl_cert_error_transactions_ is still
\* waiting for its handler: completed ones are erased from the list.
SslTransactionsReleased ==
  \A i \in DOMAIN sslTransactions : sslTransactions[i].state # "decided"

\* Every connection attempt ends: a context whose channel is connecting
\* (or waiting on a certificate decision) is eventually connected or
\* destroyed, so a request stashed on it is not held forever.
ConnectAttemptResolves ==
  \A d \in Dests :
    (channels[d] # None /\ channels[d].channel # "connected")
      ~> (channels[d] = None \/ channels[d].channel = "connected")

\* Outbound requests reach the wire of a channel in the order Send was
\* called (spec, section 5), even when the delegate re-enters Send from
\* OnChannelConnected while the initial request is still stashed.
InOrderTransmission ==
  \A d \in Dests : channels[d] # None =>
    LET w == channels[d].wire
    IN \A i, j \in DOMAIN w : i < j => sendOrder[w[i]] < sendOrder[w[j]]

\* A response to a request that arrived on a connected channel goes back to
\* that channel's peer, whatever sent-by the sender's Via claims (a sender
\* behind a NAT): the received / rport stamps StampServerTopmostVia adds in
\* OnIncomingMessage are exactly what GetMessageEndPoint reads when the
\* response is sent outside a server transaction (spec 5, "Via stamping on
\* response route"); a request without a Via is answered to its peer too.
RoutedBack ==
  [d \in Dests |->
     LET src == DestEndPoint[d]
     IN \A via \in SentVias(src) \cup {None} :
          ViaEndPoint(StampServerTopmostVia(via, src)) = src]

ResponseReturnsToSource ==
  \A d \in Dests : channels[d] # None /\ channels[d].channel = "connected" =>
    RoutedBack[d]

\* Once the layer is destroyed no channel context and no transaction is
\* left in its maps: the destructor's loop reaches every context, and each
\* destruction cascades OnTransactionTerminated over the transactions bound
\* to it (spec 5: shutdown terminates every transaction).
ShutdownReleasesAll ==
  ~alive =>
    /\ \A d \in Dests : channels[d] = None
    /\ \A id \in ClientIds : clientTransactions[id] = None
    /\ \A id \in ServerTxIds : serverTransactions[id] = None

\* A certificate decision acts only on the connection attempt it was asked
\* about: completing an SSLCertErrorTransaction (which reconnects or
\* dismisses by destination) leaves alone every context of that
\* destination that is not waiting on a certificate decision.
DecisionOnlyForItsAttempt ==
  [][\A i \in DOMAIN sslTransactions :
       LET d == sslTransactions[i].dest
       IN (OnSSLCertErrorTransactionComplete(i) /\ channels[d] # None
             /\ channels[d].channel # "cert_error")
            => channels'[d] = channels[d]]_vars

====
