# TLA+ models of sippet's message and transport layers

This directory holds TLA+ models of the SIP stack in this repository. It covers three parts:

- the **network layer**: channels, the transaction registry and TLS certificate errors (`src/sippet/transport/network_layer.cc`);
- the **message layer**: the canonical raw-headers buffer, its parsed index, and the mutations that rebuild and re-parse it (`src/unnamed/part_000`, which is `message.cc`);
- the **transactions**: the client and server state machines of spec §4.4 over a lossy channel, with an abstract specification the client side is shown to implement. Only their interface is under `src/`, so these are modelled from the spec and marked `spec_modelled`.

Each module is translated from the code and checked with TLC. `PROJECT.json` is the machine-readable companion. It has the components, the runs, the map from every definition to the source lines it models, the findings, and the hazards.

## 1. The system

| Part | Source | State | Operations |
|---|---|---|---|
| NetworkLayer | `src/sippet/transport/network_layer.cc` | `channels_`: destination → ChannelContext (channel, `refs_`, idle `timer_`, `initial_request_`/`initial_callback_`, `transactions_`); `client_transactions_`, `server_transactions_`; `ssl_cert_error_transactions_` | `Send` (request path and response path), `Connect`, `RequestChannel`, `ReleaseChannel`, `DismissLastConnectionAttempt`, `Reconnect*`, channel delegate events (`OnChannelConnected`, `OnIncomingMessage`, `OnChannelClosed`, `OnSSLCertificateError`), `OnTransactionTerminated`, `OnIdleChannelTimedOut`, `OnSSLCertErrorTransactionComplete` |
| Message | `src/unnamed/part_000` | `raw_headers_` (start line `\0` header lines `\0\0`), `parsed_` (entries; a continuation has an empty name) | `Parse`, `AddHeader`, `RemoveHeader(s)`, `RemoveHeaderLine`, `ReplaceStartLine`, `SetViaReceived`; queries `FindHeader`, `EnumerateHeader`, `EnumerateHeaderLines`, `HasHeader(Value)`, typed accessors |
| Header table | `src/unnamed/part_001` | static name / compact-form tables | `AtomTraits<Header::Type>::coerce`, `Header::print` |
| Transactions | `src/unnamed/part_004` (interface only) | per-transaction state machine and timers | `Start`, `Send`, `HandleIncoming*`, `Close`, `OnTransactionTerminated` |
| has_multiple, Date | `part_002`, `part_003` | vector wrapper, declaration | none of their own |
| Phone facade | `src/sippet/phone/phone.h` | interface | none |
| WebRTC glue | `src/third_party/libjingle/overrides/init_webrtc.cc` | none | forwarding to tracing and metrics |

**How the parts interact.**

- The transaction user (TU) calls `NetworkLayer::Send`.
- For a request, the layer:
  - stamps Via and Contact;
  - finds or creates the ChannelContext for the next hop;
  - creates a client transaction (not for ACK), which takes a reference on the context;
  - sends on the channel.
- If the channel is still connecting, the layer creates the context with the request stashed as its *initial request* and returns `ERR_IO_PENDING`. The stashed request is sent from `OnChannelConnected`.
- Responses go through their server transaction if one exists. Otherwise they go straight to a channel.
- Incoming requests create server transactions.
- Channel events arrive as delegate calls on the layer's single task runner. Each handler therefore runs to completion, and that is the atomicity of one TLA+ action.
- A context dies through any of these:
  - `OnChannelClosed` (it closed);
  - `OnIdleChannelTimedOut` (its reference count stayed at zero);
  - a failed connect or initial send;
  - `DismissLastConnectionAttempt`;
  - a rejected TLS certificate.
- When a context dies, `DestroyChannelContext` terminates every transaction still registered on it. Each of those terminations comes back through `OnTransactionTerminated`, which releases a reference on a context that is already gone.
- The delegate (the TU) is called from inside the handlers, and may call back into the layer: `OnChannelConnected` tells the delegate before it sends the stashed initial request.
- A client transaction retransmits its request over an unreliable channel until a response or its timeout; the server transaction absorbs the copies and retransmits its own last response. Each transaction calls `OnTransactionTerminated` once it reaches Terminated.
- Messages are built and mutated with the Message API. Every mutation rebuilds a new raw buffer from the current one and re-parses it.

**Hard behaviours the code is exposed to.** Each one is listed in `PROJECT.json` under `hazards`, at its line.

- the cascade of terminations when a context dies;
- the idle timer racing new users;
- a stashed initial request whose callback must run exactly once;
- certificate decisions that arrive synchronously, later, never, or after their attempt was replaced;
- re-entrant calls from delegate callbacks;
- lost, duplicated and reordered messages between transactions, and the timers that must end every transaction;
- the `ERR_IO_PENDING` callback contract;
- non-atomic message mutations;
- compact-name lookups;
- coalesced header values that the index splits and every walk must regroup.

## 2. Modules

### `NetworkLayer.tla`, instantiated by `MC_NetworkLayer.tla`

**State.** The model has these variables:

- `channels`: destination → context record or `None`. The context record has these fields:
  - `channel` is connecting, cert_error or connected;
  - `refs`;
  - `timer` (whether the idle timer is running);
  - `initial` (the stashed request or `None`);
  - `transactions`.
- `clientTransactions` and `serverTransactions`: id → destination.
- `nextBranch`: the branch factory.
- `viaBranch`: the branch of each request's top Via, or `None` while it has none. `SendRequestUsingChannelContext` stamps a Via with a fresh branch only on a request without one, and the stamp stays on the request object, so a second `Send` of the same request reuses its branch.
- `resends`: how many times the TU has sent again a request whose `Send` returned an error. It is bounded by `MaxResends`.
- `sslHandlerFactory`: whether the layer was constructed with an SSL certificate-error handler factory. It is chosen in `Init` from `SslHandlerConfigs` and never changes.
- Ghost variables for what the code promises its callers:
  - `holds`: the TU's `RequestChannel` holds;
  - `sendResult`: what `Send` returned for each message;
  - `callbackRuns`: how often each completion callback ran, or was handed to a channel that returned `ERR_IO_PENDING`.
- `sslTransactions`: the `ssl_cert_error_transactions_` vector, recording the destination and a state: `waiting` (the handler returned `ERR_IO_PENDING`), `stuck` (it returned another error) or `decided` (a reconnect returned early).
- `certErrors`: bounded.
- History variables for the in-order guarantee of spec §5: each context's `wire` (the requests its channel accepted, in order) and `sendOrder` (the position of each request's `Send` call). No guard reads them, so `MC_NetworkLayer.tla` defines `StateWithoutHistory`, a `VIEW` used by the core run, whose properties do not mention them.

**Ids.** Client ids are `<<"c", branch, method>>`, where the branch is the one of the request's top Via (`Stamps`, `BranchOf`, `FreshBranches` for `CreateBranch`). Server ids are `<<"s", s>>`. The prefixes are kept because the code distinguishes the two maps by them in `OnTransactionTerminated`.

**Actions.** There is one action per public method or delegate handler. Each action is built from operators named after the code's private helpers:

- `RequestChannelInternal`, `ReleaseChannelInternal`;
- `CreateClientTransaction`, `CreateServerTransaction`;
- `DestroyChannelContext`, whose cascade is a `FoldSet` of `OnTransactionTerminated` over the context's transactions;
- `SendRequestUsingChannelContext` (with `Transmit`, the channel's `Send`), `InitialAfterSend`, `InitialCallbackRuns`;
- `Reconnect`, for `ReconnectIgnoringLastError` / `ReconnectWithCertificate`.
- the lookups `GetChannelContext`, `GetClientTransaction`, `GetServerTransaction` (`None` for a missing entry) and `GetMessageEndPoint`, whose per-message result (Route or Request-URI for a request, the top Via with received/rport for a response) is the constant `ReqDest` / `RespDest`.

**Destruction.** `alive` is false once the owner has destroyed the layer. `Shutdown` is `~NetworkLayer`: `DestroyAllChannelContexts` runs the destructor's loop over `channels_`, each `DestroyChannelContext` cascading to its transactions, and the SSL transaction vector goes with the layer. Every other action runs only while `alive` (`Next` conjoins it to `LayerStep`). `MayShutdown` switches `Shutdown` on.

`OnChannelConnected(d, q)` models the whole handler including the delegate call: `q` is a request the delegate sends re-entrantly from `delegate_->OnChannelConnected` (or `None`), which goes through `SendRequestUsingChannelContext` before the stashed initial request does. `DelegateReenters` switches this on. A delegate that closes or dismisses the channel from that callback is not modelled: the handler would then use a deleted context, which is undefined behaviour.

**What the channel may return.**

- Every channel `Send` returns ok, pending or error.
- Every connect ends in success or an error.
- On a TLS destination, a connect may instead raise a certificate error.
- With a handler, `HandleSSLCertError` returns OK (decision at once), `ERR_IO_PENDING` (decision later) or, when `HandlerErrors` is set, another error. A decision is cert, accept or reject.

These are nondeterministic choices, because the channel and the handler are not under `src/`.

### `ViaRouting.tla`, extended by `NetworkLayer`

The data path of a response sent outside a server transaction. Each destination has an endpoint (`DestEndPoint`: host, port, transport). `StampServerTopmostVia(via, src)` is the stamp `OnIncomingMessage` puts on an incoming request from peer `src`: a Via with the peer's address when there is none, otherwise `received` and `rport` where sent-by's host or port differs from the peer's. `ViaEndPoint(via)` is the response branch of `GetMessageEndPoint`: sent-by and transport, with `received` and `rport` taking precedence, and the empty endpoint without a Via. `SentVias(src)` are the Vias a sender writes: any sent-by (a sender behind a NAT does not know its public address) over the transport it uses, without receiver parameters.

### `Message.tla`, instantiated by `MC_Message.tla`

**State.**

- `raw` is `raw_headers_` as `[start, lines, closed]`, where `closed` means the buffer ends in its double null.
- `parsed` is `parsed_` as a sequence of `[name, vals]`; a continuation has the empty name `NoName`.
- `last` is a ghost variable: the last operation and what its `ParseInternal` returned.

**Data abstraction.**

- A header name is `[word, upper]`: the lower-case spelling and whether it had capitals. Case-insensitive comparison compares `word`.
- A value is the sequence of its comma-separated items. An item has a syntactic kind (`addr`, `angle`, `dname`, `quoted`, `dup`, `tok`, `open`) and a count of `;received=` parameters.
- A start line is one of a few forms, including the partial forms `ParseRequestLine` leaves in the buffer when it rejects a line.

**Parsing.**

- `ParseInternal` composes `ParseStartLine`, the recursive `NormalizeHeaders` and `IndexEntries`.
- `NormalizeHeaders` expands compact names and calls `NormalizeContactLikeHeader`, which rewrites each item (`addr` → `angle`, `dname` → `quoted`, a bare token → an unclosed quote) and fails on `dup`.
- `IndexEntries` is `AddHeader(iterators)`: it splits coalescing headers into continuations.
- On failure, `ParseInternal` leaves exactly what the code leaves: the part of the buffer already written, no closing null, and an empty index.

**Queries.** `FindHeader`, `EnumerateHeader` (one call of the iterator protocol), `EnumerateValues` (the caller's loop) and `EnumerateHeaderLines` are recursive operators over `parsed`.

**Mutations.** Each mutation is an operator from a message to the result of its re-parse. Its action applies that result:

- `AddHeaderResult`;
- `RemoveHeaderResult`, `RemoveHeadersResult` and `ReplaceStartLineResult`, all through `MergeWithMessage`;
- `RemoveHeaderLineResult`;
- `SetViaReceivedResult`.

The same operators are used inside properties that compare a message with the result of a mutation.

**Modelled from the spec.** `SipUtil` is not under `src/`. Its compact-form table, contact-like set and non-coalescing set are therefore taken from spec §4.1 and §4.2 and marked `spec_modelled`.

### `TransactionSpec.tla`, `ClientTransaction.tla`, `ServerTransaction.tla`, composed in `SipTransaction.tla`

These follow spec §4.4 (`spec_modelled`), except the network layer's dispatch of messages. That part follows `NetworkLayer::OnIncomingMessage`: a request goes through `GetServerTransaction` and `HandleIncomingRequest` (`Matches`, `CreatesTransaction`, `ServerReceiveRequest`, `ServerReceiveAck`), and a response through `HandleIncomingResponse` (`HandleIncomingResponse(k)`, `DiscardUnattached`). The TU's responses go through `SendResponse`, which looks the server transaction up by the response's id (`ServerSend`).

- **`TransactionIds`** translates `NetworkLayer::ServerTransactionId` for a request and for a response: with a magic-cookie branch, branch, sent-by and the method (ACK folded into INVITE for a request, the CSeq method for a response); otherwise the RFC 2543 fallback over To and From tags, Call-ID, CSeq number, method, sent-by and branch. A message is a record of the fields the id reads. The id string is the `:`-joined fields, kept as the tuple of those fields, and a missing tag or branch is the empty string, as in the code.

- **`TransactionSpec`** is the abstract promise of a client transaction: the TU is passed provisionals (`lastUp`), then exactly one final outcome (`reports`), nothing after it, then the transaction terminates (`terminated`, sticky) and notifies the network layer once (`notices`). Its actions are `PassProvisional`, `Report`, `Terminate`, `ReportAndTerminate` (a 2xx to an INVITE, a timeout or a transport error do both in one step) and `Abort` (the layer ends the transaction itself when its channel closes: no outcome, no notice).
- **`ClientTransaction`**: `cstate` (Trying/Calling, Proceeding, Completed, Terminated), the set of armed timers `ctimers` (`retry` = E/A, `timeout` = F/B, `linger` = K/D), the retry count, what was passed to the TU, and `registered` (is it still in the layer's `client_transactions_`). `NotifyTerminated` is `OnTransactionTerminated`: the notice erases it. Actions: `ClientRetry`, `ClientReceive(k)` for a 1xx, 2xx or 3xx-6xx while the transaction is alive, `HandleIncomingResponse(k)` for a response that arrives after the transaction terminated and was erased from the layer's table (it is discarded), `ClientTimeout`, `ClientTransportError`, `ClientLinger`, and `Close`: `DestroyClientTransaction` erases it and calls `Close()`, which cancels its timers (`TimersAfterClose`, spec §9).
- **`ServerTransaction`**: `sstate` (none, Trying, Proceeding, Completed, Confirmed, Terminated), `stimers` (`provisional`, `retransmit` = G, `timeout` = H, `linger` = J/I), the last response sent, the requests passed to the TU (`uasRequests`), and whether the TU has sent a final response (`tuFinal`). The transaction is stored under `Sid`, the id of the request that created it. `ResponseTo` and `AckTo` are what the peers send: a response copies the request's Via, From, Call-ID and CSeq and adds a To tag when the request had none (RFC 3261 §8.2.6.2), and the ACK to a non-2xx final takes the request's Via and the response's To (§17.1.1.3). An ACK that no live transaction matches is handed to the TU as a new request, and a response that `SendResponse` cannot match goes straight to the channel, leaving the transaction as it was. Actions: `ServerReceiveRequest`, `ServerReceiveAck`, `ServerProvisionalTimer` (the automatic 100 Trying), `ServerSend(k)` (the TU's `Send`), `ServerRetransmit`, `ServerTimeout`, `ServerLinger`.
- **`SipTransaction`** instantiates both over shared variables: the method (INVITE or OPTIONS), the channel's reliability and the request's shape (`Shapes`: `rfc3261` with a magic-cookie branch, `rfc2543_dialog` without a cookie but with a dialog's To tag, `rfc2543` without either) are chosen in `Init`; `toServer` and `toClient` are the sets of messages in flight. On an unreliable channel a delivery leaves the message in flight (so it may be delivered again, in any order) and `Lose` drops any of them; on a reliable channel a delivery consumes it. `ChannelClosed` is `NetworkLayer::OnChannelClosed` for the client's channel: `DestroyChannelContext`'s cascade runs `Close` on the transaction at any point of its life. `CA == INSTANCE TransactionSpec WITH lastUp <- uacLast, reports <- uacReports, terminated <- ~registered, notices <- cnotices` is the refinement mapping, and `CA!Spec` is checked as a property.

Timer durations are not modelled: a timer is armed or not, and a cancelled timer never fires (spec §5). A request copy that arrives after the server transaction terminated would start a second server transaction in the network layer; the pair models one transaction each, so such a copy is left undelivered. For the same reason a close of the server's channel is not modelled: the client's next retransmission would, by RFC 3261's design, start a new server transaction.

## 3. Runs

| Run | cfg | Expect | What it shows |
|---|---|---|---|
| network_core | `MC_NetworkLayer.cfg` | pass | Every interleaving of the operations, with a delegate that re-enters `Send` from `OnChannelConnected` and a certificate handler that answers OK or `ERR_IO_PENDING` (and may never call back), keeps these properties. `TransactionsBoundToChannels`: every registered transaction belongs to a live context on its destination and vice versa. `RefsCountUsers`: `refs_` equals transactions plus TU holds, so it never goes negative. `IdleTimerOnlyWhenUnused`: the idle timer runs only when unused. `InitialOnlyBeforeConnected`: a stashed initial request exists only while not connected. `ResponseReturnsToSource`: for every connected channel and every Via its peer may send, the stamped Via routes the response back to that peer. `ShutdownReleasesAll`: after the destructor no context and no transaction remains. `CHECK_DEADLOCK FALSE`: the layer may be destroyed, after which nothing runs. |
| network_handler_liveness | `MC_NetworkLayer_HandlerLive.cfg` | pass | `ConnectAttemptResolves`: every connection attempt eventually ends connected or destroyed. This holds both with no handler factory (the attempt is dismissed) and with a handler that returns OK or `ERR_IO_PENDING` and later runs its callback. The TU may also resend a request whose `Send` failed. |
| network_handler_error | `MC_NetworkLayer_HandlerError.cfg` | violation | `ConnectAttemptResolves`: a handler that returns an error from `HandleSSLCertError` leaves the channel waiting on its certificate decision for ever. |
| network_lost_callback | `MC_NetworkLayer_LostCallback.cfg` | violation | `PendingCallbackNotLost`: `DismissLastConnectionAttempt` destroys a context with a stashed request whose `Send` returned `ERR_IO_PENDING`, and the callback never runs. |
| network_ssl_leak | `MC_NetworkLayer_SslLeak.cfg` | violation | `SslTransactionsReleased`: a certificate decision that leads to a reconnect returns before erasing its `SSLCertErrorTransaction`. |
| network_in_order | `MC_NetworkLayer_InOrder.cfg` | violation | `InOrderTransmission`: a request the delegate sends from `OnChannelConnected` reaches the wire before the initial request whose `Send` came first (spec §5). |
| network_id_collision | `MC_NetworkLayer_IdCollision.cfg` | violation | `RefsCountUsers`: on a connected channel, `Send` of an INVITE fails after the layer stamped its Via and created its client transaction. The TU sends the same request again, which gets the same id. `CreateClientTransaction` overwrites the map entry and takes a second reference, so the channel holds one reference more than it has users. |
| network_stale_decision | `MC_NetworkLayer_StaleDecision.cfg` | violation | `DecisionOnlyForItsAttempt` (an action property): the TU dismisses an attempt waiting on a certificate decision and connects again; the late decision then dismisses the new attempt. |
| message_core | `MC_Message.cfg` | pass | `HeaderLinesInvertIndex`: after every successful mutation, the walk that all mutations use gives back exactly the buffer's lines. `EnumerateHeaderYieldsValues`: `EnumerateHeader`'s iterator protocol yields every value, continuations included, in order. |
| message_atomicity | `MC_Message_MutationAtomic.cfg` | violation | `MutationAtomic`: a failed re-parse, for example `AddHeader` of a Contact with two addresses, leaves a truncated buffer and an empty index instead of the old message (spec §4.2). |
| sip_transaction | `MC_SipTransaction.cfg` | pass | For INVITE and non-INVITE, over a reliable or a lossy, duplicating channel, with the client's channel closable at any point, and for `rfc3261` and `rfc2543_dialog` requests: `ClientImplementsSpec` (the client transaction implements `TransactionSpec`: one final outcome to the TU, nothing after it, at most one termination notice, and none once the layer erased it, when `GetClientTransaction` would return null at `:830`); `UasSeesRequestOnce` (the server TU gets the request once: every copy and the ACK are found by `ServerTransactionId`); `ClientReleased` (the client transaction always leaves `client_transactions_`, releasing its channel); `ServerTransactionEnds` (once the TU has sent a final response, the server transaction terminates, whatever the channel loses). `CHECK_DEADLOCK FALSE`: once both transactions have terminated and the channel is empty, nothing is left to do. |
| sip_rfc2543 | `MC_SipTransaction_Rfc2543.cfg` | violation | `ServerTransactionEnds` for an `rfc2543` request: the TU's final response carries the To tag it added, so `SendResponse` does not find the transaction and sends the response around it; the transaction stays in Proceeding (INVITE) or Trying (non-INVITE), where no timer runs (finding 4). |

Every property of a passing run has a mutant in `PROJECT.json`: a plausible bug in the mapped code that TLC catches under that run's cfg. Examples:

- the context cascade dropped;
- a server transaction that takes no reference;
- the idle timer not stopped on reuse;
- the initial request cleared only on pending;
- the continuation clobber forgotten;
- a reconnect that does not resume the channel;
- a client transaction that passes a retransmitted final up again, or whose 1xx cancels its timeout as well;
- a server id that does not fold ACK into INVITE, or a server transaction that arms no timer on the ACK;
- `EnumerateHeader` searching by name past a continuation.

### Bounds and why they suffice

**`MC_NetworkLayer`.**

- Two destinations, one of them TLS.
- Requests and responses:
  - an INVITE and an ACK to `d1`, an OPTIONS to `d2`;
  - one response with one server id, so both `Send` paths and both server-transaction paths happen.
- `MaxHolds = 1`.
- `DestEndPoint`: `d1` is 10.0.0.1:5060 over UDP, `d2` 10.0.0.2:5070 over TLS. With the two hosts and two ports of `ViaRouting`, a peer's Via may claim its own address, another host, another port, or both, so each of the four stamping cases happens on both channels.
- `MayShutdown = TRUE` in the core run only: the destructor may run in any reachable state. The other runs keep it off, so that the liveness run still checks for deadlock.
- `MaxResends = 0` in the core run. A resend after a failed `Send` overwrites a live client transaction (finding 8), which breaks `RefsCountUsers` by design. The liveness run and the id-collision run allow one resend. Without resends, a request's Via branch is read only before it is stamped, so the core run's `VIEW` leaves the stamped branches out.
- `SslHandlerConfigs = {TRUE}` in the core run. The liveness run takes `{TRUE, FALSE}`, so that both constructions are initial states.
- `HandlerErrors`: off in the core and liveness runs, on in `network_handler_error` (`HandlerPending` is the set of outcomes of a handler that does not answer OK).
- `MaxCertErrors = 1`: one certificate error, with every decision (cert, accept, reject) taken synchronously or later, reaches every certificate path of the code.

The bounds reach these cases:

- a pending initial request meeting a close, a dismissal or an idle timeout;
- a transaction terminating after its context died;
- the idle timer armed and then cancelled by a new user;
- every certificate decision.

The main run also lets the delegate re-enter `Send`; with the history-free `VIEW` it has about 574,000 distinct states and takes about two minutes. It leaves out handler errors (`HandlerErrors = FALSE`): for its safety properties a handler that returned an error (`stuck`) is a waiting handler whose callback never comes, which the run already contains. The `network_handler_error` run has them. The violation runs use one or two requests, enough for their scenario (the in-order run: the INVITE stashed on `d1` and the ACK the delegate sends; the stale-decision run: the OPTIONS to the TLS destination).

**`MC_SipTransaction`.** Both methods and both kinds of channel are initial states. `MaxRetransmits = 2` lets the request, and the server's final, be retransmitted after a loss and then duplicated; the code's retransmission count is finite (the interval doubles until timer F/B or H), and two copies are enough to meet a retransmission in every state. Two request shapes are initial states in the passing run: `rfc3261`, the form sippet's own peers send, and `rfc2543_dialog`, whose To tag is the same in the request, the responses and the ACK, so every id agrees. The `rfc2543` shape, where they disagree, is the violation run. About 7,000 distinct states.

**`MC_Message`.**

- Two initial messages: a request with a compact Contact, and a response with a compact Via.
- Five header inputs:
  - a coalesced Via with two values;
  - a compact Via;
  - a Contact that needs normalizing;
  - a malformed Contact;
  - a two-value WWW-Authenticate, which is non-coalescing.
- Three start lines, one with an unsupported version.
- `MaxLines = 3` and `MaxReceived = 1`.

So every mutation meets each of these: continuations, non-coalesced values, normalization, a failed re-parse, and the recovery from it.

### Fairness

`LiveSpec` assumes weak fairness of `OnChannelConnected` for each destination. A channel always reports the end of a connect attempt, success or error, as a task on the layer's runner, so that handler cannot stay enabled forever without running.

Nothing else is fair:

- the TU may never send or release;
- the idle timer and the certificate handler may never fire.

`HandlerLiveSpec` adds weak fairness of `OnSSLCertErrorTransactionComplete`: a handler that returned `ERR_IO_PENDING` must run its completion callback later (the `net::CompletionCallback` contract). A handler that returned another error gets no fairness, because nothing will call back; that is the `network_handler_error` violation.

`SipTransaction`'s `FairSpec` assumes weak fairness of the timers that end a transaction (F/B, K/D, H, I/J and the provisional timer): timer callbacks are tasks of the same executor (spec §5), so an armed timer fires unless cancelled. The channel gets no fairness (it may lose everything, or close at any time or never), and neither does the server TU (it may never answer).

## 4. Findings

| # | Kind | Location | Finding |
|---|---|---|---|
| 1 | code bug | `network_layer.cc:116` | The stashed initial callback is dropped when a connection attempt is dismissed. This includes the SSL paths with no handler or a rejection. |
| 2 | code bug | `network_layer.cc:793` | `SSLCertErrorTransaction`s leak on the reconnect paths. |
| 3 | divergence | `part_000:122` | Message mutations are not atomic. A failed re-parse wipes the headers and leaves an unterminated buffer. |
| 4 | divergence | `network_layer.cc:559` | For a request without the magic cookie and without a To tag (RFC 2543, outside a dialog), the ids of the TU's responses and of the ACK contain the To tag the UAS added, so they miss the server transaction: the response bypasses it, which then never terminates, and the ACK reaches the TU as a new request. Spec §8 says the ids of R, A and F are equal. |
| 5 | divergence | `network_layer.cc:666` | A request sent by the delegate from `OnChannelConnected` overtakes the stashed initial request on the wire (spec §5). |
| 6 | code bug | `network_layer.cc:770` | A late certificate decision acts on a newer connection attempt to the same destination. |
| 7 | code bug | `network_layer.cc:774` | A handler error from `HandleSSLCertError` is ignored; the channel waits for ever. |
| 8 | code bug | `network_layer.cc:279` | A TU that resends a request whose `Send` failed reuses the Via branch the layer stamped, so `CreateClientTransaction` overwrites a live transaction with the same id. Its channel reference leaks, and its termination later dereferences null (`:830`). |

Three more divergences are visible directly in the code and kept in the model, but no run states them (see the hazards at `network_layer.cc:240`, `part_000:58` and `part_000:476`):

- `SendResponse` returns OK whatever the channel's `Send` returned;
- `RemoveHeader` with a compact name never matches a header stored under its expanded name;
- `SetViaReceived` appends `received` to the last value of a coalesced first Via line, where spec §4.2 says the topmost Via. The `message_core` run reaches that case. The network layer does not call `SetViaReceived`: it stamps the parsed Via (`:399`), which `ResponseReturnsToSource` covers.

## 5. Not modelled, and the plan

Modelled so far:

- the network layer's state-changing handlers and its destructor, with a re-entrant delegate `Send`, every outcome of the certificate handler, Via-branch stamping, the received/rport stamps that route responses, and a TU that resends a failed request;
- the message buffer and index with all mutations and lookups;
- the client and server transactions of spec §4.4, composed over a lossy channel and a client channel that may close, with the refinement to `TransactionSpec`.

The plan for later work, in order:

1. **Transactions in the network layer.** The client's channel close is composed in `SipTransaction`; still to do: compose the transactions with `NetworkLayer`'s reference counts in place of its abstract "may terminate" step, and a request copy arriving after its server transaction terminated (a second server transaction).
2. **Stale events.** Channel events delivered after `Close` (`:753`).
3. **Message accessors.**
   - `ParseVersion` over bounded character strings, against the RFC grammar.
   - `GetExpiresValue`/`GetInt64HeaderValue` at integer boundaries, against reference definitions.
   - `GetNormalizedHeader`.
   - The canonical-form fixed point of spec §8.
   - The unterminated-quote output of `NormalizeContactLikeHeader`.
4. **Header table.** `coerce` and the compact-form table from `part_001`.

Not modelled at all:

- `has_multiple.h` and the Date declaration: no behaviour of their own;
- `phone.h`: interface only, outside the spec;
- `init_webrtc.cc`: forwarding to tracing and metrics, with no state;
- Contact stamping (`StampContact`): data only;
- `ClientTransactionId`: `NetworkLayer` keeps client ids as `<<"c", branch, method>>` tuples, and the server ids there are abstract; `TransactionIds` translates `ServerTransactionId` for the transaction pair;
- a Via that arrives already carrying `received` or `rport`: what `ViaParam` then does is not under `src/`, so the routing property takes Vias as a sender writes them;
- a certificate handler that completes after the layer was destroyed (`:773`, `base::Unretained(this)`): whether deleting the SSL transaction cancels it is decided outside `src/`;
- the channel implementation, timers' durations and the wire format, which are not under `src/`;
- a delegate that closes or dismisses the channel from `OnChannelConnected` (`network_layer.cc:668`): the rest of the handler then uses a deleted `ChannelContext`, undefined behaviour a model of the layer's maps cannot represent faithfully.
