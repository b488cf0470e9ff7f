-------------------------- MODULE ClientTransaction --------------------------
(***************************************************************************)
(* A client transaction (spec 4.4.1 non-INVITE, 4.4.2 INVITE) on one      *)
(* channel.  The implementation is not under src/ (only the transaction   *)
(* interfaces are); this module follows the spec's state machines.        *)
(*                                                                         *)
(* Timers are sets of armed timers: "retry" (E / A), "timeout" (F / B)   *)
(* and "linger" (K / D).  A cancelled timer never fires (spec 5).  The    *)
(* channel is the pair of message sets toServer / toClient shared with    *)
(* the server side; an unreliable channel may lose a message and deliver  *)
(* one many times, a reliable one delivers each once.                     *)
(***************************************************************************)
EXTENDS Naturals

CONSTANT MaxRetransmits   \* bound on retry-timer firings

VARIABLES
  method,      \* "INVITE" or "OPTIONS" (any non-INVITE), fixed at start
  reliable,    \* is the channel reliable (TCP, TLS) or not (UDP)?
  toServer,    \* requests in flight: "req", "ack"
  toClient,    \* responses in flight: "1xx", "2xx", "3xx" (3xx-6xx)
  cstate,      \* Trying / Calling, Proceeding, Completed, Terminated
  ctimers,     \* armed timers of the client transaction
  cretx,       \* retry-timer firings so far
  uacLast,     \* last thing passed to the TU: "none", "provisional", "final"
  uacReports,  \* final outcomes passed to the TU
  cnotices,    \* OnTransactionTerminated calls to the network layer
  registered   \* is it in the layer's client_transactions_ map?

cvars == <<cstate, ctimers, cretx, uacLast, uacReports, cnotices, registered>>

IsInvite == method = "INVITE"

\* The states before a final outcome.
PreFinal == {"Trying", "Calling", "Proceeding"}

\* A delivery consumes the message only on a reliable channel.
Deliver(set, m) == IF reliable THEN set \ {m} ELSE set

\* On start: send the request; arm the retry timer on unreliable channels
\* and the request timeout (timerF / timerB).
CInit ==
  /\ cstate = IF IsInvite THEN "Calling" ELSE "Trying"
  /\ ctimers = IF reliable THEN {"timeout"} ELSE {"retry", "timeout"}
  /\ cretx = 0
  /\ uacLast = "none"
  /\ uacReports = 0
  /\ cnotices = 0
  /\ registered = TRUE       \* CreateClientTransaction registered it

MutPassesUpInCompleted(s, k) == s \in PreFinal \cup {"Completed"}

\* A response is passed to the TU only before the final outcome.
PassesUp(s, k) == s \in PreFinal

MutCancelAllOnProvisional(ts) == {}

\* A 1xx cancels the retry timer; the timeout stays armed.
TimersAfterProvisional(ts) == ts \ {"retry"}

\* The transaction reports that it terminated: OnTransactionTerminated
\* finds it by id and DestroyClientTransaction erases it from the map.
NotifyTerminated ==
  /\ cnotices' = cnotices + 1
  /\ registered' = FALSE

\* Retry timer (E in Trying, A in Calling): resend the request.
ClientRetry ==
  /\ cstate \in {"Trying", "Calling"}
  /\ "retry" \in ctimers
  \* the interval doubles from T1 until timerF / timerB (64*T1) ends the
  \* transaction, so the firings are finite; the model bounds them.
  /\ cretx < MaxRetransmits
  /\ toServer' = toServer \cup {"req"}
  /\ cretx' = cretx + 1
  /\ UNCHANGED <<method, reliable, toClient, cstate, ctimers, uacLast,
                 uacReports, cnotices, registered>>

\* A response k from the channel that the network layer's lookup
\* (GetClientTransaction) finds: the transaction has not terminated.
\* 1xx: Proceeding.  2xx to an INVITE: Terminated.  Other
\* finals: Completed, with an ACK for an INVITE and the linger timer
\* (K / D).  In Completed a retransmitted 3xx to an INVITE is ACKed again;
\* everything else is absorbed.
ClientReceive(k) ==
  /\ k \in toClient
  /\ registered
  /\ toClient' = Deliver(toClient, k)
  /\ \/ /\ PassesUp(cstate, k)
        /\ k = "1xx"
        /\ cstate' = "Proceeding"
        /\ ctimers' = TimersAfterProvisional(ctimers)
        /\ uacLast' = "provisional"
        /\ UNCHANGED <<toServer, uacReports, cnotices, registered>>
     \/ /\ PassesUp(cstate, k)
        /\ k # "1xx"
        /\ uacLast' = "final"
        /\ uacReports' = uacReports + 1
        /\ IF IsInvite /\ k = "2xx"
             THEN /\ cstate' = "Terminated"
                  /\ ctimers' = {}
                  /\ NotifyTerminated
                  /\ UNCHANGED toServer
             ELSE /\ cstate' = "Completed"
                  /\ ctimers' = {"linger"}
                  /\ toServer' = IF IsInvite THEN toServer \cup {"ack"} ELSE toServer
                  /\ UNCHANGED <<cnotices, registered>>
     \/ /\ ~PassesUp(cstate, k)
        /\ toServer' = IF IsInvite /\ cstate = "Completed" /\ k = "3xx"
                         THEN toServer \cup {"ack"} ELSE toServer
        /\ UNCHANGED <<cstate, ctimers, uacLast, uacReports, cnotices,
                       registered>>
  /\ UNCHANGED <<method, reliable, cretx>>

\* The request timeout (timerF / timerB) or a transport error before the
\* final outcome: fail to the TU and terminate.
ClientFail ==
  /\ cstate \in PreFinal
  /\ cstate' = "Terminated"
  /\ ctimers' = {}
  /\ uacLast' = "final"
  /\ uacReports' = uacReports + 1
  /\ NotifyTerminated
  /\ UNCHANGED <<method, reliable, toServer, toClient, cretx>>

ClientTimeout == "timeout" \in ctimers /\ ClientFail

\* A send of a registered transaction fails (a closed one sends nothing).
ClientTransportError == registered /\ ClientFail

\* The linger timer (K / D) in Completed: terminate.
ClientLinger ==
  /\ cstate = "Completed"
  /\ "linger" \in ctimers
  /\ cstate' = "Terminated"
  /\ ctimers' = {}
  /\ NotifyTerminated
  /\ UNCHANGED <<method, reliable, toServer, toClient, cretx, uacLast,
                 uacReports>>

MutPassUnattached ==
  uacLast' = "final" /\ uacReports' = uacReports + 1

\* An unattached response is dropped, not passed to the delegate.
DiscardUnattached == UNCHANGED <<uacLast, uacReports>>

\* NetworkLayer::OnIncomingMessage, response branch.  Once the transaction
\* is erased from the layer's table (it terminated, or its channel's
\* context was destroyed), GetClientTransaction finds nothing and
\* HandleIncomingResponse discards the response (a retransmitted 2xx too).
HandleIncomingResponse(k) ==
  /\ k \in toClient
  /\ ~registered
  /\ toClient' = Deliver(toClient, k)
  /\ DiscardUnattached
  /\ UNCHANGED <<method, reliable, toServer, cstate, ctimers, cretx, cnotices,
                 registered>>

MutCloseKeepsTimers(ts) == ts

\* Close() cancels every timer of the transaction (spec 9: before it
\* releases the channel reference).
TimersAfterClose(ts) == {}

\* The context of the transaction's channel is destroyed (OnChannelClosed,
\* a failed connect or send, a dismissal): the cascade calls
\* OnTransactionTerminated for its id, DestroyClientTransaction erases it
\* and calls Close().  The transaction reports nothing more to the TU.
Close ==
  /\ registered
  /\ registered' = FALSE
  /\ ctimers' = TimersAfterClose(ctimers)
  /\ UNCHANGED <<method, reliable, toServer, toClient, cstate, cretx, uacLast,
                 uacReports, cnotices>>

CNext ==
  \/ ClientRetry
  \/ \E k \in {"1xx", "2xx", "3xx"} : ClientReceive(k) \/ HandleIncomingResponse(k)
  \/ ClientTimeout
  \/ ClientTransportError
  \/ ClientLinger

\* Timer callbacks are tasks of the executor: an armed timer that stays
\* armed eventually fires.
CFairness ==
  /\ WF_cvars(ClientTimeout)
  /\ WF_cvars(ClientLinger)
====
