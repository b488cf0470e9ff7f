--------------------------- MODULE MC_NetworkLayer ---------------------------
(* Model of the network layer with two destinations, one of them TLS, an   *)
(* INVITE and an OPTIONS to each side's destination, an ACK, one response  *)
(* and one incoming server transaction id.                                  *)
EXTENDS NetworkLayer

CONSTANTS d1, d2, r1, r2, r3, p1, s1

MCReqDest == (r1 :> d1) @@ (r2 :> d2) @@ (r3 :> d1)
MCReqMethod == (r1 :> "INVITE") @@ (r2 :> "OPTIONS") @@ (r3 :> "ACK")
MCRespServerId == p1 :> s1
MCRespDest == p1 :> d1
MCDestEndPoint ==
  (d1 :> [host |-> "10.0.0.1", port |-> 5060, protocol |-> "UDP"]) @@
  (d2 :> [host |-> "10.0.0.2", port |-> 5070, protocol |-> "TLS"])

\* The state without the history variables (each context's wire and the
\* order of Send calls).  No guard and no other variable reads them, so
\* runs whose properties do not mention them may explore this view.  The
\* branch of a request's Via is read only when the request is sent; unless
\* the TU resends, that happens once, before it is stamped, so without
\* resends the view leaves the stamped branches out as well.
StateWithoutHistory ==
  <<sslHandlerFactory,
    [d \in Dests |-> IF channels[d] = None THEN None
                    ELSE [channels[d] EXCEPT !.wire = <<>>]],
    clientTransactions, serverTransactions, nextBranch,
    IF MaxResends = 0 THEN <<>> ELSE <<viaBranch, resends>>, holds, sendResult,
    callbackRuns, sslTransactions, certErrors, alive>>
====
