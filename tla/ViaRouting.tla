----------------------------- MODULE ViaRouting -----------------------------
(***************************************************************************)
(* How the network layer routes a response back to the sender of the      *)
(* request it answers (network_layer.cc).  OnIncomingMessage stamps the    *)
(* topmost Via of an incoming request with the address the request was     *)
(* really received from (StampServerTopmostVia); a response copies the     *)
(* request's Via headers, and a response sent outside a server transaction *)
(* goes to the endpoint GetMessageEndPoint derives from its topmost Via.   *)
(*                                                                         *)
(* Endpoints and Via values are records; hosts, ports and transports are   *)
(* small sets, which is all the comparisons of the code tell apart.        *)
(***************************************************************************)

CONSTANT None   \* model value: no Via header / no such parameter

Hosts == {"10.0.0.1", "10.0.0.2"}
Ports == {5060, 5070}
Transports == {"UDP", "TCP", "TLS"}

EndPoints == [host: Hosts, port: Ports, protocol: Transports]

\* EndPoint(): the empty endpoint GetMessageEndPoint answers for a response
\* without a Via.
EmptyEndPoint == [host |-> "", port |-> 0, protocol |-> ""]

\* The first ViaParam of the topmost Via: transport, sent-by, and the
\* received / rport parameters when present.
ViaParams == [protocol: Transports, host: Hosts, port: Ports,
              received: Hosts \cup {None}, rport: Ports \cup {None}]

MutStampNoRport(via, src) ==
  IF via = None
  THEN [protocol |-> src.protocol, host |-> src.host, port |-> src.port,
        received |-> None, rport |-> None]
  ELSE [via EXCEPT !.received = IF via.host # src.host THEN src.host ELSE @]

\* StampServerTopmostVia(request, channel), src being the channel's
\* destination (the peer): without a Via one is pushed with the peer's
\* address; otherwise received / rport are set where sent-by differs from it.
StampServerTopmostVia(via, src) ==
  IF via = None
  THEN [protocol |-> src.protocol, host |-> src.host, port |-> src.port,
        received |-> None, rport |-> None]
  ELSE [via EXCEPT !.received = IF via.host # src.host THEN src.host ELSE @,
                   !.rport = IF via.port # src.port THEN src.port ELSE @]

\* GetMessageEndPoint for a response: sent-by and transport of the topmost
\* Via, with received and rport taking precedence.
ViaEndPoint(via) ==
  IF via = None
  THEN EmptyEndPoint
  ELSE [host |-> IF via.received # None THEN via.received ELSE via.host,
        port |-> IF via.rport # None THEN via.rport ELSE via.port,
        protocol |-> via.protocol]

\* The topmost Via a sender writes into a request it sends from src: its
\* own sent-by (which behind a NAT need not be src) over the transport it
\* uses, without received or rport, which only a receiver adds.
SentVias(src) ==
  [protocol: {src.protocol}, host: Hosts, port: Ports,
   received: {None}, rport: {None}]

=============================================================================
