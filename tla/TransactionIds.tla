--------------------------- MODULE TransactionIds ---------------------------
(***************************************************************************)
(* NetworkLayer::ServerTransactionId (network_layer.cc): the key under    *)
(* which a server transaction is stored in server_transactions_, computed  *)
(* from an incoming request (to find or create the transaction) and from  *)
(* an outgoing response (SendResponse, to find the transaction that must  *)
(* send it).                                                               *)
(*                                                                         *)
(* A message is a record of the header fields the id reads.  The id      *)
(* string is the ':'-joined list of its fields; it is kept as the tuple   *)
(* of those fields, which tells apart the same strings as long as no      *)
(* field holds a ':' (none of the modelled values does; a sent-by is one  *)
(* host:port value).  A missing tag or branch adds nothing to the string, *)
(* so it is the empty string here.                                         *)
(***************************************************************************)
EXTENDS Sequences

CONSTANT None   \* model value: no Via header / no such tag or branch

\* A message is a record with the fields method (of the request line, or
\* of CSeq for a response), via (the first ViaParam of the topmost Via:
\* branch and sentby, or None), totag, fromtag, callid and cseq (seq,
\* method).  A branch is a record whose cookie field says whether
\* StartsWith(branch, kMagicCookie) holds.

\* id += x only when the header has x.
TagText(t) == IF t = None THEN "" ELSE t
BranchText(b) == IF b = None THEN "" ELSE b

\* HasBranch() && StartsWith(branch, kMagicCookie).
HasMagicCookie(via) == via # None /\ via.branch # None /\ via.branch.cookie

\* if (method == Method::ACK) method = Method::INVITE;
FoldAck(m) == IF m = "ACK" THEN "INVITE" ELSE m

\* The RFC 2543 fallback part: tags, Call-ID, CSeq number, the (folded)
\* method, then sent-by and branch of the topmost Via when there is one.
FallbackId(msg, m) ==
  <<"s", TagText(msg.totag), TagText(msg.fromtag), msg.callid,
   msg.cseq.seq, FoldAck(m)>>
  \o (IF msg.via = None THEN <<>>
      ELSE <<msg.via.sentby, BranchText(msg.via.branch)>>)

MutServerIdNoAckFold(req) ==
  IF HasMagicCookie(req.via)
  THEN <<"s", req.via.branch, req.via.sentby, req.method>>
  ELSE FallbackId(req, req.method)

\* ServerTransactionId(request): branch, sent-by and the method with ACK
\* folded into INVITE when the branch has the magic cookie; else the
\* fallback over the request-line method.
ServerTransactionIdOfRequest(req) ==
  IF HasMagicCookie(req.via)
  THEN <<"s", req.via.branch, req.via.sentby, FoldAck(req.method)>>
  ELSE FallbackId(req, req.method)

\* ServerTransactionId(response): the same over the CSeq method, which is
\* not folded on the magic-cookie path (ACKs get no responses).
ServerTransactionIdOfResponse(resp) ==
  IF HasMagicCookie(resp.via)
  THEN <<"s", resp.via.branch, resp.via.sentby, resp.cseq.method>>
  ELSE FallbackId(resp, resp.cseq.method)
====
