----------------------------- MODULE MC_Message -----------------------------
(* Message instantiated for TLC: Via (long and compact), Contact (long and *)
(* compact) and the non-coalescing WWW-Authenticate, with values that are  *)
(* coalesced, normalized, or malformed.                                    *)
EXTENDS Message

MCWords == {"via", "v", "contact", "m", "www-authenticate"}

N(w, u) == [word |-> w, upper |-> u]
V(k) == [k |-> k, r |-> 0]

\* Via: SIP/2.0/UDP a, SIP/2.0/UDP b   (two values on one line)
Via2 == [name |-> N("via", TRUE), vals |-> << V("tok"), V("tok") >>]
\* v: SIP/2.0/UDP c
ViaCompact == [name |-> N("v", FALSE), vals |-> << V("tok") >>]
\* Contact: sip:a@b, Bob <sip:b@c>
ContactOk == [name |-> N("contact", TRUE), vals |-> << V("addr"), V("dname") >>]
\* Contact: <sip:a@b>, <sip:b@c> <sip:c@d>   (repeated addr-spec)
ContactBad == [name |-> N("contact", TRUE), vals |-> << V("angle"), V("dup") >>]
\* WWW-Authenticate: Digest realm="x", nonce="y"   (never split)
Auth == [name |-> N("www-authenticate", TRUE), vals |-> << V("tok"), V("tok") >>]

MCHeaderInputs == {Via2, ViaCompact, ContactOk, ContactBad, Auth}

MCStartInputs == {"request", "RESPONSE", "badversion"}

\* "invite sip:a@b SIP/2.0\0m: sip:u@h\0\0" and "SIP/2.0 200 OK\0v: ...\0\0"
MCInitInputs ==
    { [start |-> "request",
       lines |-> << [name |-> N("m", FALSE), vals |-> << V("addr") >>] >>],
      [start |-> "RESPONSE", lines |-> << ViaCompact >>] }

=============================================================================
