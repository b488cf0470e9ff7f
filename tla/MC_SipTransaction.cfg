CONSTANTS
  MaxRetransmits = 2
  None = None
  \* Requests whose ids the server side matches: an RFC 3261 request and
  \* an RFC 2543 request inside a dialog.
  Shapes = {"rfc3261", "rfc2543_dialog"}

SPECIFICATION FairSpec

\* Both transactions may end, after which nothing is left to do.
CHECK_DEADLOCK FALSE

INVARIANTS
  UasSeesRequestOnce

PROPERTIES
  ClientImplementsSpec
  ClientReleased
  ServerTransactionEnds
