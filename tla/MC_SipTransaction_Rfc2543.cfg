CONSTANTS
  MaxRetransmits = 2
  None = None
  \* An RFC 2543 request outside a dialog: no magic cookie, no To tag.
  Shapes = {"rfc2543"}

SPECIFICATION FairSpec

CHECK_DEADLOCK FALSE

PROPERTIES
  ServerTransactionEnds
