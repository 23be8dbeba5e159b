SPECIFICATION MCSpec
CONSTANTS
  Processes = {p1, p2}
  None = None
INVARIANT TypeOK
PROPERTIES AcceptedAsMeant SignatureRefusedForAReason
\* Two processes that crashed with nothing on disk have no wallet to go on with.
CHECK_DEADLOCK FALSE
