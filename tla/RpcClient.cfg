\* Two calls in flight on one Client of either SDK.
CONSTANTS
  Calls = {c1, c2}
SPECIFICATION FairSpec
INVARIANTS
  TypeOK
  ReportsAreHonest
  SdksAgree
PROPERTIES
  EveryCallSettles
  ImplementsOneShotCall
\* Every call settles in the end and the client then rests.
CHECK_DEADLOCK FALSE
