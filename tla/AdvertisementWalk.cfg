CONSTANTS
  Ads = {1, 2, 3}
  MaxLimit = 2
  MaxChanges = 1
SPECIFICATION FairWalkSpec
INVARIANTS
  WalkTypeOK
  NoRowTwice
  NothingSkipped
PROPERTY WalkEnds
\* A finished walk rests.
CHECK_DEADLOCK FALSE
