\* The TypeScript README's list of the errors a rejected call throws.
CONSTANTS
  Calls = {c1}
SPECIFICATION FairSpec
INVARIANT EveryFailureIsAnSdkError
CHECK_DEADLOCK FALSE
