SPECIFICATION FairSpec
CONSTANTS
  Files = {f1, f2}
  NumGroups = 2
  GroupOf <- TwoGroups
  NumThreads = 2
  Capacity = 1
  Plans <- AllPlans
INVARIANTS
  NoSendOnClosed
  CleanUpLast
  IndInv
  SuccessIsComplete
PROPERTIES
  Termination
